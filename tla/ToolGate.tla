------------------------------ MODULE ToolGate ------------------------------
(***************************************************************************)
(* The permission gate every tool call passes: the approval loop of         *)
(* orchestration/approval.rs, the permission engine, the approval manager   *)
(* of the protocol crate, and the revalidation an approved request meets    *)
(* just before it runs (execution_context.rs, process_authorization.rs).    *)
(* Agents share one PermissionContext: its mode, rules, ceiling, boundary   *)
(* and leases may change between the decision on a call and its execution,  *)
(* while the host is being asked, and while safe calls run side by side.    *)
(*                                                                          *)
(* They also share the approval manager, which knows a request by the id    *)
(* the provider gave the call and by nothing else.                          *)
(*                                                                          *)
(* A call is [id, tool, class, resources, external, safe, low_risk, hooked, *)
(* history]: the provider's call id, which may be that of another Agent's   *)
(* call, the effect descriptor, is_concurrency_safe, what the automatic     *)
(* reviewer says, whether a pre-tool hook matches, and what the ledger      *)
(* already holds for its effect.  Domains, paths and commands are resources;*)
(* a boundary or a rule is a set of them.                                   *)
(***************************************************************************)
EXTENDS Naturals, Sequences, FiniteSets

CONSTANTS Agents,         \* agents that share a PermissionContext
          Rounds,         \* the calls the model may ask for, per agent
          RuleSets,       \* rule sequences replace_rules may install
          Boundaries,     \* execution boundaries
          ChildBoundary,  \* boundary ceiling of each agent
          Protected,      \* resources of the runtime itself
          Listed,         \* tools on the configured allow list
          AnyTool,
          MaxChanges,     \* bound: changes of the policy
          MaxFaults       \* bound: failed writes, permits, hooks, cancellations

VARIABLES policy,   \* the PermissionContext
          leases,   \* its CapabilityLeaseStore
          session,  \* mode held by the ToolApprovalManager
          waiting,  \* its pending requests: at most one per call id
          env,      \* version of the operation environment
          calls,    \* the calls of each agent's round
          round,    \* where each agent's loop is
          call,     \* each call's approved request and execution
          faults, changes

vars == <<policy, leases, session, waiting, env, calls, round, call, faults, changes>>

Modes == {"Plan", "Auto", "Bypass"}
Classes == {"ReadOnly", "WorkspaceMutation", "Process", "Network", "ExternalSideEffect"}
plan == {"ReadOnly", "Network"}
Final == {"Succeeded", "Failed", "Denied", "Aborted", "OutcomeUnknown"}

NewCall == [pc |-> "none", mode |-> "Auto", env |-> 0, by_lease |-> FALSE, started |-> FALSE,
            status |-> "none", asked |-> FALSE, host |-> "none", said |-> "none"]

Init ==
  /\ calls \in Rounds
  /\ \E m \in Modes, rules \in RuleSets, b \in Boundaries :
       /\ policy = [mode |-> m, rules |-> rules, ceiling |-> Classes, boundary |-> b, identities |-> TRUE]
       /\ session = m
  /\ leases = {}
  /\ waiting = {}
  /\ env = 0
  /\ round = [a \in Agents |-> [at |-> 1, pc |-> "next", after |-> "none", status |-> "none",
                                pending |-> {}, stop |-> FALSE, results |-> <<>>, mode |-> "Auto",
                                hook |-> "none"]]
  /\ call = [a \in Agents |-> [i \in DOMAIN calls[a] |-> NewCall]]
  /\ faults = 0
  /\ changes = 0

Fails == faults < MaxFaults /\ faults' = faults + 1
Holds == faults' = faults

(***************************************************************************)
(* The permission engine                                                    *)
(***************************************************************************)
preset_default(mode, class) ==
  CASE mode = "Plan" -> IF class = "ReadOnly" THEN "Allow" ELSE "Deny"
    [] mode = "Auto" -> IF class \in {"ReadOnly", "WorkspaceMutation"} THEN "Allow"
                        ELSE IF class \in {"Process", "Network"} THEN "AutoReview" ELSE "Ask"
    [] OTHER -> "Allow"

rule_matches(rule, t) ==
  /\ rule.tool \in {AnyTool, t.tool}
  /\ \/ rule.resources = {}
     \/ IF rule.decision = "Deny" THEN rule.resources \cap t.resources # {}
        ELSE t.resources # {} /\ t.resources \subseteq rule.resources

latest_rule(rules, t) ==
  LET matched == {k \in DOMAIN rules : rule_matches(rules[k], t)}
      denies == {k \in matched : rules[k].decision = "Deny"}
      Latest(S) == CHOOSE k \in S : \A j \in S : j <= k
  IN IF denies # {} THEN "Deny" ELSE IF matched # {} THEN rules[Latest(matched)].decision ELSE "none"

engine_evaluate(t, mode, ceiling, rules) ==
  LET rule == latest_rule(rules, t)
      base == IF rule = "none" THEN preset_default(mode, t.class) ELSE rule
  IN IF t.class \notin ceiling THEN "Deny"
     ELSE IF mode = "Bypass" /\ base # "Deny" THEN "Allow" ELSE base

lease_matches(lease, a, i, t) ==
  /\ lease.tool = t.tool
  /\ lease.max = 0 \/ lease.uses < lease.max
  /\ IF lease.scope = "Effect" THEN lease.effect = <<a, i>>
     ELSE ~t.external /\ t.resources \subseteq lease.resources

covers(ls, a, i, t) == \E lease \in ls : lease_matches(lease, a, i, t)

boundary_allows(boundary, t) ==
  t.resources \subseteq boundary /\ (t.resources = {} => t.class = "ReadOnly")

review(t) == IF t.class = "Process" /\ t.low_risk THEN "Allow" ELSE "Ask"

Verdict(decision, lease) == [decision |-> decision, lease |-> lease]

within_boundary(ls, a, i, t, mode, ceiling, base, reviewer) ==
  CASE ~boundary_allows(policy.boundary, t) ->
         IF covers(ls, a, i, t) THEN Verdict("Allow", TRUE)
         ELSE Verdict(IF mode = "Auto" /\ t.class \in ceiling THEN "Ask" ELSE "Deny", FALSE)
    [] base \in {"Ask", "AutoReview"} /\ covers(ls, a, i, t) -> Verdict("Allow", TRUE)
    [] base = "AutoReview" /\ reviewer -> Verdict(review(t), FALSE)
    [] OTHER -> Verdict(base, FALSE)

narrowed_ceiling(mode) == IF mode = "Plan" THEN policy.ceiling \cap plan ELSE policy.ceiling

evaluate_effect(ls, a, i, t, mode, reviewer) ==
  LET ceiling == narrowed_ceiling(mode)
      base == engine_evaluate(t, mode, ceiling, policy.rules)
  IN CASE mode = "Bypass" -> Verdict(engine_evaluate(t, mode, Classes, policy.rules), FALSE)
       [] ~policy.identities \/ base = "Deny" -> Verdict("Deny", FALSE)
       [] t.resources \cap Protected # {} \/ ~boundary_allows(ChildBoundary[a], t) -> Verdict("Deny", FALSE)
       [] OTHER -> within_boundary(ls, a, i, t, mode, ceiling, base, reviewer)

\* Mutant: a mode that became stricter since the approval is ignored.
keeps_approved_mode(approved, current) == approved

stricter_permission_mode(approved, current) ==
  IF "Plan" \in {approved, current} THEN "Plan"
  ELSE IF "Auto" \in {approved, current} THEN "Auto" ELSE "Bypass"

(***************************************************************************)
(* Changes another holder of the PermissionContext makes                    *)
(***************************************************************************)
Changing == /\ changes < MaxChanges
            /\ changes' = changes + 1
            /\ UNCHANGED <<leases, waiting, calls, round, call, faults>>

set_mode(m) ==
  /\ Changing
  /\ m # policy.mode
  /\ policy' = [policy EXCEPT !.mode = m]
  /\ session' = m
  /\ UNCHANGED env

set_ceiling(ceiling) ==
  /\ Changing
  /\ ceiling # policy.ceiling
  /\ policy' = [policy EXCEPT !.ceiling = ceiling]
  /\ UNCHANGED <<session, env>>

replace_rules(rules) ==
  /\ Changing
  /\ rules # policy.rules
  /\ policy' = [policy EXCEPT !.rules = rules]
  /\ UNCHANGED <<session, env>>

set_boundary(b) ==
  /\ Changing
  /\ b # policy.boundary
  /\ policy' = [policy EXCEPT !.boundary = b, !.identities = TRUE]
  /\ UNCHANGED <<session, env>>

root_replaced ==
  /\ Changing
  /\ policy.identities
  /\ policy' = [policy EXCEPT !.identities = FALSE]
  /\ UNCHANGED <<session, env>>

set_environment ==
  /\ Changing
  /\ env' = env + 1
  /\ UNCHANGED <<policy, session>>

(***************************************************************************)
(* The approval loop of one round                                           *)
(***************************************************************************)
shared == <<policy, session, env, calls, changes>>
Task(a) == calls[a][round[a].at]
At(a, pc) == round[a].pc = pc

\* Push one result for the current call and go on to the next.
Pushed(r, status) ==
  [r EXCEPT !.results = Append(@, <<r.at, status>>), !.at = @ + 1, !.pc = "next", !.after = "none",
            !.status = "none", !.stop = @ \/ status = "OutcomeUnknown"]

\* Mutant: an early return pushes its result while safe calls are pending.
pushes_without_flush(a, after, status) ==
  round' = [round EXCEPT ![a].pc = after, ![a].after = "none", ![a].status = status]

\* flush_safe!() and then push: the pending safe calls run first.
FlushThen(a, after, status) ==
  round' = [round EXCEPT ![a].pc = "flush", ![a].after = after, ![a].status = status]

skipped_after_reconciliation(a) == round' = [round EXCEPT ![a] = Pushed(@, "Aborted")]

NextCall(a) ==
  /\ At(a, "next")
  /\ round[a].at \in DOMAIN calls[a]
  /\ CASE round[a].stop -> skipped_after_reconciliation(a)
       [] ~round[a].stop /\ ~Task(a).safe -> FlushThen(a, "prepare", "none")
       [] OTHER -> round' = [round EXCEPT ![a].pc = "prepare"]
  /\ Holds
  /\ UNCHANGED <<shared, leases, waiting, call>>

unavailable_tool_recovery(t) == IF t.history = "none" THEN "Failed" ELSE "OutcomeUnknown"

prepare_tool_effect(a) ==
  /\ At(a, "prepare")
  /\ \/ Holds /\ round[a].stop /\ skipped_after_reconciliation(a)
     \/ /\ Fails
        /\ ~round[a].stop
        /\ FlushThen(a, "push", unavailable_tool_recovery(Task(a)))
     \/ /\ Holds
        /\ ~round[a].stop
        /\ CASE Task(a).history = "none" -> round' = [round EXCEPT ![a].pc = "evaluate"]
             [] Task(a).history = "done" -> FlushThen(a, "reuse", "none")
             [] OTHER -> FlushThen(a, "push", "OutcomeUnknown")
  /\ UNCHANGED <<shared, leases, waiting, call>>

\* A recorded outcome is replayed once its hooks are known to have run.
reuse_outcome(a) ==
  /\ At(a, "reuse")
  /\ \/ Holds /\ round' = [round EXCEPT ![a] = Pushed(@, IF @.stop THEN "Aborted" ELSE "Succeeded")]
     \/ Fails /\ ~round[a].stop /\ round' = [round EXCEPT ![a] = Pushed(@, "OutcomeUnknown")]
  /\ UNCHANGED <<shared, leases, waiting, call>>

evaluate_with(a) ==
  /\ At(a, "evaluate")
  /\ LET v == evaluate_effect(leases, a, round[a].at, Task(a), session, TRUE) IN
     \/ Fails /\ FlushThen(a, "push", "Failed")
     \/ /\ Holds
        /\ CASE v.decision = "Deny" -> FlushThen(a, "push", "Denied")
             [] v.decision = "Ask" -> round' = [round EXCEPT ![a].pc = "flush", ![a].after = "ask", ![a].mode = session]
             [] OTHER -> round' = [round EXCEPT ![a].pc = "guard", ![a].mode = session]
  /\ UNCHANGED <<shared, leases, waiting, call>>

is_auto_approved(t) == t.tool \in Listed \/ session = "Bypass"

\* The request is shown to the Host, and after that registered.
emit_tool_request(a) ==
  /\ At(a, "ask")
  /\ Holds
  /\ IF is_auto_approved(Task(a))
     THEN /\ call' = [call EXCEPT ![a][round[a].at].said = "Listed"]
          /\ round' = [round EXCEPT ![a].pc = "approved"]
     ELSE /\ call' = [call EXCEPT ![a][round[a].at].asked = TRUE]
          /\ round' = [round EXCEPT ![a].pc = "asked"]
  /\ UNCHANGED <<shared, leases, waiting>>

\* The pending requests under the id of a call.
Pending(b, j) == {w \in waiting : calls[w[1]][w[2]].id = calls[b][j].id}

\* insert: a request already pending under this id loses its sender.
request_approval(a) ==
  /\ At(a, "asked")
  /\ Holds
  /\ waiting' = (waiting \ Pending(a, round[a].at)) \cup {<<a, round[a].at>>}
  /\ round' = [round EXCEPT ![a].pc = "waiting"]
  /\ UNCHANGED <<shared, leases, call>>

\* Mutant: the answer goes to a pending request whatever its id.
answer_any(b, j, w, said) ==
  /\ call[b][j].asked /\ call[b][j].host = "none"
  /\ w \in waiting
  /\ waiting' = waiting \ {w}
  /\ Holds
  /\ call' = [[call EXCEPT ![b][j].host = said] EXCEPT ![w[1]][w[2]].said = said]

\* The Host answers a request it was shown, which may be gone by then: the
\* answer carries its call id and goes to whichever request is pending under it.
Answer(b, j, w, said) ==
  /\ call[b][j].asked
  /\ call[b][j].host = "none"
  /\ w \in Pending(b, j)
  /\ waiting' = waiting \ {w}
  /\ Holds
  /\ call' = [[call EXCEPT ![b][j].host = said] EXCEPT ![w[1]][w[2]].said = said]

approve(b, j, scope) ==
  \E w \in waiting :
    /\ Answer(b, j, w, scope)
    /\ round' = [round EXCEPT ![w[1]].pc = "approved"]
    /\ UNCHANGED <<shared, leases>>

resolve_denied(b, j) ==
  \E w \in waiting :
    /\ Answer(b, j, w, "Denied")
    /\ FlushThen(w[1], "push", "Denied")
    /\ UNCHANGED <<shared, leases>>

\* The sender was dropped: the round stops without further results.
approval_cancelled(a) ==
  /\ At(a, "waiting")
  /\ <<a, round[a].at>> \notin waiting
  /\ Holds
  /\ round' = [round EXCEPT ![a].pc = "quit"]
  /\ UNCHANGED <<shared, leases, waiting, call>>

approval_lease(a, i, t, always) ==
  IF always /\ ~t.external
  THEN [scope |-> "Run", effect |-> <<>>, tool |-> t.tool, resources |-> t.resources, max |-> 0, uses |-> 0]
  ELSE [scope |-> "Effect", effect |-> <<a, i>>, tool |-> t.tool, resources |-> t.resources, max |-> 1, uses |-> 0]

issue_approval_lease(a) ==
  /\ At(a, "approved")
  /\ LET i == round[a].at IN
     \/ /\ Fails
        /\ \E status \in {"Aborted", "Failed"} : FlushThen(a, "push", status)
        /\ UNCHANGED leases
     \/ /\ Holds
        /\ leases' = leases \cup {approval_lease(a, i, Task(a), call[a][i].said \in {"Always", "Listed"})}
        /\ round' = [round EXCEPT ![a].pc = "reevaluate"]
  /\ UNCHANGED <<shared, waiting, call>>

reevaluate(a) ==
  /\ At(a, "reevaluate")
  /\ \/ Fails /\ FlushThen(a, "push", "Failed")
     \/ /\ Holds
        /\ IF evaluate_effect(leases, a, round[a].at, Task(a), round[a].mode, TRUE).decision = "Allow"
           THEN round' = [round EXCEPT ![a].pc = "guard"]
           ELSE FlushThen(a, "push", "Denied")
  /\ UNCHANGED <<shared, leases, waiting, call>>

(***************************************************************************)
(* The pre-tool hook: a Process effect of its own, permitted by a rule and  *)
(* a grant registered for it alone while it runs                            *)
(***************************************************************************)
HookCommand == [tool |-> "HookCommand", class |-> "Process", resources |-> {"hook"}]

hook_permitted(a, mode) ==
  LET rules == Append(policy.rules, [tool |-> "HookCommand", resources |-> {}, decision |-> "Allow"])
  IN IF mode = "Bypass" THEN engine_evaluate(HookCommand, mode, Classes, rules) = "Allow"
     ELSE /\ policy.identities
          /\ engine_evaluate(HookCommand, mode, narrowed_ceiling(mode), rules) = "Allow"
          /\ boundary_allows(ChildBoundary[a], HookCommand)

hook_evaluates(a) ==
  /\ At(a, "guard")
  /\ Task(a).hooked
  /\ \/ Fails /\ FlushThen(a, "push", "OutcomeUnknown")
     \/ /\ Holds
        /\ IF hook_permitted(a, policy.mode)
           THEN round' = [round EXCEPT ![a].pc = "hook", ![a].hook = policy.mode]
           ELSE FlushThen(a, "push", "Denied")
  /\ UNCHANGED <<shared, leases, waiting, call>>

hook_runs(a) ==
  /\ At(a, "hook")
  /\ \/ Fails /\ FlushThen(a, "push", "OutcomeUnknown")
     \/ Holds /\ FlushThen(a, "push", "Denied")
     \/ /\ Holds
        /\ hook_permitted(a, stricter_permission_mode(round[a].hook, policy.mode))
        /\ round' = [round EXCEPT ![a].pc = "remember"]
  /\ UNCHANGED <<shared, leases, waiting, call>>

remember_approved_request(a) ==
  LET i == round[a].at IN
  /\ \/ At(a, "remember")
     \/ At(a, "guard") /\ ~Task(a).hooked
  /\ Holds
  /\ call' = [call EXCEPT ![a][i].pc = "approved", ![a][i].mode = round[a].mode, ![a][i].env = env]
  /\ round' = [round EXCEPT ![a] = IF Task(a).safe
                                   THEN [@ EXCEPT !.pending = @ \cup {i}, !.at = @ + 1, !.pc = "next"]
                                   ELSE [@ EXCEPT !.pc = "running"]]
  /\ UNCHANGED <<shared, leases, waiting>>

(***************************************************************************)
(* Execution of an approved request                                         *)
(***************************************************************************)
Executing(a, i) == \/ At(a, "running") /\ i = round[a].at
                   \/ At(a, "flush") /\ i \in round[a].pending

Ends(a, i, status) == call' = [call EXCEPT ![a][i].pc = "done", ![a][i].status = status]

\* One use of a matching lease, written before it is counted.
consume_lease(a, i, t) ==
  \E lease \in leases :
    /\ lease_matches(lease, a, i, t)
    /\ leases' = IF lease.max = 0 THEN leases
                 ELSE (leases \ {lease}) \cup {[lease EXCEPT !.uses = @ + 1]}

revalidate(a, i) ==
  LET t == calls[a][i]
      mode == stricter_permission_mode(call[a][i].mode, policy.mode)
      v == evaluate_effect(leases, a, i, t, mode, TRUE)
  IN /\ Executing(a, i)
     /\ call[a][i].pc = "approved"
     /\ \/ Fails /\ Ends(a, i, "Denied") /\ UNCHANGED leases
        \/ /\ Holds
           /\ IF call[a][i].env = env /\ v.decision = "Allow"
              THEN /\ call' = [call EXCEPT ![a][i].pc = "ready", ![a][i].by_lease = v.lease]
                   /\ IF v.lease /\ t.class # "Process" THEN consume_lease(a, i, t) ELSE UNCHANGED leases
              ELSE Ends(a, i, "Denied") /\ UNCHANGED leases
     /\ UNCHANGED <<shared, waiting, round>>

record_effect_intent(a, i) ==
  /\ Executing(a, i)
  /\ call[a][i].pc = "ready"
  /\ \/ Fails /\ Ends(a, i, "Failed")
     \/ /\ Holds
        /\ call' = [call EXCEPT ![a][i].pc = "running", ![a][i].started = calls[a][i].class # "Process"]
  /\ UNCHANGED <<shared, leases, waiting, round>>

spawn_decision(ls, a, i, t, mode, credential) ==
  LET v == evaluate_effect(ls, a, i, t, mode, FALSE).decision
      reviewed == IF call[a][i].by_lease THEN credential
                  ELSE /\ policy.identities
                       /\ boundary_allows(policy.boundary, t)
                       /\ boundary_allows(ChildBoundary[a], t)
  IN /\ call[a][i].env = env
     /\ \/ v = "Allow"
        \/ v \in {"Ask", "AutoReview"} /\ mode = call[a][i].mode /\ reviewed
     /\ call[a][i].by_lease => credential
     /\ mode # "Plan"

authorize_and_spawn(a, i) ==
  LET t == calls[a][i]
      mode == stricter_permission_mode(call[a][i].mode, policy.mode)
      credential == call[a][i].by_lease /\ covers(leases, a, i, t)
  IN /\ Executing(a, i)
     /\ call[a][i].pc = "running"
     /\ t.class = "Process"
     /\ ~call[a][i].started
     /\ IF credential THEN consume_lease(a, i, t) ELSE UNCHANGED leases
     /\ \/ /\ Holds
           /\ call' = [call EXCEPT ![a][i] =
                         IF spawn_decision(leases', a, i, t, mode, credential)
                         THEN [@ EXCEPT !.started = TRUE] ELSE [@ EXCEPT !.pc = "refused"]]
        \/ /\ Fails
           /\ spawn_decision(leases', a, i, t, mode, credential)
           /\ call' = [call EXCEPT ![a][i] = [@ EXCEPT !.started = TRUE, !.pc = "done", !.status = "OutcomeUnknown"]]
     /\ UNCHANGED <<shared, waiting, round>>

record_outcome(a, i) ==
  /\ Executing(a, i)
  /\ \/ call[a][i].pc = "refused"
     \/ call[a][i].pc = "running" /\ call[a][i].started
  /\ \/ /\ Holds
        /\ \E status \in {"Succeeded", "Failed"} :
             /\ call[a][i].pc = "refused" => status = "Failed"
             /\ Ends(a, i, status)
     \/ Fails /\ Ends(a, i, "OutcomeUnknown")
  /\ UNCHANGED <<shared, leases, waiting, round>>

Status(a, i, broken) == IF i = broken THEN "OutcomeUnknown" ELSE call[a][i].status
\* A post-tool hook of unknown outcome makes its call's outcome unknown.
post_hooks(a, S, broken) ==
  \/ Holds /\ broken = 0
  \/ Fails /\ broken \in {i \in S : calls[a][i].hooked /\ call[a][i].status # "OutcomeUnknown"}

finish_single(a) ==
  LET i == round[a].at IN
  /\ At(a, "running")
  /\ call[a][i].pc = "done"
  /\ \E broken \in {0, i} :
       /\ post_hooks(a, {i}, broken)
       /\ call' = [call EXCEPT ![a][i].status = Status(a, i, broken)]
       /\ round' = [round EXCEPT ![a] = Pushed(@, Status(a, i, broken))]
  /\ UNCHANGED <<shared, leases, waiting>>

\* The batch's results in call order (pending calls are consecutive indices).
InOrder(a, broken) ==
  LET first == round[a].at - Cardinality(round[a].pending)
  IN [k \in 1..Cardinality(round[a].pending) |-> <<first + k - 1, Status(a, first + k - 1, broken)>>]

flush_concurrency_safe_calls(a) ==
  /\ At(a, "flush")
  /\ \A i \in round[a].pending : call[a][i].pc = "done"
  /\ \E broken \in {0} \cup round[a].pending :
       /\ post_hooks(a, round[a].pending, broken)
       /\ call' = [call EXCEPT ![a] = [i \in DOMAIN @ |-> IF i \in round[a].pending
                                                         THEN [@[i] EXCEPT !.status = Status(a, i, broken)]
                                                         ELSE @[i]]]
       /\ round' = [round EXCEPT ![a].pc = round[a].after, ![a].pending = {},
                                 ![a].results = @ \o InOrder(a, broken),
                                 ![a].stop = @ \/ \E i \in round[a].pending : Status(a, i, broken) = "OutcomeUnknown"]
  /\ UNCHANGED <<shared, leases, waiting>>

push_result(a) ==
  /\ At(a, "push")
  /\ Holds
  /\ round' = [round EXCEPT ![a] = Pushed(@, @.status)]
  /\ UNCHANGED <<shared, leases, waiting, call>>

end_of_round(a) ==
  /\ At(a, "next")
  /\ round[a].at \notin DOMAIN calls[a]
  /\ Holds
  /\ IF round[a].pending = {} THEN round' = [round EXCEPT ![a].pc = "done"] ELSE FlushThen(a, "next", "none")
  /\ UNCHANGED <<shared, leases, waiting, call>>

\* The turn is cancelled: registrations are dropped, started effects become unknown.
cancel(a) ==
  /\ round[a].pc \notin {"done", "quit"}
  /\ Fails
  /\ round' = [round EXCEPT ![a].pc = "quit"]
  /\ waiting' = waiting \ {<<a, round[a].at>>}
  /\ call' = [call EXCEPT ![a] = [i \in DOMAIN @ |->
                CASE @[i].pc = "approved" -> [@[i] EXCEPT !.pc = "none"]
                  [] @[i].pc \in {"running", "refused"} -> [@[i] EXCEPT !.pc = "done", !.status = "OutcomeUnknown"]
                  [] OTHER -> @[i]]]
  /\ UNCHANGED <<shared, leases>>

Execution(a) ==
  \E i \in DOMAIN calls[a] :
    revalidate(a, i) \/ record_effect_intent(a, i) \/ authorize_and_spawn(a, i) \/ record_outcome(a, i)

Loop(a) ==
  \/ NextCall(a) \/ prepare_tool_effect(a) \/ reuse_outcome(a) \/ evaluate_with(a)
  \/ emit_tool_request(a) \/ request_approval(a) \/ approval_cancelled(a) \/ issue_approval_lease(a) \/ reevaluate(a)
  \/ hook_evaluates(a) \/ hook_runs(a) \/ remember_approved_request(a)
  \/ finish_single(a) \/ flush_concurrency_safe_calls(a) \/ push_result(a) \/ end_of_round(a)

Host(a) ==
  \E i \in DOMAIN calls[a] : (\E scope \in {"Once", "Always"} : approve(a, i, scope)) \/ resolve_denied(a, i)

Policy ==
  \/ \E m \in Modes : set_mode(m)
  \/ \E rules \in RuleSets : replace_rules(rules)
  \/ \E b \in Boundaries : set_boundary(b)
  \/ set_ceiling(plan) \/ root_replaced \/ set_environment

Next == Policy \/ \E a \in Agents : Loop(a) \/ Execution(a) \/ Host(a) \/ cancel(a)

Spec == Init /\ [][Next]_vars

(***************************************************************************)
(* Properties                                                               *)
(***************************************************************************)
TypeOK ==
  /\ policy.mode \in Modes /\ session \in Modes
  /\ policy.ceiling \subseteq Classes
  /\ waiting \subseteq {<<a, round[a].at>> : a \in Agents}
  /\ \A w \in waiting : Pending(w[1], w[2]) = {w}
  /\ \A a \in Agents :
       /\ round[a].pending \subseteq DOMAIN calls[a]
       /\ \A i \in DOMAIN calls[a] : call[a][i].status \in Final \cup {"none"}
  /\ faults \in 0..MaxFaults /\ changes \in 0..MaxChanges

\* The moment a call's effect may no longer be stopped: the revalidation, or
\* for a process the spawn itself.
Starts(a, i) ==
  IF calls[a][i].class = "Process" THEN ~call[a][i].started /\ call'[a][i].started
  ELSE call[a][i].pc = "approved" /\ call'[a][i].pc = "ready"

\* The configured list allows this call, or the Host answered a request of its
\* id so.  With ids of their own that request is this very call's; where two
\* Agents' calls share an id the answer to either may reach it.
Said(a, i, scopes) ==
  \/ call[a][i].said = "Listed"
  \/ \E b \in Agents : \E j \in DOMAIN calls[b] :
       calls[b][j].id = calls[a][i].id /\ call[b][j].host \in scopes

\* The Host said yes to this call, or Always to one that covers it.
Consent(a, i) ==
  LET t == calls[a][i] IN
  \/ Said(a, i, {"Once", "Always"})
  \/ ~t.external /\ \E b \in Agents : \E j \in DOMAIN calls[b] :
       /\ Said(b, j, {"Always"})
       /\ calls[b][j].tool = t.tool
       /\ t.resources \subseteq calls[b][j].resources

Authorised(a, i) ==
  LET t == calls[a][i]
      modes == {call[a][i].mode, policy.mode}
      allowed_by_rule == \E k \in DOMAIN policy.rules :
                           policy.rules[k].decision = "Allow" /\ rule_matches(policy.rules[k], t)
  IN /\ \A k \in DOMAIN policy.rules : policy.rules[k].decision = "Deny" => ~rule_matches(policy.rules[k], t)
     /\ "Plan" \in modes => t.class \in {"ReadOnly", "Network"}
     /\ modes # {"Bypass"} =>
          /\ policy.identities
          /\ t.class \in policy.ceiling
          /\ t.resources \cap Protected = {}
          /\ t.resources \subseteq ChildBoundary[a]
          /\ \/ Consent(a, i)
             \/ /\ t.resources \subseteq policy.boundary
                /\ \/ t.low_risk \/ t.class \in {"ReadOnly", "WorkspaceMutation"} \/ allowed_by_rule
                   \/ t.class = "Process" /\ policy.mode \in {call[a][i].mode, "Bypass"}

(* An effect starts only under the policy in force at that moment: however  *)
(* mode, rules, ceiling, boundary or roots changed since the call was       *)
(* decided or the host was asked, no denied effect starts, Plan admits no   *)
(* mutation, and outside the boundary or the presets only the host's yes    *)
(* counts (revalidate, authorize_and_spawn_guarded), given to a request     *)
(* with the call's id: to the call itself unless another Agent's call has   *)
(* the same id (ToolApprovalManager::approve).  A process allowed by        *)
(* its revalidation keeps that credential until its spawn as long as it     *)
(* stays inside the boundary and the mode has not become stricter.          *)
StartsAuthorised ==
  \A a \in Agents : \A i \in DOMAIN calls[a] : Starts(a, i) => Authorised(a, i)

EffectsAuthorised == [][StartsAuthorised]_vars

\* Outcomes are unknown either in the results or in a call that has just ended.
Unknown(a, i) == \/ call[a][i].status = "OutcomeUnknown"
                 \/ <<i, "OutcomeUnknown">> \in {round[a].results[k] : k \in DOMAIN round[a].results}

(* A round returns one result per call, in the order of the calls, although *)
(* safe calls run side by side and every early return flushes them first;   *)
(* and once an outcome is unknown no later call that is not concurrency     *)
(* safe starts (stop_after_unknown).                                        *)
RoundInOrder ==
  \A a \in Agents :
    /\ \A k \in DOMAIN round[a].results : round[a].results[k][1] = k
    /\ round[a].pc = "done" => Len(round[a].results) = Len(calls[a])
    /\ \A i, j \in DOMAIN calls[a] :
         i < j /\ Unknown(a, i) /\ ~calls[a][j].safe => ~call[a][j].started
=============================================================================
