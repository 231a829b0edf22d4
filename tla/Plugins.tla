------------------------------ MODULE Plugins ------------------------------
(***************************************************************************)
(* Plugins of one Run: the Host's install / activate / deactivate commands *)
(* (json_stream/dispatch/plugin.rs), the runtime they change               *)
(* (plugin_runtime.rs), the workflow and role registries a plugin          *)
(* contributes to (workflow_controller.rs, role_registry.rs), the restart  *)
(* that rebuilds all of it from the Run's ledger (plugin_bootstrap.rs) and *)
(* the command contributions a workflow node invokes (plugin_tool.rs).     *)
(*                                                                         *)
(* Data.  The content of a plugin's directory is a version (0: it cannot   *)
(* be resolved); the resolved identity and an inspected executable are the *)
(* version found at that moment.  The ledger is kept folded: `led` is what *)
(* restore_durable_plugins computes from the records so far.               *)
(***************************************************************************)
EXTENDS Naturals, Sequences, FiniteSets
LOCAL INSTANCE SequencesExt
LOCAL INSTANCE FiniteSetsExt

CONSTANTS
    Plugins,      \* plugin ids
    Order,        \* the sequence of all of them, as sorted by id
    Global,       \* those under the host-global root: activated at first boot
    Pinned,       \* those that contribute Skill directories
    Caps,         \* capabilities a plugin may bind
    Provides,     \* plugin -> capabilities it binds
    Requires,     \* plugin -> services it needs
    Workflows,    \* workflow ids
    Contributes,  \* plugin -> sequence of the workflows in its manifest
    Refs,         \* workflow -> workflows its nodes refer to
    Variant,      \* plugin -> workflow -> the definition it ships
    Stages,       \* the capabilities a workflow node invokes, in order
    NoPlugin, NoDef,
    MaxVersion, MaxRequests, MaxFaults

VARIABLES
    disk,      \* plugin -> version in its directory, 0 when unusable
    led,       \* the folded ledger: install, active, pending, any
    rt,        \* the live registries, empty while the process is down
    wf,        \* workflow definitions, their owners, the role owners
    running,   \* workflow runs in status Running
    call,      \* the contribution call of the running node
    eff,       \* stage -> durable effect state
    ran,       \* stage -> how often its command ran
    reported,  \* plugins the last restart asked to reconcile
    inflight,  \* plugins whose last command was cut off by a crash
    torn,      \* plugins a failed command left half registered
    spent      \* requests and faults so far

vars == <<disk, led, rt, wf, running, call, eff, ran, reported, inflight, torn, spent>>

Phases == {"install", "activate", "deactivate"}

-----------------------------------------------------------------------------
(* The folded ledger. *)

FreshLedger == [install |-> [p \in Plugins |-> 0], active |-> [p \in Plugins |-> FALSE],
                pending |-> {}, any |-> FALSE]

\* The key of an operation: its request id, or the plugin itself at boot (request 0).
operation_key(phase, p, req) == [phase |-> phase, plugin |-> p, req |-> req]

intent(l, phase, p, req) ==
    [l EXCEPT !.pending = @ \union {operation_key(phase, p, req)}, !.any = TRUE]

installed_record(l, p, v, req) ==
    [l EXCEPT !.pending = @ \ {operation_key("install", p, req)}, !.install[p] = v, !.any = TRUE]

activated_record(l, p, req) ==
    [l EXCEPT !.pending = @ \ {operation_key("activate", p, req)}, !.active[p] = TRUE, !.any = TRUE]

deactivated_record(l, p, req) ==
    [l EXCEPT !.pending = @ \ {operation_key("deactivate", p, req)}, !.active[p] = FALSE]

\* plugin_lifecycle_failed closes the operations of its request; a boot failure has none.
failed_record(l, req) ==
    [l EXCEPT !.pending = IF req = 0 THEN @ ELSE {k \in @ : k.req # req}]

is_durable_plugin_state(l) == l.any

-----------------------------------------------------------------------------
(* Capabilities, activation and the other registries of the process. *)

\* The manifest resolves: trusted root, valid definition, every file of the directory hashed.
resolves(d, p) == d[p] # 0

\* The command a tool or contribution names is a file under the plugin's root.
resolve_plugin_executable(d, p) == d[p] # 0

FreshRuntime == [up |-> FALSE, resolved |-> [p \in Plugins |-> 0], active |-> [p \in Plugins |-> 0],
                 exec |-> [p \in Plugins |-> 0], bound |-> [c \in Caps |-> NoPlugin],
                 children |-> {}, tools |-> {}, grants |-> [p \in Plugins |-> 0], env |-> {}]

resolve_capability(r, c) == r.bound[c]

bind_batch_ok(r, p) == \A c \in Provides[p] : r.bound[c] \in {NoPlugin, p}

bind_plugin_capabilities(r, p) ==
    [r EXCEPT !.bound = [c \in Caps |-> IF c \in Provides[p] THEN p ELSE @[c]]]

unbind_plugin(r, p) ==
    [r EXCEPT !.bound = [c \in Caps |-> IF @[c] = p THEN NoPlugin ELSE @[c]]]

is_active(r, p) == r.active[p] # 0

\* PluginRuntime::activate: nothing is bound unless every check passes.
activate_ok(r, d, p) ==
    /\ r.resolved[p] # 0
    /\ ~is_active(r, p)
    /\ \A c \in Requires[p] : resolve_capability(r, c) # NoPlugin
    /\ resolve_plugin_executable(d, p)
    /\ bind_batch_ok(r, p)

runtime_activate(r, d, p) ==
    [bind_plugin_capabilities(r, p) EXCEPT !.active[p] = r.resolved[p], !.exec[p] = d[p]]

runtime_deactivate(r, p) ==
    [unbind_plugin(r, p) EXCEPT !.active[p] = 0, !.exec[p] = 0]

install_checked_ok(r, p, v) == r.resolved[p] \in {0, v} \/ ~is_active(r, p)

runtime_install(r, p, v) == [r EXCEPT !.resolved[p] = v]


active_implementation_identities(r) ==
    {[plugin |-> p, version |-> r.active[p]] : p \in {q \in Plugins : is_active(r, q)}}

refresh_execution_environment(r) == [r EXCEPT !.env = active_implementation_identities(r)]

add_active_plugin_ok(r, p) == p \notin r.children

add_active_plugin(r, p) == [r EXCEPT !.children = @ \union {p}]

remove_active_plugin(r, p) == [r EXCEPT !.children = @ \ {p}]

register_tools(r, p) == [r EXCEPT !.tools = @ \union {p}]

remove_names(r, p) == [r EXCEPT !.tools = @ \ {p}]

\* Grants name the executable found when they are made.
authorize_activated_plugin(r, d, p) == IF resolve_plugin_executable(d, p) THEN [r EXCEPT !.grants[p] = d[p]] ELSE r

revoke_activated_plugin(r, p) == [r EXCEPT !.grants[p] = 0]

\* Revoke the removed plugin, then authorise every plugin still active again.
refresh_plugin_authorizations(r, d, p) ==
    [revoke_activated_plugin(r, p) EXCEPT !.grants = [q \in Plugins |->
        IF is_active(r, q) /\ d[q] # 0 THEN d[q] ELSE @[q]]]

-----------------------------------------------------------------------------
(* The workflow definitions, their owners, and the roles they embed. *)

FreshWorkflows == [defs |-> [w \in Workflows |-> NoDef], owners |-> [w \in Workflows |-> {}],
                   roles |-> {}]

registered(f) == {w \in Workflows : f.defs[w] # NoDef}

batch(p) == Range(Contributes[p])

\* No path of references leads from a workflow back to itself.
reaches(edges, w) ==
    LET step[n \in 0..Cardinality(Workflows)] ==
            IF n = 0 THEN edges[w] ELSE step[n - 1] \union UNION {edges[v] : v \in step[n - 1]}
    IN  step[Cardinality(Workflows)]

validate_workflow_reference_graph(ws) ==
    \A w \in ws : w \notin reaches([v \in Workflows |-> IF v \in ws THEN Refs[v] ELSE {}], w)

preflight_register_batch(f, p) ==
    /\ Cardinality(batch(p)) = Len(Contributes[p])
    /\ \A w \in batch(p) : /\ Refs[w] \subseteq registered(f) \union batch(p)
                           /\ f.defs[w] \in {NoDef, Variant[p][w]}
    /\ validate_workflow_reference_graph(registered(f) \union batch(p))

\* The roles of a definition are owned by the pair (workflow, owner).
role_owners(p, ws) == {<<w, p>> : w \in ws}

register_owned_batch(f, p, ws) ==
    [defs   |-> [w \in Workflows |-> IF w \in ws /\ f.defs[w] = NoDef THEN Variant[p][w] ELSE f.defs[w]],
     owners |-> [w \in Workflows |-> IF w \in ws THEN f.owners[w] \union {p} ELSE f.owners[w]],
     roles  |-> f.roles \union role_owners(p, ws)]

last_owner(f, p, w) == f.owners[w] = {p}

referenced(f, w) == \E v \in registered(f) \ {w} : w \in Refs[v]

\* Refused while the workflow runs, or while a registered definition refers to it.
unregister_error(f, p, w) ==
    \/ w \in running
    \/ last_owner(f, p, w) /\ referenced(f, w)

\* Mutant: the roles of an unregistered workflow stay behind.
keeps_roles(f, p, w) ==
    IF p \notin f.owners[w] \/ unregister_error(f, p, w)
    THEN f
    ELSE [f EXCEPT !.defs[w] = IF last_owner(f, p, w) THEN NoDef ELSE @, !.owners[w] = @ \ {p}]

unregister_owned(f, p, w) ==
    IF p \notin f.owners[w] \/ unregister_error(f, p, w)
    THEN f
    ELSE [defs   |-> IF last_owner(f, p, w) THEN [f.defs EXCEPT ![w] = NoDef] ELSE f.defs,
          owners |-> [f.owners EXCEPT ![w] = @ \ {p}],
          roles  |-> f.roles \ role_owners(p, {w})]

\* The rollback of an activation unregisters in manifest order and ignores errors.
unregister_all(f, p) == FoldLeft(LAMBDA g, w : unregister_owned(g, p, w), f, Contributes[p])

\* A deactivation stops at the first error: how many workflows it unregistered.
unregistered_prefix(f, p) ==
    LET state[n \in 0..Len(Contributes[p])] ==
            IF n = 0 THEN f ELSE unregister_owned(state[n - 1], p, Contributes[p][n])
        stops(n) == unregister_error(state[n], p, Contributes[p][n + 1])
        bad == {n \in 0..(Len(Contributes[p]) - 1) : stops(n)}
    IN  IF bad = {} THEN [wf |-> state[Len(Contributes[p])], complete |-> TRUE]
        ELSE [wf |-> state[Min(bad)], complete |-> FALSE]

-----------------------------------------------------------------------------
(* The Host's commands.  A command that is refused before its intent, or   *)
(* whose intent cannot be recorded, changes nothing and has no step here.  *)

NoCall == [st |-> "idle", stage |-> 1, plugin |-> NoPlugin, exec |-> 0, id |-> 0, env |-> {}]

Down ==
    /\ rt' = FreshRuntime
    /\ wf' = FreshWorkflows
    /\ call' = NoCall
    /\ torn' = {}

Request == spent.req + 1

Asked == [spent EXCEPT !.req = @ + 1]

Failing == [Asked EXCEPT !.faults = @ + 1]

MayAsk == rt.up /\ spent.req < MaxRequests

MayFail == spent.faults < MaxFaults

\* emit_plugin_error: the failure is recorded too, unless the ledger refuses that as well.
emit_plugin_error(l, told) == IF told THEN failed_record(l, Request) ELSE l

\* The process dies between a command's intent and its outcome.
CutOff(phase, p) ==
    /\ MayFail
    /\ led' = intent(led, phase, p, Request)
    /\ Down
    /\ inflight' = inflight \union {p}
    /\ spent' = Failing
    /\ UNCHANGED <<disk, running, eff, ran, reported>>

install_fails(p, told) ==
    /\ led' = emit_plugin_error(intent(led, "install", p, Request), told)
    /\ UNCHANGED <<disk, rt, wf, running, call, eff, ran, reported, inflight, torn>>

\* A failed outcome removes the new definition and puts the previous one back.
InstallPlugin(p, told) ==
    /\ MayAsk
    /\ resolves(disk, p)
    /\ \/ CutOff("install", p)
       \/ /\ ~install_checked_ok(rt, p, disk[p])
          /\ install_fails(p, told)
          /\ spent' = Asked
       \/ /\ install_checked_ok(rt, p, disk[p])
          /\ MayFail
          /\ install_fails(p, told)
          /\ spent' = Failing
       \/ /\ install_checked_ok(rt, p, disk[p])
          /\ rt' = runtime_install(rt, p, disk[p])
          /\ led' = installed_record(intent(led, "install", p, Request), p, disk[p], Request)
          /\ spent' = Asked
          /\ UNCHANGED <<disk, wf, running, call, eff, ran, reported, inflight, torn>>

has_running_runs == running # {}

hot_contributions(p) == resolve_plugin_executable(disk, p) /\ p \notin Pinned

activation_admitted(p) ==
    /\ ~has_running_runs
    /\ rt.resolved[p] # 0
    /\ hot_contributions(p)
    /\ p \notin rt.tools
    /\ preflight_register_batch(wf, p)

\* Everything the mutation registers before the authorisation and the outcome record.
activation_steps(p) ==
    refresh_execution_environment(
        register_tools(add_active_plugin(runtime_activate(rt, disk, p), p), p))

\* Mutant: the rollback forgets the capabilities given to child agents.
undone_but_children(r, p) ==
    refresh_execution_environment(runtime_deactivate(remove_names(r, p), p))

\* The rollback, in reverse, of what activation_steps did.
activation_undone(r, p) ==
    refresh_execution_environment(
        runtime_deactivate(remove_active_plugin(remove_names(r, p), p), p))

\* An unregistration that fails in the rollback is ignored and leaves its workflow behind.
ActivationRolledBack(p, r, told) ==
    /\ rt' = activation_undone(r, p)
    /\ wf' = unregister_all(register_owned_batch(wf, p, batch(p)), p)
    /\ torn' = IF unregistered_prefix(register_owned_batch(wf, p, batch(p)), p).complete
               THEN torn ELSE torn \union {p}
    /\ led' = emit_plugin_error(intent(led, "activate", p, Request), told)
    /\ UNCHANGED <<disk, running, call, eff, ran, reported, inflight>>

activate_succeeds(p) ==
    /\ activate_ok(rt, disk, p)
    /\ add_active_plugin_ok(rt, p)

ActivatePlugin(p, told) ==
    /\ MayAsk
    /\ activation_admitted(p)
    /\ \/ CutOff("activate", p)
       \/ /\ ~activate_succeeds(p)
          /\ led' = emit_plugin_error(intent(led, "activate", p, Request), told)
          /\ spent' = Asked
          /\ UNCHANGED <<disk, rt, wf, running, call, eff, ran, reported, inflight, torn>>
       \/ /\ activate_succeeds(p)
          /\ MayFail
          /\ \/ ActivationRolledBack(p, activation_steps(p), told)
             \/ ActivationRolledBack(p, refresh_plugin_authorizations(
                    runtime_deactivate(activation_steps(p), p), disk, p), told)
          /\ spent' = Failing
       \/ /\ activate_succeeds(p)
          /\ rt' = authorize_activated_plugin(activation_steps(p), disk, p)
          /\ wf' = register_owned_batch(wf, p, batch(p))
          /\ led' = activated_record(intent(led, "activate", p, Request), p, Request)
          /\ reported' = reported \ {p}
          /\ inflight' = inflight \ {p}
          /\ torn' = torn \ {p}
          /\ spent' = Asked
          /\ UNCHANGED <<disk, running, call, eff, ran>>

deactivation_admitted(p) ==
    /\ ~has_running_runs
    /\ rt.resolved[p] # 0
    /\ hot_contributions(p)
    /\ batch(p) \subseteq registered(wf)
    /\ is_active(rt, p)

deactivation_steps(p) ==
    remove_names(remove_active_plugin(
        refresh_plugin_authorizations(runtime_deactivate(rt, p), disk, p), p), p)

\* After a lost outcome the workflows are registered again one by one, errors ignored.
register_one(f, p, w) ==
    IF Refs[w] \subseteq registered(f) \union {w} /\ f.defs[w] \in {NoDef, Variant[p][w]}
    THEN register_owned_batch(f, p, {w}) ELSE f

reregistered(f, p) == FoldLeft(LAMBDA g, w : register_one(g, p, w), f, Contributes[p])

reactivated(r, p) ==
    refresh_execution_environment(
        authorize_activated_plugin(
            register_tools(add_active_plugin(runtime_activate(r, disk, p), p), p), disk, p))

\* The outcome could not be recorded: activate again, if the runtime lets it.
DeactivationUndone(p, r, f, told) ==
    /\ IF activate_ok(r, disk, p)
       THEN /\ rt' = reactivated(r, p)
            /\ wf' = reregistered(f, p)
            /\ torn' = IF \A w \in batch(p) : p \in reregistered(f, p).owners[w]
                       THEN torn ELSE torn \union {p}
       ELSE /\ rt' = refresh_execution_environment(r)
            /\ wf' = f
            /\ torn' = torn \union {p}
    /\ led' = emit_plugin_error(intent(led, "deactivate", p, Request), told)
    /\ spent' = Failing
    /\ UNCHANGED <<disk, running, call, eff, ran, reported, inflight>>

DeactivatePlugin(p, told) ==
    /\ MayAsk
    /\ deactivation_admitted(p)
    /\ \/ CutOff("deactivate", p)
       \/ /\ ~unregistered_prefix(wf, p).complete
          /\ rt' = deactivation_steps(p)
          /\ wf' = unregistered_prefix(wf, p).wf
          /\ torn' = torn \union {p}
          /\ led' = emit_plugin_error(intent(led, "deactivate", p, Request), told)
          /\ spent' = Asked
          /\ UNCHANGED <<disk, running, call, eff, ran, reported, inflight>>
       \/ /\ unregistered_prefix(wf, p).complete
          /\ MayFail
          /\ DeactivationUndone(p, deactivation_steps(p), unregistered_prefix(wf, p).wf, told)
       \/ /\ unregistered_prefix(wf, p).complete
          /\ rt' = refresh_execution_environment(deactivation_steps(p))
          /\ wf' = unregistered_prefix(wf, p).wf
          /\ led' = deactivated_record(intent(led, "deactivate", p, Request), p, Request)
          /\ spent' = Asked
          /\ UNCHANGED <<disk, running, call, eff, ran, reported, inflight, torn>>

-----------------------------------------------------------------------------
(* Restart: PluginBootstrap::discover, then the rest of the bootstrap. *)

\* Passes over the pending plugins until one of them activates nothing more.
activation_passes(r, ps) ==
    FoldLeft(LAMBDA acc, p : IF activate_ok(acc, disk, p) THEN runtime_activate(acc, disk, p) ELSE acc,
             r, FlattenSeq([i \in 1..Len(ps) |-> ps]))

\* First boot: the host-global plugins are installed and activated without a command.
first_boot_plugins == SelectSeq(Order, LAMBDA p : p \in Global /\ resolves(disk, p))

installed_at_boot(ps) ==
    FoldLeft(LAMBDA l, p : installed_record(intent(l, "install", p, 0), p, disk[p], 0), led, ps)

runtime_at_boot(ps) == FoldLeft(LAMBDA r, p : runtime_install(r, p, disk[p]), FreshRuntime, ps)

\* One more activation record per plugin, or an intent that nothing ever closes.
activated_at_boot(l, r, ps) ==
    FoldLeft(LAMBDA m, p : IF is_active(r, p)
                           THEN activated_record(intent(m, "activate", p, 0), p, 0)
                           ELSE failed_record(intent(m, "activate", p, 0), 0), l, ps)

\* Mutant: open intents are not looked at on restart.
none_unfinished(l) == {}

unfinished(l) == {k.plugin : k \in l.pending}

\* Mutant: the identity of the restored manifest is not compared.
restores_changed(p) == led.install[p] # 0 /\ p \notin unfinished(led) /\ disk[p] # 0

restorable(p) ==
    /\ led.install[p] # 0 /\ p \notin unfinished(led)
    /\ resolves(disk, p) /\ disk[p] = led.install[p]

restored_installs ==
    [FreshRuntime EXCEPT !.resolved = [p \in Plugins |-> IF restorable(p) THEN disk[p] ELSE 0]]

restore_durable_plugins ==
    activation_passes(restored_installs,
        SelectSeq(Order, LAMBDA p : led.active[p] /\ restorable(p)))

\* record_reconciliation: unfinished, changed or missing plugins, and unmet dependencies.
reconciled(r) ==
    unfinished(led)
    \union {p \in Plugins : led.install[p] # 0 /\ ~restorable(p)}
    \union {p \in Plugins : led.active[p] /\ ~is_active(r, p)}

\* The other registries are rebuilt from the active plugins.
finish_bootstrap(r) ==
    LET on == {p \in Plugins : is_active(r, p)}
    IN  refresh_execution_environment(
            [r EXCEPT !.up = TRUE, !.children = on, !.tools = on,
                      !.grants = [p \in Plugins |-> IF p \in on THEN disk[p] ELSE 0]])

\* Their workflows are registered plugin by plugin in id order; an error ends the bootstrap.
register_workflows(r) ==
    FoldLeft(LAMBDA acc, p :
                IF ~is_active(r, p) THEN acc
                ELSE IF acc.ok /\ preflight_register_batch(acc.wf, p)
                THEN [ok |-> TRUE, wf |-> register_owned_batch(acc.wf, p, batch(p))]
                ELSE [acc EXCEPT !.ok = FALSE],
             [ok |-> TRUE, wf |-> FreshWorkflows], Order)

Started(r) ==
    /\ IF register_workflows(r).ok
       THEN rt' = finish_bootstrap(r) /\ wf' = register_workflows(r).wf
       ELSE rt' = FreshRuntime /\ wf' = FreshWorkflows
    /\ call' = NoCall
    /\ torn' = {}
    /\ UNCHANGED <<disk, running, eff, ran, inflight>>

FirstBoot ==
    /\ ~rt.up
    /\ ~is_durable_plugin_state(led)
    /\ LET ps == first_boot_plugins
           r == activation_passes(runtime_at_boot(ps), ps)
       IN  /\ Started(r)
           /\ led' = activated_at_boot(installed_at_boot(ps), r, ps)
    /\ reported' = {}
    /\ UNCHANGED spent

\* The bootstrap dies, or its ledger fails, inside the i-th installation.
FirstBootCutOff(i) ==
    /\ ~rt.up
    /\ ~is_durable_plugin_state(led)
    /\ MayFail
    /\ i <= Len(first_boot_plugins)
    /\ led' = intent(installed_at_boot(SubSeq(first_boot_plugins, 1, i - 1)), "install",
                     first_boot_plugins[i], 0)
    /\ inflight' = inflight \union {first_boot_plugins[i]}
    /\ spent' = [spent EXCEPT !.faults = @ + 1]
    /\ UNCHANGED <<disk, rt, wf, running, call, eff, ran, reported, torn>>

Boot ==
    /\ ~rt.up
    /\ is_durable_plugin_state(led)
    /\ Started(restore_durable_plugins)
    /\ reported' = reconciled(restore_durable_plugins)
    /\ UNCHANGED <<led, spent>>

Crash ==
    /\ rt.up
    /\ MayFail
    /\ Down
    /\ spent' = [spent EXCEPT !.faults = @ + 1]
    /\ UNCHANGED <<disk, led, running, eff, ran, reported, inflight>>

\* Someone else changes, removes or restores the plugin's directory.
Rewrite(p) ==
    /\ MayFail
    /\ \E v \in 0..MaxVersion : v # disk[p] /\ disk' = [disk EXCEPT ![p] = v]
    /\ spent' = [spent EXCEPT !.faults = @ + 1]
    /\ UNCHANGED <<led, rt, wf, running, call, eff, ran, reported, inflight, torn>>

-----------------------------------------------------------------------------
(* A workflow node and the contributions it invokes. *)

FreshEffects == [i \in DOMAIN Stages |-> "none"]

StartWorkflow(w) ==
    /\ rt.up
    /\ ~has_running_runs
    /\ w \in registered(wf)
    /\ running' = {w}
    /\ eff' = FreshEffects
    /\ ran' = [i \in DOMAIN Stages |-> 0]
    /\ UNCHANGED <<disk, led, rt, wf, call, reported, inflight, torn, spent>>

EndWorkflow ==
    /\ running' = {}
    /\ call' = NoCall
    /\ UNCHANGED <<disk, led, rt, wf, eff, ran, reported, inflight, torn, spent>>

resolve_command_contribution == rt.bound[Stages[call.stage]]

\* recover_effect: run it, reuse its outcome, or ask for reconciliation.
recover_effect == eff[call.stage]

Invoke ==
    /\ rt.up /\ has_running_runs /\ call.st = "idle"
    /\ call.stage \in DOMAIN Stages
    /\ resolve_command_contribution # NoPlugin
    /\ \/ /\ recover_effect = "none"
          /\ call' = [call EXCEPT !.st = "approved", !.plugin = resolve_command_contribution,
                                  !.exec = rt.exec[resolve_command_contribution],
                                  !.id = rt.active[resolve_command_contribution], !.env = rt.env]
       \/ /\ recover_effect = "done"
          /\ call' = [NoCall EXCEPT !.stage = call.stage + 1]
    /\ UNCHANGED <<disk, led, rt, wf, running, eff, ran, reported, inflight, torn, spent>>

validate_executable_identity == disk[call.plugin] = call.exec

revalidate_external ==
    /\ rt.grants[call.plugin] = call.exec
    /\ [plugin |-> call.plugin, version |-> call.id] \in rt.env
    /\ rt.env = call.env

\* The intent is recorded once every check has passed; the pinned executable runs.
Launch ==
    /\ rt.up /\ call.st = "approved"
    /\ validate_executable_identity
    /\ revalidate_external
    /\ eff' = [eff EXCEPT ![call.stage] = "intended"]
    /\ ran' = [ran EXCEPT ![call.stage] = @ + 1]
    /\ call' = [call EXCEPT !.st = "started"]
    /\ UNCHANGED <<disk, led, rt, wf, running, reported, inflight, torn, spent>>

Complete ==
    /\ rt.up /\ call.st = "started"
    /\ eff' = [eff EXCEPT ![call.stage] = "done"]
    /\ call' = [NoCall EXCEPT !.stage = call.stage + 1]
    /\ UNCHANGED <<disk, led, rt, wf, running, ran, reported, inflight, torn, spent>>

\* The contribution is not active, its outcome is unknown, or a check before the launch fails.
refused ==
    CASE call.st = "idle" -> resolve_command_contribution = NoPlugin \/ recover_effect = "intended"
      [] call.st = "approved" -> ~(validate_executable_identity /\ revalidate_external)
      [] OTHER -> FALSE

\* The node is over: all stages done, or one of them refused.
FinishWorkflow ==
    /\ rt.up /\ has_running_runs
    /\ IF call.stage \in DOMAIN Stages THEN refused ELSE TRUE
    /\ EndWorkflow

-----------------------------------------------------------------------------

Init ==
    /\ disk = [p \in Plugins |-> 1]
    /\ led = FreshLedger
    /\ rt = FreshRuntime
    /\ wf = FreshWorkflows
    /\ running = {}
    /\ call = NoCall
    /\ eff = FreshEffects
    /\ ran = [i \in DOMAIN Stages |-> 0]
    /\ reported = {} /\ inflight = {} /\ torn = {}
    /\ spent = [req |-> 0, faults |-> 0]

Next ==
    \/ \E p \in Plugins, told \in BOOLEAN :
            InstallPlugin(p, told) \/ ActivatePlugin(p, told) \/ DeactivatePlugin(p, told)
    \/ FirstBoot
    \/ \E i \in 1..Len(Order) : FirstBootCutOff(i)
    \/ Boot
    \/ Crash
    \/ \E p \in Plugins : Rewrite(p)
    \/ \E w \in Workflows : StartWorkflow(w)
    \/ Invoke
    \/ Launch
    \/ Complete
    \/ FinishWorkflow

Spec == Init /\ [][Next]_vars

-----------------------------------------------------------------------------
(* Properties. *)

\* The state has the shape the code keeps.
TypeOK ==
    /\ disk \in [Plugins -> 0..MaxVersion]
    /\ led.install \in [Plugins -> 0..MaxVersion] /\ led.active \in [Plugins -> BOOLEAN]
    /\ led.pending \subseteq [phase : Phases, plugin : Plugins, req : 0..MaxRequests]
    /\ rt.active \in [Plugins -> 0..MaxVersion] /\ rt.bound \in [Caps -> Plugins \union {NoPlugin}]
    /\ rt.children \subseteq Plugins /\ rt.tools \subseteq Plugins
    /\ wf.owners \in [Workflows -> SUBSET Plugins]
    /\ running \subseteq Workflows
    /\ eff \in [DOMAIN Stages -> {"none", "intended", "done"}]
    /\ reported \subseteq Plugins /\ inflight \subseteq Plugins /\ torn \subseteq Plugins

\* All registries of the process show plugin p as active, or none of them does.
Agreed(p) ==
    IF is_active(rt, p)
    THEN /\ p \in rt.children /\ p \in rt.tools /\ rt.grants[p] # 0
         /\ [plugin |-> p, version |-> rt.active[p]] \in rt.env
         /\ \A c \in Provides[p] : rt.bound[c] = p
         /\ \A w \in batch(p) : p \in wf.owners[w]
    ELSE /\ p \notin rt.children /\ p \notin rt.tools /\ rt.grants[p] = 0
         /\ \A e \in rt.env : e.plugin # p
         /\ \A c \in Caps : rt.bound[c] # p
         /\ \A w \in Workflows : p \notin wf.owners[w]

\* Between two commands every registry - runtime, capability bindings, child capabilities,
\* tools, permissions, environment, workflow owners - agrees on which plugins are active, after
\* a success, a rollback or a restart alike (plugin.rs:215-286, 377-437); the exception is a
\* command whose unregistration or re-registration of a workflow was refused (`torn`).
RegistriesAgree == \A p \in Plugins \ torn : Agreed(p)

\* A workflow definition is registered exactly while it has an owner, and exactly its owners
\* hold its roles (workflow_controller.rs:406-556).
OwnersExact ==
    /\ \A w \in Workflows : wf.defs[w] = NoDef <=> wf.owners[w] = {}
    /\ wf.roles = UNION {role_owners(p, {w \in Workflows : p \in wf.owners[w]}) : p \in Plugins}

\* An active plugin has a durable activation and runs the durably installed implementation; a
\* durable activation is live unless the restart reported the plugin for reconciliation
\* (plugin_bootstrap.rs:300-449).
DurableAndLive ==
    rt.up => \A p \in Plugins \ torn :
                /\ is_active(rt, p) => led.active[p] /\ rt.active[p] = led.install[p]
                /\ led.active[p] /\ p \notin reported => is_active(rt, p)

\* A plugin whose command a crash cut off is not active until a Host activates it again
\* (plugin_bootstrap.rs:384-396).
CutOffNotActivated == \A p \in inflight : ~is_active(rt, p)

\* A contribution command runs at most once per call, whatever crashes, and only while its
\* plugin stays active with the executable that was inspected and granted
\* (plugin_tool.rs:218-373; plugin.rs:131-139, 300-308).
ContributionsOnce ==
    /\ \A i \in DOMAIN Stages : ran[i] <= 1
    /\ call.st = "started" =>
         /\ rt.active[call.plugin] = call.id
         /\ rt.exec[call.plugin] = call.exec /\ rt.grants[call.plugin] = call.exec

\* What the plugin runtime promises between commands and across restarts.
PluginsKept ==
    RegistriesAgree /\ OwnersExact /\ DurableAndLive /\ CutOffNotActivated /\ ContributionsOnce

=============================================================================
