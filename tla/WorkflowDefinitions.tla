------------------------ MODULE WorkflowDefinitions ------------------------
\* Validation of a workflow definition, the children a validated node starts, and
\* the checkpoints of a restored run that are still usable.  The loops of the code are
\* steps here, so that the order a hash map or a node list happens to have is a choice;
\* each result is compared with a definition that has no loop
\* (workflow_validation.rs, workflow_controller/validation.rs).
EXTENDS Naturals, Sequences, FiniteSets

LOCAL INSTANCE SequencesExt
LOCAL INSTANCE FiniteSetsExt
LOCAL INSTANCE Relation

CONSTANTS
    Definitions,    \* workflow definitions to be registered
    RoleDefs,       \* the roles offered for registration
    NoRole,
    Blank,          \* an empty or blank name
    Fields,         \* fields of a parameter object or of an output
    Values,         \* values of a field
    NoValue,
    Limits          \* the largest value of each numeric setting

VARIABLES
    def,        \* the definition being validated
    phase,      \* where validation or restoration stands
    indegree, ready, visited,   \* the topological sort
    snap,       \* the restored snapshot: status, output, recorded inputs and output reference
    start,      \* the snapshot before restoration
    at, changed \* the position of the restoration pass

vars == <<def, phase, indegree, ready, visited, snap, start, at, changed>>

\* A JSON object, by the value of each field; an absent one has no field.
Objects == [Fields -> Values \cup {NoValue}]
Absent == [x \in Fields |-> NoValue]

NodesOf(d) == Range(d.nodes)
DepsOf(d, n) == Range(d.deps[n])

-----------------------------------------------------------------------------
\* Conditions: always, all, any, comparisons of a parameter or of a node's output.

required_non_empty_string(s) == s # Blank

validate_comparison_rule(c) == required_non_empty_string(c.field)

\* Mutant: the source may be any node.
any_node_source(d, n, c) == required_non_empty_string(c.node) /\ c.node \in NodesOf(d)

\* The source of an output comparison is a direct dependency.
node_output_source(d, n, c) == required_non_empty_string(c.node) /\ c.node \in DepsOf(d, n)
validate_leaf(d, n, c) ==
    \/ c.op = "always"
    \/ c.op \in {"parameter_equals", "parameter_not_equals"} /\ validate_comparison_rule(c)
    \/ c.op = "node_output_equals" /\ validate_comparison_rule(c) /\ node_output_source(d, n, c)

RECURSIVE validate_condition(_, _, _)
validate_condition(d, n, c) ==
    IF c.op \in {"all", "any"} THEN \A k \in DOMAIN c.kids : validate_condition(d, n, c.kids[k])
    ELSE validate_leaf(d, n, c)

\* The value found at a field of an object, or none.
json_path(object, field) == IF field \in Fields THEN object[field] ELSE NoValue

\* The three comparisons: a missing parameter differs from every value, a missing
\* output equals none.
RECURSIVE condition_matches(_, _, _)
condition_matches(c, out, parameters) ==
    CASE c.op = "always" -> c.value = TRUE
      [] c.op = "all" -> \A k \in DOMAIN c.kids : condition_matches(c.kids[k], out, parameters)
      [] c.op = "any" -> \E k \in DOMAIN c.kids : condition_matches(c.kids[k], out, parameters)
      [] c.op = "parameter_equals" -> json_path(parameters, c.field) = c.value
      [] c.op = "parameter_not_equals" -> json_path(parameters, c.field) # c.value
      [] OTHER -> json_path(out[c.node], c.field) = c.value

-----------------------------------------------------------------------------
\* Configured collaboration.

\* A role has a name, and policies the runtime knows.
validate_role(r) ==
    /\ r.id # Blank /\ r.description # Blank
    /\ r.context_policy \in {NoValue, "isolated", "isolated_verification"}
    /\ r.recursion_policy \in {NoValue, "none", "bounded"}

Roles == {r.id : r \in {x \in RoleDefs : validate_role(x)}}

validate_limit(value, max) == value \in 1..max

max_tasks_limit(c) == IF c.strategy = "Supervisor" THEN Limits.supervisor_tasks ELSE Limits.multi_agent_tasks

\* Each worker role once, with limits that fit each other and the node's task limit.
validate_worker_role(c, k) ==
    /\ c.workers[k].role # Blank
    /\ \A j \in 1..(k - 1) : c.workers[j].role # c.workers[k].role
    /\ c.workers[k].max_concurrent # 0 /\ c.workers[k].max_total # 0
    /\ c.workers[k].max_concurrent <= c.workers[k].max_total
    /\ c.workers[k].max_total <= c.max_tasks
total_workers(c) == FoldLeft(LAMBDA n, w : n + w.max_total, 0, c.workers)

\* Mutant: the workers are not added up.
workers_fit_alone(c) == TRUE

\* All the workers of a strategy that starts them all fit the task limit together.
workers_fit(c) == c.strategy \in {"Team", "Fanout", "IndependentReviewer"} => total_workers(c) <= c.max_tasks
named_role(role) == role \notin {NoRole, Blank}

\* A primary and a different reviewer, which are exactly the worker roles; the node's
\* own role, if it has one, is the reviewer.
validate_independent_reviewer(c, role) ==
    /\ named_role(c.primary) /\ named_role(c.reviewer) /\ c.primary # c.reviewer
    /\ {c.workers[k].role : k \in DOMAIN c.workers} = {c.primary, c.reviewer}
    /\ role \in {NoRole, c.reviewer}

\* What each strategy asks of its roles.
strategy_roles(c, role) ==
    CASE c.strategy = "Single" -> c.workers = <<>>
      [] c.strategy = "Supervisor" -> Len(c.workers) >= 1 /\ named_role(role)
      [] c.strategy \in {"Team", "Fanout"} -> Len(c.workers) >= 2 /\ named_role(role)
      [] OTHER -> validate_independent_reviewer(c, role)

validate_runtime_config(c, role) ==
    /\ validate_limit(c.max_tasks, max_tasks_limit(c))
    /\ \A f \in {"max_concurrent_workers", "max_coordinator_rounds", "max_pending_messages", "max_message_bytes"} :
        validate_limit(c[f], Limits[f])
    /\ Len(c.workers) <= Limits.worker_roles
    /\ \A k \in DOMAIN c.workers : validate_worker_role(c, k)
    /\ c.strategy # "IndependentReviewer" => c.primary = NoRole /\ c.reviewer = NoRole
    /\ workers_fit(c)
    /\ strategy_roles(c, role)

\* Version 1 has no configured collaboration; version 2 configures every strategy but
\* Single.
validate_collaboration(schema, c, role) ==
    IF schema = 1 THEN c.kind # "Configured"
    ELSE CASE c.kind \in {"Auto", "Inherit"} -> TRUE
           [] c.kind = "Fixed" -> c.strategy = "Single"
           [] OTHER -> validate_runtime_config(c, role)

\* Every role a node names is registered.
role_references_known(d, n) ==
    LET c == d.collab[n] IN
    /\ d.role[n] \in Roles \cup {NoRole}
    /\ c.kind = "Configured" =>
        /\ \A k \in DOMAIN c.workers : c.workers[k].role \in Roles
        /\ c.primary \in Roles \cup {NoRole} /\ c.reviewer \in Roles \cup {NoRole}

validate_definition_role_references(d) == \A n \in NodesOf(d) : role_references_known(d, n)

\* The roles whose input schema is checked before a configured node starts.
validate_configured_role_inputs(d, n) ==
    ({d.role[n]} \ {NoRole})
        \cup (IF d.collab[n].strategy = "Supervisor" THEN {}
              ELSE {d.collab[n].workers[k].role : k \in DOMAIN d.collab[n].workers})

\* A child: its role and the identity of its task, which is the node's own task for the
\* child that decides and has the suffix appended for the others; it manages the team
\* in a Team, and in a Supervisor only if it decides.
configured_role_spec(n, role, strategy, suffix, owns) ==
    [role |-> role, task |-> <<n>> \o (IF owns THEN <<>> ELSE suffix),
     manages |-> strategy = "Team" \/ (strategy = "Supervisor" /\ owns)]

\* The workers a configured node starts, in order.
configured_worker_specs(n, c) ==
    FoldLeft(LAMBDA specs, w : specs \o [i \in 1..w.max_total |->
                configured_role_spec(n, w.role, c.strategy, <<"worker", w.role, i - 1>>, FALSE)], <<>>, c.workers)

-----------------------------------------------------------------------------
\* The checks of a definition before its topological sort.


\* A binding names a destination and copies from a direct dependency.
binding_allowed(d, n) == \A k \in DOMAIN d.bindings[n] : d.bindings[n][k] \in DepsOf(d, n)
\* A dependency is another node of the definition.
dependencies_known(d, n) == \A x \in DepsOf(d, n) : x \in NodesOf(d) /\ x # n

validate_node(d, n) ==
    /\ n # Blank
    /\ validate_collaboration(d.schema, d.collab[n], d.role[n])
    /\ dependencies_known(d, n)
    /\ validate_condition(d, n, d.when[n])
    /\ binding_allowed(d, n)

duplicate_ids(d) == Cardinality(NodesOf(d)) # Len(d.nodes)

statically_valid(d) ==
    /\ d.schema \in {1, 2} /\ ~duplicate_ids(d)
    /\ \A n \in NodesOf(d) : validate_node(d, n)
    /\ d.outputs \subseteq NodesOf(d)
    /\ validate_definition_role_references(d)

-----------------------------------------------------------------------------
\* The topological sort, one node at a time from the end of the ready list.


\* The degree of a node counts a repeated dependency as often as it is listed.
initial_indegree(d) == [n \in NodesOf(d) |-> Len(d.deps[n])]
\* The children of a node, each as often as it lists the node, in definition order.
children(d, n) ==
    FoldLeft(LAMBDA acc, m : acc \o SelectSeq([k \in DOMAIN d.deps[m] |-> IF d.deps[m][k] = n THEN m ELSE Blank],
                                              LAMBDA x : x # Blank), <<>>, d.nodes)

\* One child loses a degree; at zero it becomes ready.
visit_child(acc, child) ==
    LET degree == IF acc.deg[child] = 0 THEN 0 ELSE acc.deg[child] - 1 IN
    [deg |-> [acc.deg EXCEPT ![child] = degree],
     ready |-> IF degree = 0 THEN Append(acc.ready, child) ELSE acc.ready]

popped == FoldLeft(visit_child, [deg |-> indegree, ready |-> Front(ready)], children(def, Last(ready)))

\* A node refers to itself through its dependencies: the reference for the sort.
depends(d) == {<<m, n>> \in NodesOf(d) \X NodesOf(d) : m \in DepsOf(d, n)}
acyclic(d) ==
    LET closure == TransitiveClosure([pair \in NodesOf(d) \X NodesOf(d) |-> pair \in depends(d)], NodesOf(d))
    IN  \A n \in NodesOf(d) : ~closure[n, n]

-----------------------------------------------------------------------------
\* Restored checkpoints.

settled(s, d, n) == \A x \in DepsOf(d, n) : s[x].status \in {"Completed", "Skipped"}

\* The dependencies that have an output; a digest of their outputs was recorded when
\* the node started.
dependency_outputs(s, d, n) == {x \in DepsOf(d, n) : s[x].out}

\* The inputs a binding copies are there.
build_bound_inputs(s, d, n) == Range(d.bindings[n]) \subseteq dependency_outputs(s, d, n)

\* Mutant: a dependency that is not settled gives what it has.
inputs_of_what_is_there(s, d, n) == dependency_outputs(s, d, n)

\* The inputs the node would start with now; none while a dependency is unsettled.
expected_inputs(s, d, n) == IF settled(s, d, n) THEN dependency_outputs(s, d, n) ELSE {Blank}
\* A completed checkpoint is valid if its recorded inputs are the present ones and its
\* output was stored; a skipped one only needs its dependencies.
checkpoint_valid(s, d, n) ==
    IF s[n].status = "Skipped" THEN settled(s, d, n)
    ELSE s[n].inputs = expected_inputs(s, d, n) /\ s[n].stored

reset_restored_node(s, n) == [s EXCEPT ![n].status = "Pending", ![n].out = FALSE, ![n].stored = FALSE]

\* A completed node whose bound input is missing fails the whole restoration.
fails_restoration(s, d, n) ==
    s[n].status = "Completed" /\ settled(s, d, n) /\ ~build_bound_inputs(s, d, n)

\* Mutant: the pass is made once.
single_pass == FALSE

\* The pass repeats until it changes nothing.
repeat_pass == changed
-----------------------------------------------------------------------------
\* Steps.

Init ==
    /\ def \in Definitions
    /\ phase = "given"
    /\ indegree = <<>> /\ ready = <<>> /\ visited = 0
    /\ snap = <<>> /\ start = <<>>
    /\ at = 1 /\ changed = FALSE

\* The static checks; the ready list starts in the order of a hash map.
Check ==
    /\ phase = "given"
    /\ IF statically_valid(def)
       THEN /\ phase' = "sorting"
            /\ indegree' = initial_indegree(def)
            /\ ready' \in SetToSeqs({n \in NodesOf(def) : initial_indegree(def)[n] = 0})
       ELSE phase' = "rejected" /\ UNCHANGED <<indegree, ready>>
    /\ UNCHANGED <<def, visited, snap, start, at, changed>>

validate_definition ==
    /\ phase = "sorting"
    /\ IF ready = <<>>
       THEN /\ phase' = IF visited = Len(def.nodes) THEN "accepted" ELSE "rejected"
            /\ UNCHANGED <<indegree, ready, visited>>
       ELSE /\ indegree' = popped.deg /\ ready' = popped.ready /\ visited' = visited + 1
            /\ UNCHANGED phase
    /\ UNCHANGED <<def, snap, start, at, changed>>

\* A run of an accepted definition is restored.  A node was left pending, skipped or
\* completed; a completed one has recorded the inputs its dependencies hold now, or
\* others ("stale"), or has lost its output ("lost").  It was given the inputs it binds.
left(kind, d) ==
    [n \in NodesOf(d) |->
        [status |-> IF kind[n] \in {"stale", "lost"} THEN "Completed" ELSE kind[n],
         out |-> kind[n] \notin {"Pending", "Skipped"},
         inputs |-> IF kind[n] = "stale" THEN {n} ELSE {x \in DepsOf(d, n) : kind[x] \notin {"Pending", "Skipped"}},
         stored |-> kind[n] \in {"Completed", "stale"}]]

Restart ==
    /\ phase = "accepted"
    /\ \E kind \in [NodesOf(def) -> {"Pending", "Skipped", "Completed", "stale", "lost"}] :
        /\ \A n \in NodesOf(def) : left(kind, def)[n].status = "Completed" => build_bound_inputs(left(kind, def), def, n)
        /\ snap' = left(kind, def) /\ start' = left(kind, def)
    /\ phase' = "restoring" /\ at' = 1 /\ changed' = FALSE
    /\ UNCHANGED <<def, indegree, ready, visited>>

\* One node of the pass; after the last one the pass repeats or ends.
validate_restored_checkpoints ==
    /\ phase = "restoring"
    /\ IF at \notin DOMAIN def.nodes
       THEN /\ phase' = IF repeat_pass THEN "restoring" ELSE "restored"
            /\ at' = 1 /\ changed' = FALSE
            /\ UNCHANGED snap
       ELSE LET n == def.nodes[at]
                resets == snap[n].status \in {"Completed", "Skipped"} /\ ~checkpoint_valid(snap, def, n) IN
            IF fails_restoration(snap, def, n)
            THEN phase' = "failed" /\ UNCHANGED <<snap, at, changed>>
            ELSE /\ snap' = IF resets THEN reset_restored_node(snap, n) ELSE snap
                 /\ changed' = (changed \/ resets)
                 /\ at' = at + 1
                 /\ UNCHANGED phase
    /\ UNCHANGED <<def, indegree, ready, visited, start>>

Next == Check \/ validate_definition \/ Restart \/ validate_restored_checkpoints

Spec == Init /\ [][Next]_vars

-----------------------------------------------------------------------------
\* Properties.

\* Every variable holds a value of its kind (workflow_validation.rs).
TypeOK ==
    /\ phase \in {"given", "sorting", "rejected", "accepted", "restoring", "restored", "failed"}
    /\ visited \in 0..Len(def.nodes) /\ Range(ready) \subseteq NodesOf(def)
    /\ at \in 1..(Len(def.nodes) + 1) /\ changed \in BOOLEAN
    /\ \A n \in DOMAIN snap : snap[n].status \in {"Pending", "Completed", "Skipped"}

\* The sort accepts exactly the definitions without a dependency cycle, whatever order
\* the hash map gives it and however often a dependency is listed
\* (workflow_validation.rs:91-119).
SortExact ==
    /\ phase = "accepted" => statically_valid(def) /\ acyclic(def)
    /\ phase = "rejected" /\ statically_valid(def) => ~acyclic(def)

\* A condition of an accepted node reads only outputs that are final when the node
\* becomes ready: those of its direct dependencies (workflow_validation.rs:414-422).
ConditionsReadDependencies ==
    phase = "accepted" =>
        \A n \in NodesOf(def) : \A one, two \in [NodesOf(def) -> Objects] :
            (\A x \in DepsOf(def, n) : one[x] = two[x]) =>
                \A p \in Objects :
                    condition_matches(def.when[n], one, p) = condition_matches(def.when[n], two, p)

\* An accepted configured node starts workers that are all different, all of known
\* roles that were validated against the input, and no more than it may have tasks
\* (workflow_executor_configured.rs:224-264).
WorkersAdmissible ==
    phase = "accepted" =>
        \A n \in {m \in NodesOf(def) : def.collab[m].kind = "Configured"} :
            LET c == def.collab[n]
                specs == configured_worker_specs(n, c) IN
            /\ Cardinality({specs[k].task : k \in DOMAIN specs} \cup {<<n>>}) = Len(specs) + 1
            /\ \A k \in DOMAIN specs : specs[k].role \in Roles
            /\ c.strategy \in {"Team", "Fanout", "IndependentReviewer"} =>
                /\ Len(specs) <= c.max_tasks
                /\ \A k \in DOMAIN specs : specs[k].role \in validate_configured_role_inputs(def, n)

\* The checkpoints kept after a restart are the largest set that was valid and whose
\* dependencies are all kept, whatever the order of the nodes in the definition
\* (workflow_controller/validation.rs:84-145).  The restoration itself never fails for an
\* input that a node was given before.
Consistent(kept) ==
    \A n \in kept :
        /\ start[n].status \in {"Completed", "Skipped"}
        /\ DepsOf(def, n) \subseteq kept
        /\ start[n].status = "Completed" => start[n].inputs = dependency_outputs(start, def, n) /\ start[n].stored

LargestKept ==
    phase = "restored" =>
        {n \in NodesOf(def) : snap[n].status \in {"Completed", "Skipped"}}
            = UNION {kept \in SUBSET NodesOf(def) : Consistent(kept)}

\* A definition that is accepted can be run and restored as its author meant it.
DefinitionsSound ==
    /\ SortExact
    /\ ConditionsReadDependencies
    /\ WorkersAdmissible
    /\ phase # "failed"
    /\ LargestKept
=============================================================================
