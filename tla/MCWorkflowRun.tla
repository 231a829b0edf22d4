---------------------------- MODULE MCWorkflowRun ----------------------------
(* A workflow from its definition to the children its nodes run, on small     *)
(* instances; the constant variable part says which a behaviour is about:     *)
(*                                                                            *)
(*   chain        b waits for a, which runs as an Agent's Task and may be     *)
(*                retried                                                     *)
(*   fork         b waits for a and its condition does not hold; c waits for  *)
(*                b and its input cannot be bound                             *)
(*   hosts        one node that may be retried, two Hosts that share the      *)
(*                ledger                                                      *)
(*   node         the children of one node, by every strategy                 *)
(*   supervisor   a configured Supervisor with two Tasks and a crash          *)
(*   definitions  definitions of up to three nodes, validated and restored    *)
EXTENDS WorkflowRun, TLC

CONSTANTS h1, h2, t1, t2, none

\* Hosts, and the workers of a node, are interchangeable.
Symmetry == Permutations({h1, h2})

ChainDepends == ("a" :> {}) @@ ("b" :> {"a"})
ChainAttempts == ("a" :> 2) @@ ("b" :> 1)

\* Dependencies of the Tasks a Supervisor proposes: none, and a chain.
TaskGraphs == {(t1 :> {}) @@ (t2 :> {}), (t1 :> {}) @@ (t2 :> {t1})}

-----------------------------------------------------------------------------
\* Definitions: every graph of three nodes in which a node lists up to two
\* dependencies, then graphs that are malformed, conditions, bindings and the
\* settings of collaborating Agents.
DefNodes == {"a", "b", "c"}
Condition(op, node, field, kids) ==
  [op |-> op, value |-> "v", field |-> field, node |-> node, kids |-> kids]
NoTeam == [kind |-> "Auto", strategy |-> "Single"]
Graph(nodes, deps) ==
  [schema |-> 2, nodes |-> nodes, deps |-> deps,
   when |-> [n \in DefNodes |-> [Condition("always", "", "", <<>>) EXCEPT !.value = TRUE]],
   bindings |-> [n \in DefNodes |-> <<>>], collab |-> [n \in DefNodes |-> NoTeam],
   role |-> [n \in DefNodes |-> none], outputs |-> {}]
DepLists(n) ==
  LET others == DefNodes \ {n} IN
  {<<>>} \cup {<<x>> : x \in others} \cup {<<x, y>> : x \in others, y \in others}
GraphDefs ==
  {Graph(<<"c", "a", "b">>, ("a" :> x) @@ ("b" :> y) @@ ("c" :> z)) :
     x \in DepLists("a"), y \in DepLists("b"), z \in DepLists("c")}
ChainDef == Graph(<<"c", "b", "a">>, ("a" :> <<>>) @@ ("b" :> <<"a">>) @@ ("c" :> <<"b">>))
OneNode == Graph(<<"a">>, "a" :> <<>>)
OddDefs ==
  {Graph(<<"a", "a">>, "a" :> <<>>), Graph(<<"a">>, "a" :> <<"a">>), Graph(<<"a">>, "a" :> <<"b">>),
   [ChainDef EXCEPT !.outputs = {""}], [ChainDef EXCEPT !.schema = 3]}
Leaves ==
  {Condition("node_output_equals", n, "f", <<>>) : n \in {"a", "b", ""}}
    \cup {Condition("parameter_not_equals", "", f, <<>>) : f \in {"f", ""}}
    \cup {Condition("parameter_equals", "", "g", <<>>), Condition("never", "a", "f", <<>>)}
ConditionDefs ==
  {[ChainDef EXCEPT !.when["c"] = x] :
     x \in Leaves \cup {Condition(op, "", "", <<y, z>>) : op \in {"all", "any"}, y, z \in Leaves}}
BindingDefs == {[ChainDef EXCEPT !.bindings["c"] = x] : x \in {<<"b">>, <<"a">>, <<"b", "a">>}}
Worker(role, concurrent, total) ==
  [role |-> role, max_concurrent |-> concurrent, max_total |-> total]
WorkerLists ==
  {<<>>} \cup {<<Worker(r, 1, t)>> : r \in {"r", "t"}, t \in {0, 2}}
    \cup {<<Worker(r, k, 1), Worker(s, 1, t)>> : r, s \in {"r", "s"}, k \in {1, 2}, t \in {1, 3}}
Teams ==
  [kind : {"Configured"}, strategy : {"Single", "Team", "Supervisor", "Fanout", "IndependentReviewer"},
   workers : WorkerLists, max_tasks : {0, 2, 3}, max_concurrent_workers : {2},
   max_coordinator_rounds : {1}, max_pending_messages : {1}, max_message_bytes : {1},
   primary : {"r", none}, reviewer : {"s", none}]
TeamDefs ==
  {[OneNode EXCEPT !.collab["a"] = t, !.role["a"] = r, !.schema = s] :
     t \in Teams \cup [kind : {"Fixed"}, strategy : {"Single", "Team"}], r \in {none, "s"}, s \in {1, 2}}
MCDefinitions == GraphDefs \cup OddDefs \cup ConditionDefs \cup BindingDefs \cup TeamDefs
MCRoles ==
  {[id |-> x[1], description |-> "d", context_policy |-> "isolated", recursion_policy |-> x[2]] :
     x \in {<<"r", "none">>, <<"s", "bounded">>, <<"t", "unlimited">>}}
MCLimits ==
  [supervisor_tasks |-> 2, multi_agent_tasks |-> 3, max_concurrent_workers |-> 2,
   max_coordinator_rounds |-> 2, max_pending_messages |-> 2, max_message_bytes |-> 2,
   worker_roles |-> 2]

-----------------------------------------------------------------------------
\* x1 to x21 are the state of the component a behaviour is about, in the order
\* its INSTANCE gives; those it has no use for are 0.
VARIABLES part, x1, x2, x3, x4, x5, x6, x7, x8, x9, x10, x11, x12, x13, x14, x15,
          x16, x17, x18, x19, x20, x21

pool == <<x1, x2, x3, x4, x5, x6, x7, x8, x9, x10, x11, x12, x13, x14, x15,
          x16, x17, x18, x19, x20, x21>>
above5 == <<x6, x7, x8, x9, x10, x11, x12, x13, x14, x15, x16, x17, x18, x19,
            x20, x21>>
above9 == <<x10, x11, x12, x13, x14, x15, x16, x17, x18, x19, x20, x21>>
above14 == <<x15, x16, x17, x18, x19, x20, x21>>
idle14 == x15 = 0 /\ x16 = 0 /\ x17 = 0 /\ x18 = 0 /\ x19 = 0 /\ x20 = 0
          /\ x21 = 0
idle9 == x10 = 0 /\ x11 = 0 /\ x12 = 0 /\ x13 = 0 /\ x14 = 0 /\ idle14
idle5 == x6 = 0 /\ x7 = 0 /\ x8 = 0 /\ x9 = 0 /\ idle9
idle == x1 = 0 /\ x2 = 0 /\ x3 = 0 /\ x4 = 0 /\ x5 = 0 /\ idle5

Fork == INSTANCE WorkflowRun WITH
  Hosts <- {"h"}, Nodes <- {"a", "b", "c"},
  depends_on <- ("a" :> {}) @@ ("b" :> {"a"}) @@ ("c" :> {"b"}),
  FalseWhen <- {"b"}, Unbindable <- {"c"}, AgentNodes <- {},
  max_attempts <- ("a" :> 1) @@ ("b" :> 1) @@ ("c" :> 1), MaxRecords <- 11,
  MaxFaults <- 1, ledger <- x1, projection <- x2, tasks <- x3, executor <- x4,
  faults <- x5
Shared == INSTANCE WorkflowRun WITH
  Hosts <- {h1, h2}, Nodes <- {"a"}, depends_on <- "a" :> {}, FalseWhen <- {},
  Unbindable <- {}, AgentNodes <- {}, max_attempts <- "a" :> 2,
  MaxRecords <- 6, MaxFaults <- 1, ledger <- x1, projection <- x2,
  tasks <- x3, executor <- x4, faults <- x5
Node == INSTANCE NodeExecutor WITH
  Workers <- {h1, h2}, Coordinator <- "c", Preliminary <- {"p"},
  MaxConcurrent <- 1, MaxFaults <- 2, strategy <- x1, configured <- x2,
  pc <- x3, phase <- x4, handle <- x5, task <- x6, status <- x7,
  delivered <- x8, cleanup <- x9, after <- x10, class <- x11, reported <- x12,
  usage <- x13, faults <- x14
Super == INSTANCE Supervisor WITH
  Tasks <- {t1, t2}, Graphs <- TaskGraphs, MaxRounds <- 3, MaxPending <- 1,
  MaxCrashes <- 1, MaxRefusals <- 2, graph <- x1, log <- x2, task <- x3,
  turn <- x4, decision <- x5, delivery <- x6, consumer <- x7, outcome <- x8,
  worker <- x9, ran <- x10, pc <- x11, round <- x12, known <- x13,
  pending <- x14, fresh <- x15, processed <- x16, call <- x17, error <- x18,
  result <- x19, crashes <- x20, refusals <- x21
Defs == INSTANCE WorkflowDefinitions WITH
  Definitions <- MCDefinitions, RoleDefs <- MCRoles, NoRole <- none,
  Blank <- "", Fields <- {"f"}, Values <- {"v", "w"}, NoValue <- none,
  Limits <- MCLimits, def <- x1, phase <- x2, indegree <- x3, ready <- x4,
  visited <- x5, snap <- x6, start <- x7, at <- x8, changed <- x9

RunInit ==
  \/ part = "chain" /\ Init /\ idle
  \/ part = "fork" /\ Init /\ Fork!Init /\ idle5
  \/ part = "hosts" /\ Init /\ Shared!Init /\ idle5
  \/ part = "node" /\ Init /\ Node!Init /\ idle14
  \/ part = "supervisor" /\ Init /\ Super!Init
  \/ part = "definitions" /\ Init /\ Defs!Init /\ idle9

RunNext ==
  /\ UNCHANGED part
  /\ \/ part = "chain" /\ Next /\ UNCHANGED pool
     \/ part = "fork" /\ Fork!Next /\ UNCHANGED <<vars, above5>>
     \/ part = "hosts" /\ Shared!Next /\ UNCHANGED <<vars, above5>>
     \/ part = "node" /\ Node!Next /\ UNCHANGED <<vars, above14>>
     \/ part = "supervisor" /\ Super!Next /\ UNCHANGED vars
     \/ part = "definitions" /\ Defs!Next /\ UNCHANGED <<vars, above9>>

\* A node ends, and so does the validation of a definition; a Run does not.
RunEnds ==
  /\ part \in {"node", "supervisor", "definitions"} /\ UNCHANGED <<part, vars, pool>>

RunSpec == RunInit /\ [][RunNext \/ RunEnds]_<<part, vars, pool>>
-----------------------------------------------------------------------------
Everywhere(ofChain, ofFork, ofShared) ==
  /\ part = "chain" => ofChain
  /\ part = "fork" => ofFork
  /\ part = "hosts" => ofShared

\* The types of the component a behaviour is about.
RunTypeOK ==
  /\ TypeOK
  /\ CASE part = "chain" -> TRUE [] part = "fork" -> Fork!TypeOK [] part = "hosts" -> Shared!TypeOK
       [] part = "node" -> Node!TypeOK [] part = "supervisor" -> Super!TypeOK
       [] part = "definitions" -> Defs!TypeOK

\* What a restarted controller would rebuild from the ledger is what a
\* controller with a current projection has, interrupted attempts aside: no
\* partial mutation leaves a projection that passes require_current_projection
\* and disagrees with the records.
RunRestored ==
  Everywhere(RestoreMatchesLive, Fork!RestoreMatchesLive, Shared!RestoreMatchesLive)

\* A node is started only after each of its dependencies settled, although
\* ready_nodes reads the projection outside the line; its attempts come one
\* after the other, also from a Host restored before the first began
\* (sqlite_stale_restored_controller_cannot_begin_a_second_attempt), and no more
\* than retry.max_attempts; nothing is started, completed or failed after the
\* record of a cancellation, however late an attempt's result arrives; and a
\* settlement of a Run with nothing running decides it: no node is left Pending
\* behind one that can never settle.
RunOrdered ==
  /\ Everywhere(DependenciesFirst, Fork!DependenciesFirst, Shared!DependenciesFirst)
  /\ Everywhere(AttemptsAreSerial, Fork!AttemptsAreSerial, Shared!AttemptsAreSerial)
  /\ Everywhere(AttemptsBounded, Fork!AttemptsBounded, Shared!AttemptsBounded)
  /\ Everywhere(CancelStopsWork, Fork!CancelStopsWork, Shared!CancelStopsWork)
  /\ Everywhere(SettleDecides, Fork!SettleDecides, Shared!SettleDecides)

\* A node forgets no child and its output rests on the one that ran last.
NodeAccounted == part = "node" => Node!NodeAccounted

\* A Supervisor's records are ones its replay accepts, its output rests on every
\* Task's delivered result, and a plain failure leaves no worker whose outcome is
\* unknown (workflow_executor_supervisor.rs).
SupervisorSound ==
  part = "supervisor" =>
    Super!ReplayAccepts /\ Super!FinalizeSawEveryResult /\ Super!UnknownNotHidden

\* A definition that is accepted can be run and restored as its author meant it.
DefinitionsSound == part = "definitions" => Defs!DefinitionsSound
=============================================================================
