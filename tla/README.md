# Solaris Mesh: TLA+ specifications

Solaris Mesh is an agent runtime in Rust. Its difficult part is not the single
agent loop: it is everything that has to survive a crash, a retry, a stalled
process, a second process on the same database or a change of policy between a
decision and its use. This directory specifies that part in TLA+, checks it with
TLC on small instances and proves some of it with TLAPS. Paths below are relative
to `src/crates/solaris-agent/src/` unless they start with `docs/`, which is
`src/docs/`, or name another crate.

## 1. The system and its parts

| Part | State | Hard behaviour |
|---|---|---|
| Runtime Ledger (`runtime_ledger*.rs`) | append-only records with one sequence, in SQLite or a JSONL file; a lease row per workflow Run | stalled holders, clocks set back, torn lines, power failures, an import that is repeated |
| Agents, Teams, Tasks, messages (`collaboration_runtime*`, `task_registry.rs`, `message_bus.rs`) | registries that are projections of the ledger | callers that keep a reservation, races on a revision, appends that fail after they are durable, restore over live state |
| Child conversations and spawner service (`spawner*`) | conversation tables, handles, outcome records | takeover of an opening, retry of a turn that ran, cancel against join |
| Resource manager (`resource_manager*`) | usage totals, permits, rate window | lost wake-ups, windows that end under a permit, checkpoints |
| Workflows (`workflow_*`) | definition, projection per Host, Tasks of nodes, children of a node, Supervisor records | several records per mutation, decisions on a snapshot, two Hosts, replay |
| Sessions (`session/`, `host_outbox.rs`, `solaris-cli/src/json_stream/`) | session rows, references to Runs, outbox rows, the stream's tasks | deletion outside transactions, overtaken claims, process replaced between write and acknowledgement |
| Agent engine (`engine/`, `compact/`, `plan/`, `execution_context/`, `orchestration*`, `permission_engine*`) | history, task phase, effect records, configuration, policy | two databases, a successor that continues, policy that changes under an approval |
| Tools (`solaris-tools`) | file state cache, shared evidence index | other programs that change the same files |
| Plugins, Memory (`plugin_*`, `memory_*`, `solaris-memory`) | registries rebuilt from the ledger, versioned records, frozen snapshots | undo that fails, two processes, legacy import |
| Processes, network proxy, Windows ACLs, MCP (`solaris-process`, `solaris-mcp`) | guardian, recovery registry, sockets, DACL leases, connections | a tree whose end cannot be confirmed, drop during a relay, late answers |

They interact through the Runtime Ledger: Agents, Tasks, messages, resource
totals, effects and workflow Runs are record types of one ledger, each with a
projection in memory that a restart rebuilds. The session store is a second
database. It fences the history with the session lease, refers to ledger Runs,
and its collector deletes them. `PROJECT.json` lists every part, the lines each
definition stands for and the hazards at the line where they bite.

## 2. Modules

| Module | Models | A step is |
|---|---|---|
| `WorkflowLease` | the lease and the records of the Run it protects | one ledger operation (mutex or immediate transaction) |
| `FencedLog` | what the lease promises, without owners or clocks | a grant or a write |
| `LedgerStore` | both file formats, import, deletion, export, page reads | one transaction, one file operation, a torn write or a power failure |
| `MemoryStore` | Memory records, search, proposals, import, session snapshots | one transaction or file operation of a process |
| `Plugins` | install, activate, deactivate, undo, restart, command contributions | one append, registration or effect record |
| `AgentLifecycle` | spawn reservations, Agents, relationships, Teams, restore | one operation under the Run's mutation line |
| `TaskCas` | Tasks, compare-and-set, admission, restore | an operation under the line; checks and publications outside it are steps of their own |
| `MessageBus` | mailboxes and claims | one operation under the line, its append failing or not |
| `Conversation` | one child conversation driven by several services | one transaction or append |
| `Spawner` | a request's Tasks in dependency waves, join and cancel | one append, wait or notification |
| `ResourceLedger` | durable totals, deltas, checkpoints, attach | one update under the checkpoint mutex |
| `ResourceAdmission` | permits, waiters, notifications, budgets | one poll, release, notification or budget change |
| `ProviderRate` | the rate window and the permits that outlive it | one window operation |
| `WorkflowRun` | start to settlement of a Run, Hosts and restore | one mutation, complete or cut off after any of its records; one read of the executor loop |
| `NodeExecutor` | the children of one node under every strategy | one call of the collaboration runtime |
| `Supervisor` | the rounds of a configured Supervisor and their replay | one record or one child's run |
| `WorkflowDefinitions` | validation and the reuse of checkpoints | one iteration of a loop whose order is not fixed |
| `SessionGc` | sessions, references, retention, jobs, stages, collectors | one transaction, or the deletion of one Run |
| `HostOutbox` | outbox, emitter and the Host's inbox | one transaction, one write or one read |
| `HostStream` | the command loop, turns, required and detached workflows | one select branch, command or emission |
| `DurableTask` | one message: lease, history, phases, effects | one transaction or append |
| `ContextWindow` | token watermark, breaker, compaction | one request, record or replacement of the history |
| `EngineConfig` | updates, presets, modes, plan mode, restart | one command, tool call, modifier or save |
| `ToolGate` | a round of calls through rules, approval and revalidation | one check, answer, start or finish of a call |
| `FileTools` | Read, Grep, Glob, Write, Edit and their caches | one file system call or cache operation |
| `ManagedProcess` | one child, its guardian, sandbox and recovery | one message, signal, wait or retry |
| `NetworkProxy` | listener, workers, registry, destination rule, drop | one step of a thread up to its next blocking call |
| `WindowsAcl` | DACL leases of launches that share objects | one Win32 call, or what is done under the table lock |
| `McpClient` | connections, request gate, transports, disable | one await of a request or close |

State keeps the names of the code: a variable is a table or a map
(`records`, `lease`, `claims`, `job`), an action is a function. `*_proofs`
and `FiniteOrders` hold theorems. Definitions marked as mutants state a plausible
mistake in the definition that follows; they are not used in any specification.
Each one, put in place of its definition, makes TLC report the property it is
listed with.

Data is reduced to what the properties tell apart: a payload is the identity of
an effect or operation, a digest is what it is taken over, tokens and cost are
one counter, a file's text is a model value with a size, a lease that only has to
be held or not is a Boolean where its times do not matter (`SessionGc`). The
Host's inbox is external; it follows `docs/json-stream-protocol.md`. So are DNS,
the Win32 and POSIX calls and the servers of MCP.

### Running several components in one run

Components that share no state are checked in one run without building their
product. The MC module has a variable `part` that `Init` chooses and no step
changes; it says which component a behaviour is about, and the others stand
still. Where components would have many variables, they share the variables
`x1`, `x2`, ... through their INSTANCEs: only one component uses them in a
behaviour. A property of a component then holds for it exactly as in a run of its
own.

## 3. Runs, bounds and what they show

`tlc -workers 2 -config X.cfg M` with the module and configuration of each row;
each takes between one and three minutes.

| Run | Module | Instances | What it shows |
|---|---|---|---|
| `stores` | `MCStores` | lease: 2 controllers, 3 epochs, 4 sequence numbers, clock both ways; ledger: 2 processes, 4 calls, 1 fault, started empty, with a JSONL file or with a finished import; Memory: 2 processes, 2 records, 2 operations, with and without review; plugins: 3 plugins that require, conflict and share a workflow, 3 requests, 2 faults | `FencedOrder`: no record of an older epoch behind one of a newer. `PromiseSpec`: `FencedLog` is implemented. `LedgerKept`: no acknowledged record is lost, bound twice or reordered. `MemoryKept`: versions are a chain, search and frozen snapshots agree with it, import and review happen once. `PluginsKept`: registries are what the ledger says, no capability of an inactive plugin runs |
| `collaboration` | `MCCollaboration` | 1 child with 2 spawn operations and 1 Team; 1 Task with 3 operation ids; 1 message and 1 broadcast with 2 recipients; 2 services, 2 turns and 2 claims of each; 2 Tasks, 1 crash, 2 cancellations (1 with a reviewer) | `RegistriesRestored`, `DoneOnce` (outcomes, deliveries and claims), `TaskHistoryKept` (one line of revisions per Task, what was reported is durable), `ConversationKept` (turns run once, in order and under the claim that was taken), `ChildrenKept` (children run once after their dependencies, a confirmed cancellation is final) |
| `resources` | `MCResources` | 3 callers, Agents or an Agent with 2 effects, 2 budgets; 1 effect, 2 rounds, checkpoint at every 2nd change; 2 permits, windows of 2 ticks; 2 proxies with a connection each, 15 kinds of request; 2 launches that share a file and a directory; 1 MCP server of each transport, 2 callers, 2 shutdowns | `PermitsCounted`, `SleeperHasWaker`, `UsageAccounted` (totals restored, window knows its permits, limits kept), `DestinationsMediated`, `LeasesShared`, `McpMediated` |
| `workflow` | `MCWorkflowRun` | a chain with an Agent node and a retry; a fork with a false condition and an unbindable input; one node and 2 Hosts; a node with 2 workers, coordinator and reviewer under 5 strategies, 2 faults; a Supervisor with 2 Tasks, 3 rounds, 1 crash, 2 refusals; every graph of 3 nodes and some hundred settings of conditions, bindings and Teams | `RunRestored`, `RunOrdered` (dependencies, serial attempts, cancellation, settlement), `NodeAccounted`, `SupervisorSound`, `DefinitionsSound` |
| `sessions` | `MCSessions` | 2 sessions, 3 Runs, 2 collectors, 1 fault; 3 processes with 2 events and a clock set back, or 3 events and a steady clock; a stream with an engine turn, a required and a detached workflow over 2 starts; a child process with 1 fault | `CollectionSafe` (a job's phase tells the truth, no orphans, what a session refers to is spared), `HostServed`, `ChildAccounted` |
| `agents` | `MCAgents` | 2 processes, 2 tools (one replay-safe), 2 provider calls, 1 failed write; rounds of 2 Agents, alone and side by side with call ids of their own or the same ones, under 1 change of policy or 1 fault, alone also under both; 2 Agents on one file and on two; a history of 5 messages; 3 rounds of plan tools with 2 faults, or with a change of configuration and 1 fault | `TaskRunOnce` (effects at most once, checkpoint before tools, history grows), `ToolsMediated`, `FilesTruthful`, `CompactionSafe`, `ConfigTruthful` |
| `progress` | `MCProgress` | one small instance of five components | under fairness `WaitersWake`, `RunSettles`, `SessionsSettle`, `DropReturns` |
| `task_admission`, `resource_once`, `host_clock`, `durable_resume`, `compact_unblocks` | `TaskCas`, `ResourceLedger`, `HostOutbox`, `DurableTask`, `ContextWindow` | as small as the case allows | disagreements between the code and what the repository says of it (section 6) |

Each passing run but `progress` has a `RunTypeOK`: the types of the component a
behaviour is about.

Every bound is a constant or a parameter of an INSTANCE. They are chosen so that
the case that matters occurs at least twice:

- Lease: three epochs give a holder, a successor and a second change of hands; a
  lease of one tick in a clock of two can be renewed, expire and be rolled back
  over.
- Ledger: four calls are an append, its repetition, a conflicting one and a
  deletion or import; one fault is a torn line or a power failure at any of them.
- Tasks: three operations on one Task are a winner, a loser and a retry. Tasks
  do not share revisions, so a second Task adds nothing but its product.
- Spawns: two operations of one child give commit, abort and retry in any order.
- Messages: a limit of one or two pending messages makes the limit bite; two
  claims make two readers compete.
- Conversations and children: two services are an owner and the one that takes
  over, which needs a second claim of a turn; two turns show order; two Tasks are
  a dependency and its dependent. The crash may fall into a cancellation, and the
  second cancellation finds what the first one left.
- Admission: three callers over one or two places leave one sleeping while
  another releases and a budget changes.
- Totals: a checkpoint at every second change puts each kind of change once
  before, once at and once after a checkpoint.
- Proxies: one worker and a queue of one make two connections meet every limit. A
  connection is used for one request; that a permitted name is looked up again for
  the next request of a kept connection is in the proof only.
- ACL leases: two launches over two objects are a first and a last holder of
  each, in either order.
- Workflow: ten or eleven records let the chain settle with a retry and the fork
  with its skips, over a crash; two Hosts have six, enough for a start, two
  attempts, a takeover and a settlement.
- Supervisor: three rounds are a dispatch, the delivery of its results and a
  decision on them; the crash may fall between any two records.
- Collection: two sessions that share a root, a root with a Run below it and a
  root of its own; two collectors, so one can overtake the other.
- Host delivery: three processes are a crash, a takeover and another crash.
- Durable turns: two processes and two provider calls are a turn that asks for
  tools and the turn that ends, each of which the second process may inherit.
- Tools: the rounds hold a safe call beside an unsafe one, a call that asks, one
  with a hook and one with an external effect; one change of policy may fall
  between any two steps. Two Agents that ask under the same call id are in one
  round, because the approval manager knows a request by this id alone.
- Files: a cache of one entry and an index of two evict at the second file, and
  one of the texts is larger than the whole cache;
  one outside change may fall between any two file system calls.

`CHECK_DEADLOCK FALSE` is set where a behaviour may really end: a Run whose
bounded ledger is used up, a session that is deleted, a message that is
completed, a process that is gone. `workflow` checks for deadlock; there the
parts that end are listed. Symmetry is over controllers, processes, Hosts,
collectors, readers and permits, in runs without liveness; where the code orders
identifiers they are numbers.

## 4. Fairness

Only `progress` uses fairness, and only of what the runtime schedules:

- Permits: a task that can run is polled, a thread that released its place goes
  on to its `notify_waiters`, an agent or effect that holds a permit ends. No
  caller has to ask, no budget has to change, no deadline has to pass.
- Workflow: the executor's loop takes its next step, and a Run that is not
  settled is executed. Attempts may fail as their retry limit allows. Nothing is
  asked of cancellation. The condition is written out instead of as `WF`,
  because TLC evaluates ENABLED of a whole mutation very slowly; the ledger's
  bound is excepted, and it is not reached before the Run is settled.
- Collection: processes keep starting and each runs a pass, as bootstrap does;
  leases of dead processes expire. Nothing is asked of sessions in use.
- Host delivery: the session is started again, start-up goes on, time passes and
  the Host reads its pipe. No event has to be produced, no lease released.
- Proxy: threads run, and a read or relay on a socket that was shut returns. A
  relay whose sockets are open may last as long as its peers keep it busy. The
  workers are shared by all proxies (`solaris-process/src/network_proxy/host.rs`),
  and a drop waits until its queued connections were taken by one. So `DropReturns`
  is conditional: a dropped proxy's drop returns if the other proxies' connections
  do not hold every worker for ever. Without the condition TLC refutes it.

## 5. Proofs

`tlapm M.tla` checks them; `DurableTask_proofs`, `HostOutbox_proofs`,
`SessionGc_proofs` and `TaskCas_proofs` take five to ten minutes each from nothing. The theorems hold
for every value of the constants that satisfies the named assumptions, so for any
number of processes, sessions, Tasks, events or crashes and for every bound.
Every inductive invariant was first an invariant of a TLC run.

| Theorem | Module | States |
|---|---|---|
| `Fencing`, `ImplementsFencedLog` | `WorkflowLease_proofs` | `FencedOrder`, `PromiseSpec` of run `stores` |
| `TypeCorrect`, `Observed`, `OneRecordPerIdentity`, `OrderedRecords` | `WorkflowLease_proofs` | types, observed sequences, identities, sequence order |
| `PermitsAreCounted`, `SleepersHaveWakers` | `ResourceAdmission_proofs` | `PermitsCounted`, `SleeperHasWaker` of run `resources` |
| `TypeCorrect`, `NoWakeupLost` | `ResourceAdmission_proofs` | counters never negative, no lost wakeup |
| `DeliveryInOrder` | `HostOutbox_proofs` | `DeliveredInOrder`, which run `sessions` checks within `HostServed` |
| `DeliveryOnce`, `KeyIsUnique`, `OneWriter` | `HostOutbox_proofs` | once, keys and ids kept, one writer per epoch |
| `CollectionIsSafe`, `CollectionInvariant` | `SessionGc_proofs` | `CollectionSafe` of run `sessions` |
| `RunOnce`, `HistoryIsSafe` | `DurableTask_proofs` | `TaskRunOnce` of run `agents`, and the part of it that needs no condition |
| `TaskHistory`, `HistoryInvariant` | `TaskCas_proofs` | `TaskHistoryKept` of run `collaboration` |
| `ProxyMediates`, `ProxyInvariant` | `NetworkProxy_proofs` | `DestinationsMediated` of run `resources` |

**The lease** (`WorkflowLease_proofs`), from `OwnersAssumption`,
`KeysAssumption` and `BoundsAssumption`. `FencedOrder` is not inductive: it says
nothing of records against the present row. The inductive invariant adds
`EpochBound` (the row's epoch is the number of tokens issued and bounds every
record's) and `SequenceOrder`, which is needed because an acquisition makes the
Run's last sequence the observed one. `RecordsOK` states what the invariant says
of the records alone, so `AppendOne` covers all five operations that append. The
clock plays no part in the argument: expiry only decides who may acquire, epochs
decide who may write. So the theorem holds for clocks set back at any time.
`ImplementsFencedLog` follows: under the invariant a token that passes
`require_current` is the newest one granted, so every fenced append is
`FencedLog`'s `Write`; renewals, releases and restores are stutters.

**Admission** (`ResourceAdmission_proofs`), from `CallersAssumption` (finite,
disjoint sets of callers) and `BudgetsAssumption` (limits of at least one, as
`effective_agent_limit` and `max(1)` make them). The counters equal cardinalities
of sets of holders, so a release never meets zero. `NoLostWakeup` speaks of
sleeping callers only; it becomes inductive with `NoChangeMissed`, which says the
same of a caller between its vain attempt and its wait. That is the window which
`enable()` before the attempt closes. `SleeperHasWaker` follows because a limit
is at least one: with no holder there is room, and room means a notifier.

**Orders and bounded induction** (`FiniteOrders`). The provers cannot use the
library's induction principles, so what a proof needs of finite sets is derived
from cardinalities: a finite linear order has a least and a greatest element, a
finite set can be listed in order and its elements ranked, and what holds of 0 and
is passed on by each step below `L` holds up to `L` (`UpTo`). A claim about a
loop over a sequence is then proved by its smallest counterexample, and the
recursive function a loop is written as is shown to exist first (`Replay` in
`TaskCas_proofs`, `ResolveRounds` in `NetworkProxy_proofs`).

**Host delivery** (`HostOutbox_proofs`), from
`ProcsAssumption`, `BoundsAssumption` and `ScenarioAssumption`. `Once` is
inductive whatever the clock does: rows have one key and keep their delivery ids
through every adoption (`Keyed`), and every envelope, acknowledgement and entry
of the inbox tells the truth about its row (`Truthful`). Order needs more, and
holds only while `~ClockSteps /\ ~SlowStart` (section 6 says what happens
otherwise): epochs have one writer (`OwnEpoch`), the key of the replay query is
in the order of commitment (`ReplayOrder`), a process writes in order and leaves
out nothing that was not displayed (`Line`), and what was displayed has no gap
(`NoneSkipped`). The last two need each other: a successor may replay an event
its predecessor also wrote, and the Host drops the second one.

**Collection** (`SessionGc_proofs`), from `TreesAssumption` (Run trees are
disjoint below different roots), `ProcessesAssumption` and `BoundsAssumption`.
Once a job has its snapshot no other session can reach what it collects
(`Apart`): those that did were gone when it was taken, and
`require_run_not_gc_claimed` keeps new ones away. So what a collector deleted
stays deleted, however late it or another one goes on (`Working`). A Run the
snapshot missed would have been written between the listing and its commit, which
comparing the allocation again excludes (`Allocated`). A root a job gives up
belongs to a session with a greater id (`Covers`), so nothing is orphaned.
`GcSparesReferenced` is an action property and follows from the invariant before
the step.

**Durable turns** (`DurableTask_proofs`), from `ProcsAssumption`,
`ToolsAssumption` and `BoundsAssumption`. The history in memory of the
process that owns the lease extends the durable one (`InMemory`), which is
why a save that passes the checks of the store only appends; the round a tool
belongs to is in the durable history before its fence is asked
(`RoundIsDurable`); every reply, in memory or saved, is a recorded outcome of the
request for the history before it (`RepliesRecorded`). This part, `HistoryIsSafe`,
needs no condition. `AtMostOnce` holds while `~SlowFence`, that is while no
process outlives its lease between `ensure_session_fence` and the intent it
writes next, which are in two databases. Then only the owner of a live lease is
about to write an intent (`IntentIsFenced`), the effect has none yet
(`NotIntended`), and who owes the start of an effect that may not be repeated is
the only one and has not begun (`OneStarts`). `RunOnce` states the condition; with
`SlowFence` TLC shows the second start (section 6).

**Collaboration Tasks** (`TaskCas_proofs`), from no assumption on the constants.
`OneHistory` is not inductive: a compare-and-set writes a change of the value the
registry shows. The inductive invariant adds that this value, the stored answers
and what an admission in progress will still publish are durable
(`ReportedIsDurable`, `Publishable`) and that a Task's records begin with its one
creation (`CreatedFirst`). The registry may be behind: a late publication sets it
back. The key step is `LastOfTask`: if no record changes the Task from the
revision the caller has read, then the record with that value is the last one,
for otherwise the least record after it would be such a change. So `bound` finds
every conflicting record, and a change that is appended extends the chain. A
restore publishes only durable values (`SoundStep`, `ReplaySound`). One that
starts empty and succeeds leaves nothing durable out (`ReplayedStep`): a creation
overwrites nothing because it is first, a change is kept unless a later one is
there, and operation ids are not used twice. `RestartKeepsReported` follows.

**The network proxy** (`NetworkProxy_proofs`), for constants that satisfy
`Network` (finitely many connections, each with a proxy; permitted names are
names; a zone gives names addresses and canonical names), which run `resources`
evaluates. `DropLeavesNothing` becomes inductive with what the registry knows
(`Registered`): a connection is registered in exactly the phases in which a worker
may block on its sockets, its upstream socket is known exactly while it relays,
and one that is not registered yet is still open. So setting the stop flag before
`shutdown_all` leaves no gap: what was registered is shut, and `register` and
`set_upstream`, which read the flag under the same lock, refuse the rest. The
queue holds each accepted connection once (`Accepted`), so the job count falls
once for each, and a joined listener accepts nothing more (`Listening`); hence
zero jobs mean that nothing is left. For the destinations, `TypeLeads` follows the
rounds of `resolve_type`: with `n` rounds left, the name asked for is
`MAX_CNAME_DEPTH + 1 - n` canonical names from the one permitted. `Bounded` adds
the limits of the queue and the workers.

Only model-checked:

- liveness (`WaitersWake`, `RunSettles`, `SessionsSettle`, `DropReturns`): the
  prover has neither fairness nor ENABLED;
- the other safety properties of the runs: those of the ledger formats, Memory,
  plugins, Agents, messages, conversations, spawned children, usage totals,
  ACL leases, MCP, workflow Runs, nodes, the Supervisor, definitions,
  the stream, processes, files, compaction, configuration and the tool gate. Most
  are conjunctions over several small protocols, some of them written with
  recursive operators, which the prover does not admit;
- the order of delivery and the single start of effects where the conditions
  above do not hold are refuted, not proved.

## 6. Where the code and its documentation disagree

Five of these have a run of their own, whose counterexample shows the behaviour:

- `task_admission` (`collaboration_runtime/tasks.rs:149`): an admission upserts
  the ledger's records without the mutation line, over a change made in between.
- `resource_once` (`resource_manager/persistence.rs:444`): the change that makes
  a checkpoint due leaves its id in no record and is counted again after a
  restart.
- `host_clock` (`session/store_outbox.rs:455`): replay follows wall-clock times
  before sequence numbers.
- `durable_resume` (`engine/run.rs:281`): a crash between saving a tool round and
  `tools_completed` leaves a message that is refused from then on.
- `compact_unblocks` (`commands/compact.rs:19`): `/compact` leaves the reported
  token count as it was, so the next message is refused again although the
  refusal recommends `/compact`.

The modules state twelve more properties that a document, comment or test
suggests and that do not hold. TLC refutes each in seconds with the constants
given; no run lists them.

| Property | Where | With | What happens |
|---|---|---|---|
| `AgentLifecycle!MembershipIsDurable` | `runtime_ledger_task_admission.rs:235` | 1 child, 2 attempts, 5 records | the retry of an aborted spawn writes the same batch payload, which is dropped as a replay; the membership is not in the ledger (`docs/advanced.md:59-66`) |
| `TaskCas!Restorable` | `collaboration_runtime/tasks.rs:584` | 1 Task, 2 operations, 4 records | an owner that left the Team after the check is durable, and `restore_projection` refuses the Run |
| `MessageBus!ClaimedByOne` | `message_bus.rs:631` | `Faults = {"claimed"}` | a claim whose append failed after commit is not in the map, so a second claim gets the same messages |
| `MessageBus!ReadKeepsMessages` | `collaboration_tools.rs:654` | no faults | ReadAgentMessages claims what it returns; its description says "without consuming messages" |
| `WorkflowRun!CancelledStays` | `workflow_controller/node_state.rs:440` | 1 node, 1 Host | `settle` does not look at the status and settles a cancelled Run as Completed or Failed |
| `WorkflowRun!AttemptNumberKept` | `workflow_controller/restore.rs:175` | 1 node, 2 attempts | a resumed attempt writes a second start record, which a second restart counts |
| `WorkflowRun!DeferredIsRecoverable` | `workflow_controller/node_state.rs:517` | 1 Agent node, 1 fault | a deferred write for a Task that was never assigned can never be reconciled |
| `WorkflowRun!Restorable` | `workflow_controller/restore.rs:507` | 1 Agent node, 12 records, 1 fault | a marker without its deferral fails every restore |
| `SessionGc!GcSettles` | `session/store_gc.rs:281` | `GcBudget = 1`, 2 sessions, fairness | deferred jobs keep their place, so as many waiting owners as the budget hide the job they wait for |
| `HostOutbox!EpochHasOneWriter` | `session/store_outbox.rs:74` | `SlowStart = TRUE` | a process that lost its lease while starting opens the outbox under its successor's epoch |
| `DurableTask!AtMostOnce` | `execution_context/recovery.rs:143` | `SlowFence = TRUE` | a stall between the fence check and the intent, which are in two databases, outlives the lease |
| `DurableTask!UserOnce` | `engine/run.rs:78` | `StoreFaults = TRUE` | a message whose checkpoint failed stays in memory and is pushed again |

The passing runs exclude exactly these cases where a property depends on them:
`ClaimedByOne` has the faults of sends and broadcasts, `GcSettles` a budget for
every job, `AtMostOnce` no stall at that one place, `DisplayOrder` a steady
clock and an owner that opens the outbox before it loses its lease. The
condition is said in the property's comment or in the constant's.

Observed while translating, without a property of their own:

- Compaction. The token watermark is not saved, so the first request after a
  resume is unchecked. A recorded AutoCompact failure is reused for an identical
  history, and a recorded "prompt too long" comes back as an effect error,
  without truncation. Messages truncated before a retry are not in the summary.
  `/compact` and `/clear` do not save the session. An AutoCompact call whose
  outcome is unknown blocks later automatic compaction.
- Plan mode. The engine's allow-list is restored when plan mode ends
  (`engine/context_modifiers.rs:62-64`), as `plan/state.rs:10-12` says; the list
  of the terminal confirmer, to which an "always" given in plan mode goes too, is
  not. `PlanGrantsEnd` states the first. A change of effort by the Host is not
  saved by itself, so a restart before the next save loses it. A Run resumed in plan state does
  not disable MCP (`bootstrap.rs:266`, `docs/mcp.md:112`). A round with two
  ExitPlanMode submissions fails each time it is resumed.
- Tools. A process call approved by an Allow rule keeps its credential at spawn
  when the rule is removed in between (`execution_context/process_authorization.rs:85-106`).
  `/clear` and `/compact` do not tell the file tools what they removed. Edit may
  refuse with "You must Read" after a Read (`solaris-tools/src/edit.rs:213-214`).
  An approval or denial carries a call id only and the manager is shared by all
  Agents of a session, while `execution_context.rs:390-392` says that children may
  have matching ids: an answer may then reach the other Agent's request, and a
  request that is overwritten ends as cancelled. `Consent` is stated accordingly.
- Spawner. A cancellation whose effect has its outcome returns Ok also when the
  child is not known, as after a restart that did not restore it
  (`spawner/service.rs:331`).
- Supervisor. Cleaning up a Task that failed with `SideEffectUnknown` reports no
  error (`workflow_executor_supervisor_tasks.rs:265-279` names two other classes);
  the test `unknown_supervisor_side_effect_preserves_recovery_state`
  (`workflow_executor_supervisor.rs:897`) has all three, for the error of a round.
- MCP. A request that has entered its transport before the disable signal still
  reaches the server, and a shutdown completes although closing a child failed.
  An SSE transport dropped without close leaves its listener until the
  server ends the stream.
- Windows ACLs. `SavedDacl::open` reads before the table lock
  (`solaris-process/src/sandbox/windows_acl.rs:474`), so a SID may stay on an
  object after exit (`docs/advanced.md:106`); a launch that joins a protected
  lease does not apply it again (`windows_acl.rs:484-486`).
- Ledger. A `SyncCritical` compare_and_append that finds an existing
  `AsyncDurable` record commits nothing and so synchronises nothing.
- Plugins. Registration is not transactional (`plugin_runtime.rs`,
  `docs/architecture.md:14`): workflows are registered one by one and taken back
  one by one. An unfinished intent is closed only by the same request id. A
  changed implementation that is installed again while active is activated at
  the next start. A restart registers workflows in id order, not in the order
  they depend on each other.
- Memory. A legacy file that is blank or too long fails every start
  (`memory_runtime.rs:185-187`). A clock set back makes a snapshot look corrupt
  (`solaris-memory/src/service.rs:495`). A crash while the snapshot's blob is
  written leaves a session that cannot be resumed with Memory (`session.rs:125-130`).
- Processes. An ambient child on Linux is probed with `kill(-pid, 0)`, which
  succeeds while the leader is an unreaped zombie
  (`solaris-process/src/containment.rs:292`).

## 7. Abstractions to keep in mind

- An operation under a mutex, a mutation line or an immediate transaction is one
  step; what the code does before or after it is a step of its own. An append
  that may report an error after it is durable is modelled in `TaskCas`,
  `MessageBus` and `WorkflowRun`; in `ResourceLedger` and `ProviderRate` an
  append that fails has written nothing. The faults of `MessageBus` in its run are
  those of sends and broadcasts; acknowledgements and dequeues fail cleanly there.
- A clock is a small number. Only `WorkflowLease`, `ProviderRate`, `HostOutbox`
  and `MemoryStore` let it go back or stand. In `Conversation` time may pass
  between any two steps, so whether a lease has expired is a choice.
- Random identifiers are fresh values. Digests are equal when what they are
  taken over is equal.
- `SessionGc` leaves out the 30 days before a job is due, because collectors may
  be late in any case.
- `HostOutbox` has no write that fails and a process that goes on: the pipe to the
  Host fails for good, so such a process displays nothing more and ends at its next
  safe point (`json_stream/outbox.rs:151-186`). It counts as crashed at the failed
  write; rows it still commits are left to the replay like the last one.
- `DurableTask` has no turns for verification after a mutation or for the final
  answer and no turn budget (`engine/run.rs:151-176`, `574-634`): they are further
  provider turns with the same records. It has one message. Tools of a round run one after the other there;
  `ToolGate` runs safe ones side by side.
- `ToolGate` revalidates a call in one step; the code reads the mode, evaluates
  the rules and consumes a lease under locks of their own
  (`execution_context.rs:723-737`), so a change may also fall between two of them.
- `NodeExecutor` has a node timeout that may strike at any step, without a clock.
  In `WorkflowRun` "Active" is a Task that is Assigned or Running.
- `WindowsAcl` takes a failed application and the first attempt to undo it as one
  step; retries are steps of their own. `FileTools` has no temporary file that
  stays behind because its removal failed.
- A path, a domain and a command are resources of a small set in `ToolGate`; how
  they are normalised is not modelled.
- `ManagedProcess` has one child; entries of the recovery registry do not depend
  on each other.

## 8. Not modelled

Wire formats, parsing, path normalisation, terminal output and the proxy's bytes
are data or operating-system behaviour, without interleavings of their own. The
skills loader, provider adapters, the ACP front end and configuration merging
are left out for the same reason; `PROJECT.json` gives the reason for each. Of
the modelled parts the following are missing: child Runs and protected outputs
of workflows, the older Task record formats, the Task quota's error path, Run
restores that end in `restore_as_reconciliation_required`, a permit whose commit
fails after an AutoCompact outcome was stored (`compact/auto.rs:345-352`), a first
start that is cut off before its session exists, schema migrations of the databases,
the import of legacy sessions, the Windows job object and the macOS profile.
