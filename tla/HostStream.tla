----------------------------- MODULE HostStream -----------------------------
(***************************************************************************)
(* The JSON stream host of the CLI: the pre-message phase, the resumption  *)
(* of workflow runs a previous process left behind, the main command loop, *)
(* the inner loop of a turn, and the registry of detached workflow tasks.  *)
(*                                                                         *)
(* A message in Required is answered by a workflow run of its own (the run *)
(* identity is a function of the message, so message and run are one key); *)
(* any other message is answered by the engine.  Detached are the runs the *)
(* host starts with run_workflow.  What survives a crash: the runs, the    *)
(* history of the session and the delivery markers in the ledger.          *)
(***************************************************************************)
EXTENDS Naturals, Sequences, FiniteSets, SequencesExt

CONSTANTS
    Messages,   \* message ids the host may send
    Required,   \* those answered by a required workflow
    Detached,   \* workflow runs started by run_workflow
    Commands,   \* request ids of the other host commands
    Servers,    \* names of MCP servers the host may add
    NoMsg,      \* no active turn
    MaxStarts,  \* bound: process starts
    MaxFaults   \* bound: store failures

Workflows == Required \cup Detached

VARIABLES
    run,        \* durable status of each workflow run
    history,    \* durable: how often a run's turn is in the session
    marker,     \* durable: required_workflow_turn_emitted was recorded
    life,       \* what the process is doing
    same,       \* whether provider and model match the runs' identity
    phase,      \* a required turn on its way out: commit, wait, emit, mark
    task,       \* detached tasks in the registry
    signalled,  \* registry entries whose cancel channel was set
    commits,    \* turns waiting for the main loop to commit them
    stream,     \* messages whose stream is open
    shown,      \* turns whose text this process emitted
    told,       \* turns whose failure or cancellation this process reported
    resumed,    \* restored runs that were looked at
    active,     \* the message being handled
    stopping,   \* Stop arrived while the turn was being handled
    pending,    \* configuration commands queued behind the turn
    answer,     \* what each command was answered
    config,     \* configuration commands in force
    allowed,    \* MCP servers whose connection is authorised
    connected,  \* MCP servers that are connected
    starts, faults

durable == <<run, history, marker>>
turn_vars == <<active, stopping, pending>>
task_vars == <<phase, task, signalled, commits>>
out_vars == <<stream, shown, told>>
host_vars == <<answer, config>>
mcp_vars == <<allowed, connected>>
vars == <<durable, life, same, task_vars, out_vars, resumed, turn_vars, host_vars, mcp_vars, starts, faults>>

Terminal == {"Completed", "Failed", "Cancelled"}
Answers == {"unsent", "queued", "applied", "configured", "rejected", "lost", "twice"}

TypeOK ==
    /\ run \in [Workflows -> {"None", "Running"} \cup Terminal]
    /\ history \in [Workflows -> 0..2] /\ marker \subseteq Workflows
    /\ life \in {"down", "pre", "resume", "loop", "turn", "drain"}
    /\ same \in BOOLEAN
    /\ phase \in [Workflows -> {"none", "commit", "wait", "emit", "mark"}]
    /\ task \subseteq Workflows /\ signalled \subseteq task
    /\ commits \in Seq(Workflows)
    /\ stream \subseteq Messages /\ shown \subseteq Workflows /\ told \subseteq Workflows
    /\ resumed \subseteq Workflows
    /\ active \in Messages \cup {NoMsg} /\ stopping \in BOOLEAN
    /\ pending \in Seq(Commands)
    /\ answer \in [Commands -> Answers] /\ config \subseteq Commands
    /\ allowed \subseteq Servers /\ connected \subseteq Servers
    /\ starts \in 0..MaxStarts /\ faults \in 0..MaxFaults

Init ==
    /\ run = [r \in Workflows |-> "None"] /\ history = [r \in Workflows |-> 0] /\ marker = {}
    /\ life = "down" /\ same = TRUE
    /\ phase = [r \in Workflows |-> "none"] /\ task = {} /\ signalled = {} /\ commits = <<>>
    /\ stream = {} /\ shown = {} /\ told = {} /\ resumed = {}
    /\ active = NoMsg /\ stopping = FALSE /\ pending = <<>>
    /\ answer = [c \in Commands |-> "unsent"] /\ config = {}
    /\ allowed = {} /\ connected = {}
    /\ starts = 0 /\ faults = 0

-----------------------------------------------------------------------------
(* Stores that may fail, answers to the host, and the stream of a message. *)

\* A durable write succeeds, or fails and counts against the bound.
stored == faults' = faults
store_fails == faults < MaxFaults /\ faults' = faults + 1

\* emit_command_result: one answer per request id.
answered(c, result) ==
    [answer EXCEPT ![c] = IF @ \in {"unsent", "queued"} THEN result ELSE "twice"]

emit_command_result(c, applied) ==
    answer' = answered(c, IF applied THEN "applied" ELSE "rejected")

\* A configuration command is in force once the engine took it.
apply_config_command(c) ==
    \/ answer' = answered(c, "configured") /\ config' = config \cup {c}
    \/ answer' = answered(c, "rejected") /\ UNCHANGED config

required_workflow_host_msg_id(r) == r \in Required

stream_end(r) == stream \ {r}

\* emit_required_workflow_failure: the error event, and the stream ends.
emit_required_workflow_failure(r) ==
    /\ told' = told \cup {r}
    /\ stream' = stream_end(r)

-----------------------------------------------------------------------------
(* The registry of detached workflow tasks. *)

register_inner(r) == task' = task \cup {r}

active_required_turn == task \cap Required

cancel(R) == signalled' = signalled \cup (R \cap task)

finish(r) == task' = task \ {r} /\ signalled' = signalled \ {r}

-----------------------------------------------------------------------------
(* Workflow controller, as the host uses it. *)

\* cancel(run, reason): a running run becomes Cancelled, a settled one is returned.
controller_cancel(R) ==
    [r \in Workflows |-> IF r \in R /\ run[r] = "Running" THEN "Cancelled" ELSE run[r]]

\* start_with_runtime: a run with this identity is reused.
start_with_runtime(r) ==
    [run EXCEPT ![r] = IF @ = "None" THEN "Running" ELSE @]

executing(r) == phase[r] = "none" /\ (r \in task \/ (active = r /\ life = "turn"))

\* The executor settles a run; the future that waits for it resolves later.
RunFinishes(r) ==
    /\ life \in {"loop", "turn", "drain", "resume"}
    /\ executing(r) /\ run[r] = "Running"
    /\ \E status \in {"Completed", "Failed"} : run' = [run EXCEPT ![r] = status]
    /\ UNCHANGED <<history, marker, life, same, task_vars, out_vars, resumed, turn_vars, host_vars,
                   mcp_vars, starts, faults>>

-----------------------------------------------------------------------------
(* The process starts; MCP servers may be added until the first other      *)
(* command arrives.                                                        *)

Start ==
    /\ life = "down" /\ starts < MaxStarts
    /\ life' = "pre" /\ starts' = starts + 1
    /\ same' \in (IF starts = 0 THEN {TRUE} ELSE BOOLEAN)
    /\ UNCHANGED <<durable, task_vars, out_vars, resumed, turn_vars, host_vars, mcp_vars, faults>>

ensure_mcp_name_available(n) == n \notin allowed

\* A server is authorised, then connected; a failed connection is revoked.
connect_added_server(n) ==
    \/ connected' = connected \cup {n} /\ allowed' = allowed \cup {n}
    \/ UNCHANGED <<connected, allowed>>

AddMcpServer(n) ==
    /\ life = "pre" /\ ensure_mcp_name_available(n)
    /\ connect_added_server(n)
    /\ UNCHANGED <<durable, life, same, task_vars, out_vars, resumed, turn_vars, host_vars, starts, faults>>

\* What a crash, or the end of the process, leaves: only what is durable.
process_gone ==
    /\ life' = "down"
    /\ phase' = [r \in Workflows |-> "none"] /\ task' = {} /\ signalled' = {} /\ commits' = <<>>
    /\ stream' = {} /\ shown' = {} /\ told' = {} /\ resumed' = {}
    /\ active' = NoMsg /\ stopping' = FALSE /\ pending' = <<>>
    /\ answer' = [c \in Commands |-> IF answer[c] = "queued" THEN "lost" ELSE answer[c]]
    /\ config' = {} /\ allowed' = {} /\ connected' = {}

PreMessageStop ==
    /\ life = "pre" /\ process_gone
    /\ UNCHANGED <<durable, same, starts, faults>>

PreMessageEnds ==
    /\ life = "pre" /\ life' = "resume"
    /\ UNCHANGED <<durable, same, task_vars, out_vars, resumed, turn_vars, host_vars, mcp_vars, starts, faults>>

-----------------------------------------------------------------------------
(* A required turn on its way to the host: into the history, onto the      *)
(* stream, and marked as delivered.                                        *)

\* Mutant: the history is not searched for the run.
commits_again(r) == FALSE

\* A run whose turn is already in the history is not committed again.
already_committed(r) == history[r] > 0

\* The engine commits the turn; its persistence may fail.
commit_workflow_turn(r) ==
    /\ stored
    /\ history' = IF already_committed(r) THEN history ELSE [history EXCEPT ![r] = @ + 1]
    /\ phase' = [phase EXCEPT ![r] = "emit"]
    /\ UNCHANGED <<stream, told>>

commit_fails(r) ==
    /\ ~already_committed(r) /\ store_fails
    /\ emit_required_workflow_failure(r)
    /\ phase' = [phase EXCEPT ![r] = "none"]
    /\ UNCHANGED history

\* Text goes out on the stream, which is opened if nobody opened it.
emit_required_workflow_text(r) ==
    /\ phase[r] = "emit"
    /\ stream' = stream \cup {r} /\ shown' = shown \cup {r}
    /\ phase' = [phase EXCEPT ![r] = "mark"]

\* The marker is appended once; then the terminal events close the stream.
record_required_workflow_turn_emitted(r) ==
    /\ stored
    /\ marker' = marker \cup {r}
    /\ stream' = stream_end(r) /\ UNCHANGED told

marker_fails(r) ==
    /\ r \notin marker /\ store_fails
    /\ emit_required_workflow_failure(r) /\ UNCHANGED marker

\* A restored or detached turn is out: its task leaves the registry.
TurnEmitted(r) ==
    /\ active # r /\ emit_required_workflow_text(r)
    /\ UNCHANGED <<durable, life, same, task, signalled, commits, told, resumed, turn_vars, host_vars, mcp_vars,
                   starts, faults>>

TurnMarked(r) ==
    /\ active # r /\ phase[r] = "mark"
    /\ record_required_workflow_turn_emitted(r) \/ marker_fails(r)
    /\ phase' = [phase EXCEPT ![r] = "none"]
    /\ finish(r)
    /\ UNCHANGED <<run, history, life, same, commits, shown, resumed, turn_vars, host_vars, mcp_vars, starts>>

-----------------------------------------------------------------------------
(* resume_restored_workflows: completed turns nobody delivered first, then *)
(* the runs that were still going.                                         *)

\* Mutant: a turn counts as delivered once it is in the history.
uncommitted(r) ==
    r \in Required /\ run[r] = "Completed" /\ history[r] = 0

\* The restored completed runs whose turn was not delivered.
undelivered(r) ==
    r \in Required /\ run[r] = "Completed" /\ r \notin marker

validate_workflow_runtime_identity == same

ResumeCompleted(r) ==
    /\ life = "resume" /\ r \notin resumed /\ undelivered(r)
    /\ \A q \in Workflows : phase[q] = "none"
    /\ resumed' = resumed \cup {r}
    /\ IF validate_workflow_runtime_identity
       THEN phase' = [phase EXCEPT ![r] = "commit"] /\ UNCHANGED <<told, stream>>
       ELSE emit_required_workflow_failure(r) /\ UNCHANGED phase
    /\ UNCHANGED <<durable, life, same, task, signalled, commits, shown, turn_vars, host_vars, mcp_vars, starts,
                   faults>>

CommitRestored(r) ==
    /\ life = "resume" /\ phase[r] = "commit" /\ r \notin task
    /\ commit_workflow_turn(r) \/ commit_fails(r)
    /\ UNCHANGED <<run, marker, life, same, task, signalled, commits, shown, resumed, turn_vars, host_vars,
                   mcp_vars, starts>>

\* A task is spawned once per run; a required one opens its stream.
spawn_workflow_execution(r) ==
    /\ register_inner(r)
    /\ stream' = IF required_workflow_host_msg_id(r) /\ r \notin task THEN stream \cup {r} ELSE stream

ResumeRunning(r) ==
    /\ life = "resume" /\ r \notin resumed /\ run[r] = "Running"
    /\ \A q \in Workflows : (undelivered(q) => q \in resumed) /\ (q \notin task => phase[q] = "none")
    /\ resumed' = resumed \cup {r}
    /\ \/ /\ ~validate_workflow_runtime_identity
          /\ \/ stored /\ run' = controller_cancel({r})
             \/ store_fails /\ UNCHANGED run
          /\ IF required_workflow_host_msg_id(r)
             THEN emit_required_workflow_failure(r)
             ELSE told' = told \cup {r} /\ UNCHANGED stream
          /\ UNCHANGED task
       \/ /\ validate_workflow_runtime_identity
          /\ spawn_workflow_execution(r)
          /\ UNCHANGED <<run, told, faults>>
    /\ UNCHANGED <<history, marker, life, same, phase, signalled, commits, shown, turn_vars, host_vars, mcp_vars,
                   starts>>

ResumeDone ==
    /\ life = "resume"
    /\ \A r \in Workflows : (run[r] = "Running" \/ undelivered(r)) => r \in resumed \/ r \in task
    /\ \A r \in Workflows \ task : phase[r] = "none"
    /\ life' = "loop"
    /\ UNCHANGED <<durable, same, task_vars, out_vars, resumed, turn_vars, host_vars, mcp_vars, starts, faults>>

-----------------------------------------------------------------------------
(* A detached task: it settles, or the cancel channel fires first. *)

TaskSettles(r) ==
    /\ r \in task /\ phase[r] = "none" /\ run[r] \in Terminal
    /\ IF required_workflow_host_msg_id(r)
       THEN /\ phase' = [phase EXCEPT ![r] = "wait"]
            /\ commits' = Append(commits, r)
            /\ UNCHANGED <<task, signalled>>
       ELSE finish(r) /\ UNCHANGED <<phase, commits>>
    /\ UNCHANGED <<durable, life, same, out_vars, resumed, turn_vars, host_vars, mcp_vars, starts, faults>>

\* The executor gives up without settling the run.
TaskFails(r) ==
    /\ r \in task /\ phase[r] = "none" /\ run[r] = "Running" /\ store_fails
    /\ IF required_workflow_host_msg_id(r)
       THEN emit_required_workflow_failure(r)
       ELSE told' = told \cup {r} /\ UNCHANGED stream
    /\ finish(r)
    /\ UNCHANGED <<durable, life, same, phase, commits, shown, resumed, turn_vars, host_vars, mcp_vars, starts>>

TaskCancelled(r) ==
    /\ r \in signalled /\ phase[r] = "none"
    /\ \/ stored /\ run' = controller_cancel({r})
       \/ store_fails /\ UNCHANGED run
    /\ told' = told \cup {r} /\ stream' = stream_end(r)
    /\ finish(r)
    /\ UNCHANGED <<history, marker, life, same, phase, commits, shown, resumed, turn_vars, host_vars, mcp_vars,
                   starts>>

\* apply_workflow_turn_commit, in the main loop; the task waits for its result.
ApplyTurnCommit ==
    /\ life = "loop" /\ commits # <<>>
    /\ commits' = Tail(commits)
    /\ LET r == Head(commits) IN
       \/ commit_workflow_turn(r) /\ UNCHANGED <<task, signalled>>
       \/ commit_fails(r) /\ finish(r)
    /\ UNCHANGED <<run, marker, life, same, shown, resumed, turn_vars, host_vars, mcp_vars, starts>>

-----------------------------------------------------------------------------
(* The main loop: one command at a time. *)

\* The turn's future has not resolved yet: commands are read.
waiting == life = "turn" /\ (active \in Required => phase[active] = "none")

\* Mutant: the registry is not consulted.
accepts_any == TRUE

\* A message is turned away while a restored required turn is on its way.
accepts_message == active_required_turn = {}

EngineMessage(m) ==
    /\ life = "loop" /\ accepts_message /\ m \notin Required
    /\ life' = "turn" /\ active' = m /\ stream' = stream \cup {m}
    /\ UNCHANGED <<durable, same, task_vars, shown, told, resumed, stopping, pending, host_vars, mcp_vars,
                   starts, faults>>

RequiredMessage(m) ==
    /\ life = "loop" /\ accepts_message /\ m \in Required
    /\ \/ /\ stored
          /\ run' = start_with_runtime(m)
          /\ life' = "turn" /\ active' = m /\ stream' = stream \cup {m}
          /\ UNCHANGED told
       \/ /\ run[m] = "None" /\ store_fails
          /\ told' = told \cup {m}
          /\ UNCHANGED <<run, life, active, stream>>
    /\ UNCHANGED <<history, marker, same, task_vars, shown, resumed, stopping, pending, host_vars, mcp_vars,
                   starts>>

RunWorkflow(c, r) ==
    /\ life = "loop" /\ answer[c] = "unsent" /\ r \in Detached
    /\ \/ /\ stored
          /\ run' = start_with_runtime(r)
          /\ IF run'[r] = "Running" THEN spawn_workflow_execution(r) ELSE UNCHANGED <<task, stream>>
          /\ emit_command_result(c, TRUE)
       \/ /\ run[r] = "None" /\ store_fails
          /\ emit_command_result(c, FALSE)
          /\ UNCHANGED <<run, task, stream>>
    /\ UNCHANGED <<history, marker, life, same, phase, signalled, commits, shown, told, resumed, turn_vars, config,
                   mcp_vars, starts>>

\* set_config, set_mode and set_intensity between turns.
Configure(c) ==
    /\ life = "loop" /\ answer[c] = "unsent"
    /\ apply_config_command(c)
    /\ UNCHANGED <<durable, life, same, task_vars, out_vars, resumed, turn_vars, mcp_vars, starts, faults>>

\* cancel for a restored required turn.
CancelRestoredTurn(c, m) ==
    /\ life = "loop" /\ answer[c] = "unsent" /\ m \in Required
    /\ cancel({m}) /\ emit_command_result(c, m \in task)
    /\ UNCHANGED <<durable, life, same, phase, task, commits, out_vars, resumed, turn_vars, config, mcp_vars,
                   starts, faults>>

\* cancel_workflow, between turns or during one.
CancelWorkflow(c, r) ==
    /\ life \in {"loop", "turn"} /\ (life = "turn" => waiting) /\ answer[c] = "unsent"
    /\ cancel({r}) /\ emit_command_result(c, r \in task)
    /\ UNCHANGED <<durable, life, same, phase, task, commits, out_vars, resumed, turn_vars, config, mcp_vars,
                   starts, faults>>

\* Stop, end of input, or a broken output stream.
Stop ==
    /\ life = "loop" /\ life' = "drain"
    /\ cancel(task)
    /\ UNCHANGED <<durable, same, phase, task, commits, out_vars, resumed, turn_vars, host_vars, mcp_vars, starts,
                   faults>>

-----------------------------------------------------------------------------
(* A turn: its future, or a control command, whichever is ready. *)

\* Mutant: what was queued is dropped when the turn ends.
drops_pending(base, rejection) ==
    /\ answer' = base /\ UNCHANGED config

pending_control_rejection(terminal, stop) == terminal # "Succeeded" \/ stop

\* apply_pending_controls: every queued command is answered, in order.
apply_pending_controls(base, rejection) ==
    \E taken \in SUBSET ToSet(pending) :
        /\ (rejection => taken = {})
        /\ answer' = [c \in Commands |->
               IF c \in ToSet(pending)
               THEN IF base[c] # "queued" THEN "twice" ELSE IF c \in taken THEN "configured" ELSE "rejected"
               ELSE base[c]]
        /\ config' = config \cup taken

\* The turn is over: the queued commands are settled and the loop goes on or stops.
finish_turn(terminal, stop, base) ==
    /\ apply_pending_controls(base, pending_control_rejection(terminal, stop))
    /\ active' = NoMsg /\ pending' = <<>> /\ stopping' = FALSE
    /\ life' = IF stop THEN "drain" ELSE "loop"
    /\ IF stop THEN cancel(task) ELSE UNCHANGED signalled

EngineSettles ==
    /\ life = "turn" /\ active \notin Required
    /\ stream' = stream_end(active)
    /\ \E terminal \in {"Succeeded", "Failed"} : finish_turn(terminal, FALSE, answer)
    /\ UNCHANGED <<durable, same, phase, task, commits, shown, told, resumed, mcp_vars, starts, faults>>

\* Cancel or Stop aborts the engine's turn.
EngineCancelled(c) ==
    /\ life = "turn" /\ active \notin Required /\ answer[c] = "unsent"
    /\ stream' = stream_end(active)
    /\ finish_turn("Cancelled", FALSE, answered(c, "applied"))
    /\ UNCHANGED <<durable, same, phase, task, commits, shown, told, resumed, mcp_vars, starts, faults>>

EngineStopped ==
    /\ life = "turn" /\ active \notin Required
    /\ stream' = stream_end(active)
    /\ finish_turn("Stopped", TRUE, answer)
    /\ UNCHANGED <<durable, same, phase, task, commits, shown, told, resumed, mcp_vars, starts, faults>>

\* The workflow future resolves: a completed run goes out, another one failed.
WorkflowSettles ==
    /\ waiting /\ active \in Required
    /\ \/ /\ run[active] = "Completed" /\ UNCHANGED faults
          /\ phase' = [phase EXCEPT ![active] = "commit"]
          /\ UNCHANGED <<stream, told, turn_vars, host_vars, life, signalled>>
       \/ /\ \/ run[active] \in {"Failed", "Cancelled"} /\ UNCHANGED faults
             \/ run[active] = "Running" /\ store_fails
          /\ emit_required_workflow_failure(active)
          /\ finish_turn("Failed", stopping, answer)
          /\ UNCHANGED phase
    /\ UNCHANGED <<durable, same, task, commits, shown, resumed, mcp_vars, starts>>

WorkflowCommits ==
    /\ life = "turn" /\ active \in Required /\ phase[active] = "commit"
    /\ \/ commit_workflow_turn(active) /\ UNCHANGED <<turn_vars, host_vars, life, signalled>>
       \/ commit_fails(active) /\ finish_turn("Failed", stopping, answer)
    /\ UNCHANGED <<run, marker, same, task, commits, shown, resumed, mcp_vars, starts>>

WorkflowEmits ==
    /\ life = "turn" /\ active \in Required /\ emit_required_workflow_text(active)
    /\ UNCHANGED <<durable, life, same, task, signalled, commits, told, resumed, turn_vars, host_vars, mcp_vars,
                   starts, faults>>

WorkflowMarks ==
    /\ life = "turn" /\ active \in Required /\ phase[active] = "mark"
    /\ \/ record_required_workflow_turn_emitted(active) /\ finish_turn("Succeeded", stopping, answer)
       \/ marker_fails(active) /\ finish_turn("Failed", stopping, answer)
    /\ phase' = [phase EXCEPT ![active] = "none"]
    /\ UNCHANGED <<run, history, same, task, commits, shown, resumed, mcp_vars, starts>>

\* classify_required_cancellation, from what the controller returned.
classify_required_cancellation(status) ==
    CASE status = "Cancelled" -> "Cancelled"
      [] status = "Completed" -> "Completed"
      [] status = "Failed" -> "Failed"
      [] OTHER -> "PersistenceFailed"

\* Only a run that is Completed keeps the turn waiting for its future.
WorkflowCancelled(c) ==
    /\ waiting /\ active \in Required /\ answer[c] = "unsent"
    /\ \E saved \in BOOLEAN :
         /\ IF saved THEN stored ELSE run[active] = "Running" /\ store_fails
         /\ LET after == IF saved THEN controller_cancel({active}) ELSE run
                outcome == classify_required_cancellation(after[active])
            IN /\ run' = after
               /\ IF outcome = "Completed"
                  THEN emit_command_result(c, FALSE) /\ UNCHANGED <<turn_vars, config, life, stream, told, signalled>>
                  ELSE /\ told' = told \cup {active} /\ stream' = stream_end(active)
                       /\ finish_turn(IF outcome = "Cancelled" THEN "Cancelled" ELSE "Failed", stopping,
                                      answered(c, IF outcome = "Cancelled" THEN "applied" ELSE "rejected"))
    /\ UNCHANGED <<history, marker, same, phase, task, commits, shown, resumed, mcp_vars, starts>>

WorkflowStopped ==
    /\ waiting /\ active \in Required /\ ~stopping
    /\ \E saved \in BOOLEAN :
         /\ IF saved THEN stored ELSE run[active] = "Running" /\ store_fails
         /\ LET after == IF saved THEN controller_cancel({active}) ELSE run
                outcome == classify_required_cancellation(after[active])
            IN /\ run' = after
               /\ IF outcome = "Completed"
                  THEN stopping' = TRUE
                       /\ UNCHANGED <<active, pending, host_vars, life, stream, told, signalled>>
                  ELSE /\ told' = told \cup {active} /\ stream' = stream_end(active)
                       /\ finish_turn(IF outcome = "Cancelled" THEN "Stopped" ELSE "Failed", TRUE, answer)
    /\ UNCHANGED <<history, marker, same, phase, task, commits, shown, resumed, mcp_vars, starts>>

\* Configuration waits for the turn; what cannot wait is refused.
QueueControl(c) ==
    /\ waiting /\ answer[c] = "unsent"
    /\ pending' = Append(pending, c)
    /\ answer' = [answer EXCEPT ![c] = "queued"]
    /\ UNCHANGED <<durable, life, same, task_vars, out_vars, resumed, active, stopping, config, mcp_vars, starts,
                   faults>>

RefuseControl(c) ==
    /\ waiting /\ answer[c] = "unsent"
    /\ emit_command_result(c, FALSE)
    /\ UNCHANGED <<durable, life, same, task_vars, out_vars, resumed, turn_vars, config, mcp_vars, starts, faults>>

-----------------------------------------------------------------------------
(* Shutdown waits for the detached tasks, for a while. *)

\* cancel_and_wait returned: no task is left.
ShutDown ==
    /\ life = "drain" /\ task = {} /\ process_gone
    /\ UNCHANGED <<durable, same, starts, faults>>

\* It timed out: the runs are cancelled and the tasks aborted.
ShutDownTimedOut ==
    /\ life = "drain" /\ task # {}
    /\ \/ stored /\ run' = controller_cancel(task)
       \/ store_fails /\ UNCHANGED run
    /\ process_gone
    /\ UNCHANGED <<history, marker, same, starts>>

Crash ==
    /\ life # "down" /\ process_gone
    /\ UNCHANGED <<durable, same, starts, faults>>

Next ==
    \/ Start \/ PreMessageStop \/ PreMessageEnds \/ ResumeDone \/ ApplyTurnCommit \/ Stop
    \/ EngineSettles \/ EngineStopped \/ WorkflowSettles \/ WorkflowCommits \/ WorkflowEmits \/ WorkflowMarks
    \/ WorkflowStopped \/ ShutDown \/ ShutDownTimedOut \/ Crash
    \/ \E n \in Servers : AddMcpServer(n)
    \/ \E m \in Messages : EngineMessage(m) \/ RequiredMessage(m)
    \/ \E r \in Workflows :
        \/ RunFinishes(r) \/ TurnEmitted(r) \/ TurnMarked(r) \/ ResumeCompleted(r) \/ CommitRestored(r)
        \/ ResumeRunning(r) \/ TaskSettles(r) \/ TaskFails(r) \/ TaskCancelled(r)
    \/ \E c \in Commands :
        \/ Configure(c) \/ EngineCancelled(c) \/ WorkflowCancelled(c) \/ QueueControl(c) \/ RefuseControl(c)
        \/ \E r \in Workflows : RunWorkflow(c, r) \/ CancelWorkflow(c, r)
        \/ \E m \in Messages : CancelRestoredTurn(c, m)

Spec == Init /\ [][Next]_vars

-----------------------------------------------------------------------------
(* Properties. *)

\* A required turn enters the session's history once, however often the
\* process died on the way; its delivery is marked only after it is in the
\* history; and a cancelled run never gets there (engine.commit_workflow_turn,
\* emit_and_record_required_workflow_turn, handle_required_workflow).
TurnKeptOnce ==
    \A r \in Required :
        /\ history[r] <= 1
        /\ r \in marker => history[r] = 1
        /\ run[r] = "Cancelled" => history[r] = 0

\* Once the main loop runs, a completed turn is delivered and marked, on its
\* way, or was reported failed or cancelled in this process: a crash between
\* the completion and the marker loses nothing (resume_restored_workflows).
NoTurnLost ==
    life \in {"loop", "turn"} =>
        \A r \in Required :
            run[r] = "Completed" => r \in marker \/ r \in task \/ active = r \/ r \in told

\* The engine serves one turn: a message is handled only while no restored
\* required turn is being executed or committed (active_required_turn).
OneTurnAtATime == active # NoMsg => active_required_turn = {}

\* An open stream has an owner that will end it: the active turn, a restored
\* turn on its way out, or a registered task.
StreamsOwned ==
    \A m \in stream : m = active \/ (m \in Workflows /\ (m \in task \/ phase[m] # "none"))

\* No command is answered twice, a queued one waits behind an active turn and
\* is settled when the turn ends, and configuration is in force exactly when
\* the host was told so (apply_pending_controls, pending_control_rejection).
CommandsAnswered ==
    /\ \A c \in Commands : answer[c] # "twice"
    /\ {c \in Commands : answer[c] = "queued"} = ToSet(pending)
    /\ active = NoMsg => pending = <<>>
    /\ life \notin {"down", "pre"} => config \subseteq {c \in Commands : answer[c] = "configured"}

\* Required turns reach the host exactly once per history, and one at a time.
TurnsDelivered == TurnKeptOnce /\ NoTurnLost /\ OneTurnAtATime

\* The host is never left waiting for a stream or a command.
HostSeesEnd == StreamsOwned /\ CommandsAnswered

\* A required turn enters the history once and is delivered, or its failure is,
\* however often the process dies; no stream is left open and no command
\* unanswered (json_stream's command loop).
TurnsReported == TurnsDelivered /\ HostSeesEnd
=============================================================================
