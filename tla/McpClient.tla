----------------------------- MODULE McpClient -----------------------------
(***************************************************************************)
(* The MCP client: the manager of solaris-mcp, its three transports, and   *)
(* the bootstrap code that connects a configured server under the effect   *)
(* pipeline.                                                               *)
(*                                                                         *)
(* A request travels in two ways.  The handshake of a server (initialize,  *)
(* tools/list) is made by the connection itself; every later request is    *)
(* made by a caller through the manager, which orders the callers of one   *)
(* server by a gate, counts them in a read-write lock and numbers them.    *)
(* `req' holds both: its domain is the callers and, for their connections, *)
(* the servers.  A request's future can be dropped at every await.         *)
(*                                                                         *)
(* A message is the identifier it carries and the request it answers; what *)
(* a server says about tools and resources is left out.                    *)
(***************************************************************************)
EXTENDS Naturals, Sequences, FiniteSets

CONSTANTS
    Servers,      \* the configured servers
    Kinds,        \* the transports to try: a set of functions from Servers
    Callers,      \* the tasks that use the manager
    Closers,      \* the tasks that shut it down
    NoServer,     \* a caller between requests
    MaxId,        \* the last request number (u64::MAX in the code)
    MaxRetired,   \* MAX_RETIRED_REQUEST_IDS
    MaxFaults     \* bound on failures and on messages nobody asked for

VARIABLES
    kind,      \* the transport of each server
    conn,      \* how far each server's connection has come
    exe,       \* the executable each server's command names: [disk, approved, running]
    effect,    \* what the ledger holds of each connection's effect
    link,      \* the transport of each server
    manager,   \* disabled, disable_signal, next_id, shutdown_complete, and which
               \* requests the signal found inside a transport
    req,       \* the requests, one for each caller and each connection
    closer,    \* how far each shutdown has come
    faults     \* failures so far

vars == <<kind, conn, exe, effect, link, manager, req, closer, faults>>

\* The number of the first request the manager makes; a handshake uses 1 and 2.
FirstId == 10

Ids == {1, 2} \cup FirstId .. MaxId

Requesters == Callers \cup Servers

\* What a server can put on its stream: an answer, a notification or a request
\* of its own, a response nobody asked for (another id, or none), or something
\* that is no message at all.
Unasked == {"notification", "stray", "invalid", "oversized"}

Answer(i) == [what |-> "response", id |-> i]

Message(w) == [what |-> w, id |-> 0]

NoLink == [open |-> FALSE, up |-> FALSE, poisoned |-> FALSE, pending |-> {},
           retired |-> << >>, asked |-> {}, stream |-> << >>, blamed |-> FALSE,
           stuck |-> FALSE]

Init ==
    /\ kind \in Kinds
    /\ conn = [s \in Servers |-> "new"]
    /\ exe = [s \in Servers |-> [disk |-> 0, approved |-> 0, running |-> 0]]
    /\ effect = [s \in Servers |-> "none"]
    /\ link = [s \in Servers |-> NoLink]
    /\ manager = [disabled |-> FALSE, signal |-> FALSE, complete |-> FALSE, next_id |-> FirstId,
                  inside |-> {}]
    /\ req = [x \in Requesters |-> [pc |-> "idle", server |-> IF x \in Servers THEN x ELSE NoServer,
                                    id |-> 0, result |-> "none"]]
    /\ closer = [k \in Closers |-> [pc |-> "idle", closed |-> {}, late |-> FALSE]]
    /\ faults = 0

MayFail == faults < MaxFaults

Committed(s) == conn[s] = "committed"

Serving == \A s \in Servers : conn[s] \in {"committed", "failed"}

-----------------------------------------------------------------------------
(* The transports.                                                         *)

\* PendingState::retire: remember an id whose request is over, forgetting the
\* oldest above the limit.
retire(l, i) ==
    IF \E n \in DOMAIN l.retired : l.retired[n] = i THEN l
    ELSE LET r == Append(l.retired, i)
         IN [l EXCEPT !.retired = IF Len(r) > MaxRetired THEN Tail(r) ELSE r]

is_retired(l, i) == \E n \in DOMAIN l.retired : l.retired[n] = i

\* PendingState::drain_and_retire; one request at a time is pending on a link.
drain_and_retire(l) ==
    IF l.pending = {} THEN l
    ELSE [retire(l, CHOOSE i \in l.pending : TRUE) EXCEPT !.pending = {}]

\* register_pending_response and register_request_id: an id in use, or used, is
\* a duplicate.
register_refused(s, i) ==
    \/ i \in link[s].pending
    \/ kind[s] = "Sse" /\ is_retired(link[s], i)

\* Drop for PendingRegistration and InFlightRequestId: the id of a request that
\* is given up stays known on an SSE link.  A stdio stream given up between the
\* request and its answer stays poisoned.
drop_registration(s, i) ==
    LET l == link[s] IN
    IF i \notin l.pending THEN l
    ELSE IF kind[s] = "Sse" THEN [retire(l, i) EXCEPT !.pending = @ \ {i}]
    ELSE [l EXCEPT !.pending = @ \ {i}, !.stream = << >>]

\* Mutant: a response is let through whatever its id.
accepts_any_id(i, m) == TRUE

\* validate_response_id
validate_response_id(i, m) == m.id = i

\* parse_jsonrpc_response_message: a message with a method is not a response.
is_response(m) == m.what \in {"response", "stray"}

End(x, why) == req' = [req EXCEPT ![x] = [@ EXCEPT !.pc = "done", !.result = why]]

\* Whether a stdio stream may carry a request.
usable(s) == ~link[s].poisoned

\* StdioTransport::request up to the write: refuse a poisoned stream, poison it,
\* write.  A write to a server that is gone fails and leaves the poison.
StdioSend(x, s) ==
    LET i == req[x].id IN
    IF ~usable(s) THEN End(x, "unavailable") /\ UNCHANGED link
    ELSE /\ link' = [link EXCEPT ![s].poisoned = TRUE,
                                 ![s].asked = IF link[s].up THEN @ \cup {i} ELSE @]
         /\ IF link[s].up THEN req' = [req EXCEPT ![x].pc = "waiting"] ELSE End(x, "failed")

\* SseTransport::request and StreamableHttpTransport::request up to the POST:
\* register the id, then post.
HttpSend(x, s, posted) ==
    LET i == req[x].id IN
    IF register_refused(s, i) THEN End(x, "failed") /\ UNCHANGED link
    ELSE IF posted
    THEN /\ link' = [link EXCEPT ![s].pending = @ \cup {i}, ![s].asked = @ \cup {i}]
         /\ req' = [req EXCEPT ![x].pc = "waiting"]
    ELSE /\ link' = [link EXCEPT ![s] = IF kind[s] = "Sse" THEN retire(@, i) ELSE @]
         /\ End(x, "failed")

\* transport.request, to its first await.
Send(x) ==
    LET s == req[x].server IN
    \E posted \in BOOLEAN :
        /\ posted \/ (MayFail /\ kind[s] # "Stdio")
        /\ faults' = IF posted THEN faults ELSE faults + 1
        /\ IF kind[s] = "Stdio" THEN StdioSend(x, s) ELSE HttpSend(x, s, posted /\ link[s].up)

\* A request given up: by the select on the disable signal, by the startup
\* timeout, or because its caller was dropped.
GiveUp(x, why) ==
    /\ link' = [link EXCEPT ![req[x].server] = drop_registration(req[x].server, req[x].id)]
    /\ End(x, why)

\* The server answers a request it has received, in any order and however late.
\* The answer of a request over plain HTTP is the response of its own POST.
ServerAnswers(s) ==
    /\ link[s].up
    /\ \E i \in link[s].asked :
         link' = [link EXCEPT ![s].asked = @ \ {i},
                              ![s].stream = IF kind[s] = "StreamableHttp" /\ i \notin link[s].pending
                                            THEN @ ELSE Append(@, Answer(i))]
    /\ UNCHANGED <<kind, conn, exe, effect, manager, req, closer, faults>>

\* The server sends what nobody asked for, or goes away.
ServerMisbehaves(s) ==
    /\ link[s].up /\ MayFail
    /\ faults' = faults + 1
    /\ \/ \E w \in Unasked :
            /\ w = "oversized" => kind[s] = "Stdio"
            /\ kind[s] # "StreamableHttp" \/ link[s].pending # {}
            /\ link' = [link EXCEPT ![s].stream = Append(@, Message(w)),
                                    ![s].blamed = @ \/ w # "notification"]
       \/ link' = [link EXCEPT ![s].up = FALSE, ![s].asked = {}]
    /\ UNCHANGED <<kind, conn, exe, effect, manager, req, closer>>

\* StdioTransport::read_response and the rest of request: skip what is no
\* response, kill the child on a frame over the limit, and clear the poison only
\* when the answer is the expected one.
ReadFrame(x) ==
    LET s == req[x].server
        m == Head(link[s].stream)
        rest == [link[s] EXCEPT !.stream = Tail(@)]
    IN
    /\ req[x].pc = "waiting" /\ kind[s] = "Stdio"
    /\ IF link[s].stream = << >>
       THEN ~link[s].up /\ End(x, "failed") /\ UNCHANGED link
       ELSE /\ link' = [link EXCEPT ![s] =
                  IF m.what = "oversized" THEN [rest EXCEPT !.up = FALSE, !.open = FALSE, !.asked = {}]
                  ELSE IF is_response(m) /\ validate_response_id(req[x].id, m)
                  THEN [rest EXCEPT !.poisoned = FALSE] ELSE rest]
            /\ CASE m.what = "notification" -> UNCHANGED req
                 [] m.what \in {"invalid", "oversized"} -> End(x, "failed")
                 [] OTHER -> End(x, IF ~validate_response_id(req[x].id, m) THEN "mismatch"
                                    ELSE IF m.id = req[x].id THEN "answered" ELSE "crossed")
    /\ UNCHANGED <<kind, conn, exe, effect, manager, closer, faults>>

\* The requests pending on a link, ended with an error.
Reject(s, why) ==
    req' = [x \in Requesters |->
              IF req[x].pc = "waiting" /\ req[x].server = s /\ req[x].id \in link[s].pending
              THEN [req[x] EXCEPT !.pc = "done", !.result = why] ELSE req[x]]

\* dispatch_response: deliver to the request with the id; ignore an id that is
\* retired and anything when nothing is pending; otherwise end what is pending.
dispatch_response(s, m, rest) ==
    IF m.id \in rest.pending
    THEN /\ link' = [link EXCEPT ![s] = [retire(rest, m.id) EXCEPT !.pending = @ \ {m.id}]]
         /\ Reject(s, "answered")
    ELSE IF is_retired(rest, m.id) \/ rest.pending = {}
    THEN link' = [link EXCEPT ![s] = rest] /\ UNCHANGED req
    ELSE link' = [link EXCEPT ![s] = drain_and_retire(rest)] /\ Reject(s, "mismatch")

\* The listener task of an SSE link takes the next event (dispatch_sse_event);
\* at the end of the stream it ends what is pending.
Listen(s) ==
    LET m == Head(link[s].stream)
        rest == [link[s] EXCEPT !.stream = Tail(@)]
    IN
    /\ kind[s] = "Sse" /\ link[s].open
    /\ IF link[s].stream = << >>
       THEN /\ ~link[s].up
            /\ link' = [link EXCEPT ![s] = [drain_and_retire(@) EXCEPT !.open = FALSE]]
            /\ Reject(s, "failed")
       ELSE CASE m.what = "notification" -> link' = [link EXCEPT ![s] = rest] /\ UNCHANGED req
              [] m.what = "invalid" -> link' = [link EXCEPT ![s] = drain_and_retire(rest)] /\ Reject(s, "failed")
              [] OTHER -> dispatch_response(s, m, rest)
    /\ UNCHANGED <<kind, conn, exe, effect, manager, closer, faults>>

\* StreamableHttpTransport::parse_response: the body of the POST's response, one
\* message, or a stream of events of which the first response counts and the
\* others are passed over (parse_sse_response).
ReadBody(x) ==
    LET s == req[x].server
        m == Head(link[s].stream)
    IN
    /\ req[x].pc = "waiting" /\ kind[s] = "StreamableHttp"
    /\ IF link[s].stream = << >>
       THEN ~link[s].up /\ GiveUp(x, "failed")
       ELSE IF is_response(m)
       THEN GiveUp(x, IF ~validate_response_id(req[x].id, m) THEN "mismatch"
                      ELSE IF m.id = req[x].id THEN "answered" ELSE "crossed")
       ELSE \/ GiveUp(x, "failed")
            \/ link' = [link EXCEPT ![s].stream = Tail(@)] /\ UNCHANGED req
    /\ UNCHANGED <<kind, conn, exe, effect, manager, closer, faults>>

-----------------------------------------------------------------------------
(* Connecting a server.                                                    *)

\* A connection attempt ends without a server: its transport is dropped, which
\* kills a stdio child (kill_on_drop); the listener of an SSE link is a task of
\* its own and stays until the server ends the stream.
dropped(s) ==
    [drop_registration(s, req[s].id) EXCEPT !.open = @ /\ kind[s] = "Sse", !.up = @ /\ kind[s] # "Stdio"]

Fail(s, outcome) ==
    /\ conn' = [conn EXCEPT ![s] = "failed"]
    /\ effect' = [effect EXCEPT ![s] = outcome]
    /\ link' = [link EXCEPT ![s] = dropped(s)]
    /\ req' = [req EXCEPT ![s].pc = "done"]

\* pin_mcp_server_config and inspect_mcp_executable: the executable whose
\* identity the permission request describes.
Inspect(s) ==
    /\ conn[s] = "new"
    /\ exe' = [exe EXCEPT ![s].approved = exe[s].disk]
    /\ conn' = [conn EXCEPT ![s] = "inspected"]
    /\ UNCHANGED <<kind, effect, link, manager, req, closer, faults>>

\* The file behind the command is replaced while the server is being connected.
ReplaceExecutable(s) ==
    /\ conn[s] \in {"inspected", "prepared"} /\ kind[s] = "Stdio" /\ MayFail
    /\ exe' = [exe EXCEPT ![s].disk = 1]
    /\ faults' = faults + 1
    /\ UNCHANGED <<kind, conn, effect, link, manager, req, closer>>

\* Mutant: the file as it is now, whatever was approved.
pins_anything(s) == TRUE

\* pin_executable accepts the file only with the identity that was approved.
pins(s) == exe[s].disk = exe[s].approved

\* prepare_mcp_server_authorized: refuse (recovery, permission, revalidation),
\* or pin the executable and record the effect's intent.
Prepare(s) ==
    /\ conn[s] = "inspected"
    /\ \/ /\ MayFail /\ faults' = faults + 1
          /\ conn' = [conn EXCEPT ![s] = "failed"]
          /\ UNCHANGED <<exe, effect>>
       \/ /\ kind[s] = "Stdio" /\ ~pins(s)
          /\ conn' = [conn EXCEPT ![s] = "failed"]
          /\ UNCHANGED <<exe, effect, faults>>
       \/ /\ kind[s] = "Stdio" => pins(s)
          /\ exe' = [exe EXCEPT ![s].running = exe[s].disk]
          /\ effect' = [effect EXCEPT ![s] = "intent"]
          /\ conn' = [conn EXCEPT ![s] = "prepared"]
          /\ UNCHANGED faults
    /\ UNCHANGED <<kind, link, manager, req, closer>>

\* connect_server opens the transport (spawn, the SSE stream up to its endpoint
\* event, or nothing for HTTP) and initialize_server begins the handshake.
Open(s) ==
    /\ conn[s] = "prepared"
    /\ conn' = [conn EXCEPT ![s] = "handshake"]
    /\ link' = [link EXCEPT ![s] = [NoLink EXCEPT !.open = TRUE, !.up = TRUE]]
    /\ req' = [req EXCEPT ![s] = [@ EXCEPT !.pc = "enter", !.id = 1]]
    /\ UNCHANGED <<kind, exe, effect, manager, closer, faults>>

HandshakeSend(s) ==
    /\ conn[s] = "handshake" /\ req[s].pc = "enter"
    /\ Send(s)
    /\ UNCHANGED <<kind, conn, exe, effect, manager, closer>>

\* The initialize answer is followed by the notification, which a stdio stream
\* carries only unpoisoned, and by tools/list.
HandshakeNext(s) ==
    /\ conn[s] = "handshake" /\ req[s].pc = "done" /\ req[s].result = "answered"
    /\ \/ /\ req[s].id = 1
          /\ req' = [req EXCEPT ![s] = [@ EXCEPT !.pc = "enter", !.id = 2, !.result = "none"]]
          /\ UNCHANGED conn
       \/ /\ req[s].id = 2
          /\ conn' = [conn EXCEPT ![s] = "ready"]
          /\ UNCHANGED req
    /\ UNCHANGED <<kind, exe, effect, link, manager, closer, faults>>

\* connect_one_authorized_inner, the end: the outcome is recorded before the
\* server is handed over; a server whose outcome cannot be recorded is closed.
Complete(s) ==
    /\ conn[s] = "ready"
    /\ \/ /\ effect' = [effect EXCEPT ![s] = "ok"]
          /\ conn' = [conn EXCEPT ![s] = "pending"]
          /\ UNCHANGED <<link, req, faults>>
       \/ /\ MayFail /\ faults' = faults + 1
          /\ conn' = [conn EXCEPT ![s] = "failed"]
          /\ effect' = [effect EXCEPT ![s] = "unsaved"]
          /\ link' = [link EXCEPT ![s] = [@ EXCEPT !.open = FALSE, !.up = @ /\ kind[s] # "Stdio"]]
          /\ UNCHANGED req
    /\ UNCHANGED <<kind, exe, manager, closer>>

\* A handshake that failed, or that the startup timeout ends: the outcome
\* recorded is an error, if it can be recorded.
ConnectFails(s) ==
    /\ conn[s] = "handshake"
    /\ \/ req[s].pc = "done" /\ req[s].result # "answered" /\ UNCHANGED faults
       \/ MayFail /\ faults' = faults + 1
    /\ \E outcome \in {"error", "unsaved"} : Fail(s, outcome)
    /\ UNCHANGED <<kind, exe, manager, closer>>

\* The bootstrap is dropped with the connection half made: the guard's Drop
\* records the outcome as unknown (EffectOutcomeGuard).
ConnectDropped(s) ==
    /\ conn[s] \in {"prepared", "handshake", "ready"} /\ MayFail
    /\ faults' = faults + 1
    /\ Fail(s, "unknown")
    /\ UNCHANGED <<kind, exe, manager, closer>>

\* connect_mcp: once every attempt has ended, commit_pending each server.
CommitPending ==
    /\ ~Serving
    /\ \A s \in Servers : conn[s] \in {"pending", "failed"}
    /\ conn' = [s \in Servers |-> IF conn[s] = "pending" THEN "committed" ELSE conn[s]]
    /\ UNCHANGED <<kind, exe, effect, link, manager, req, closer, faults>>

-----------------------------------------------------------------------------
(* Requests through the manager.                                           *)

\* The callers that hold the gate of a server, those whose request is in its
\* transport, and those that hold the lifecycle lock for reading.
Gated(s) == {x \in Callers : req[x].server = s /\ req[x].pc \in {"gated", "admitted", "enter", "send", "waiting"}}

Inside == {x \in Callers : req[x].pc \in {"send", "waiting"}}

Readers == {x \in Callers : req[x].pc \in {"admitted", "enter"}} \cup Inside

\* A writer that waits keeps new readers out (tokio's RwLock is fair).
WriterWaits == \E k \in Closers : closer[k].pc = "draining"

\* request_server up to the gate.
Request(x, s) ==
    /\ Serving /\ Committed(s)
    /\ req[x].pc \in {"idle", "done"} /\ ~manager.disabled
    /\ req' = [req EXCEPT ![x] = [pc |-> "gate", server |-> s, id |-> 0, result |-> "none"]]
    /\ UNCHANGED <<kind, conn, exe, effect, link, manager, closer, faults>>

TakeGate(x) ==
    /\ req[x].pc = "gate" /\ Gated(req[x].server) = {}
    /\ req' = [req EXCEPT ![x].pc = "gated"]
    /\ UNCHANGED <<kind, conn, exe, effect, link, manager, closer, faults>>

TakeLifecycle(x) ==
    /\ req[x].pc = "gated" /\ ~WriterWaits
    /\ req' = [req EXCEPT ![x].pc = "admitted"]
    /\ UNCHANGED <<kind, conn, exe, effect, link, manager, closer, faults>>

\* ensure_enabled and allocate_request_id, which never uses the last number.
Allocate(x) ==
    /\ req[x].pc = "admitted"
    /\ IF manager.disabled \/ manager.next_id = MaxId
       THEN End(x, IF manager.disabled THEN "disabled" ELSE "failed") /\ UNCHANGED manager
       ELSE /\ req' = [req EXCEPT ![x] = [@ EXCEPT !.pc = "enter", !.id = manager.next_id]]
            /\ manager' = [manager EXCEPT !.next_id = @ + 1]
    /\ UNCHANGED <<kind, conn, exe, effect, link, closer, faults>>

\* Mutant: the select has no branch for the signal.
stops_never(x) == FALSE

\* The biased select looks at the disable signal before it polls the transport.
stops_for_disable(x) == manager.signal

Enter(x) ==
    /\ req[x].pc = "enter" /\ x \in Callers
    /\ IF stops_for_disable(x) THEN End(x, "disabled") ELSE req' = [req EXCEPT ![x].pc = "send"]
    /\ UNCHANGED <<kind, conn, exe, effect, link, manager, closer, faults>>

\* The transport is polled after the look at the signal, which another thread
\* may set in between.
EnterSend(x) ==
    /\ req[x].pc = "send"
    /\ Send(x)
    /\ UNCHANGED <<kind, conn, exe, effect, manager, closer>>

\* The select's other branch wins at an await of the transport.
Disabled(x) ==
    /\ x \in Inside /\ stops_for_disable(x)
    /\ GiveUp(x, "disabled")
    /\ UNCHANGED <<kind, conn, exe, effect, manager, closer, faults>>

\* The caller's future is dropped (its turn is cancelled).
Cancel(x) ==
    /\ req[x].pc \in {"gate", "gated", "send", "waiting"} /\ MayFail
    /\ faults' = faults + 1
    /\ GiveUp(x, "cancelled")
    /\ UNCHANGED <<kind, conn, exe, effect, manager, closer>>

-----------------------------------------------------------------------------
(* Shutting down.                                                          *)

\* begin_disable: the flag, then the signal.
Disable(k) ==
    /\ Serving /\ closer[k].pc = "idle"
    /\ manager' = [manager EXCEPT !.disabled = TRUE]
    /\ closer' = [closer EXCEPT ![k].pc = "signal"]
    /\ UNCHANGED <<kind, conn, exe, effect, link, req, faults>>

Signal(k) ==
    /\ closer[k].pc = "signal"
    /\ manager' = IF manager.signal THEN manager
                  ELSE [manager EXCEPT !.signal = TRUE, !.inside = {req[x].id : x \in Inside}]
    /\ closer' = [closer EXCEPT ![k].pc = "lock"]
    /\ UNCHANGED <<kind, conn, exe, effect, link, req, faults>>

\* shutdown_with_timeout takes the shutdown lock, or times out on it; a shutdown
\* that finds the work done returns.
LockShutdown(k) ==
    /\ closer[k].pc = "lock"
    /\ \/ /\ \A j \in Closers : closer[j].pc \notin {"closing", "draining"}
          /\ closer' = [closer EXCEPT ![k].pc = IF manager.complete THEN "returned" ELSE "closing"]
          /\ UNCHANGED faults
       \/ /\ \E j \in Closers : closer[j].pc \in {"closing", "draining"}
          /\ MayFail /\ faults' = faults + 1
          /\ closer' = [closer EXCEPT ![k].pc = "timed_out"]
    /\ UNCHANGED <<kind, conn, exe, effect, link, manager, req>>

\* The close of a transport: a stdio child is shut down, an SSE listener aborted
\* and its pending requests ended, an HTTP transport has nothing to close.
closed_link(s) ==
    [(IF kind[s] = "Sse" THEN drain_and_retire(link[s]) ELSE link[s])
        EXCEPT !.open = FALSE, !.up = @ /\ kind[s] # "Stdio",
               !.asked = IF kind[s] = "Stdio" THEN {} ELSE @]

\* A close succeeds also when the child could not be shut down and is still
\* there (StdioTransport::close).
CloseTransport(k, s) ==
    /\ closer[k].pc = "closing" /\ Committed(s) /\ s \notin closer[k].closed
    /\ \/ /\ link' = [link EXCEPT ![s] = closed_link(s)]
          /\ IF kind[s] = "Sse" THEN Reject(s, "failed") ELSE UNCHANGED req
          /\ UNCHANGED faults
       \/ /\ kind[s] = "Stdio" /\ link[s].up /\ MayFail
          /\ link' = [link EXCEPT ![s].stuck = TRUE]
          /\ faults' = faults + 1
          /\ UNCHANGED req
    /\ closer' = [closer EXCEPT ![k].closed = @ \cup {s}]
    /\ UNCHANGED <<kind, conn, exe, effect, manager>>

\* Every close has returned, or the deadline passes.
Closed(k) ==
    /\ closer[k].pc = "closing"
    /\ \/ (\A s \in Servers : Committed(s) => s \in closer[k].closed) /\ UNCHANGED faults
          /\ closer' = [closer EXCEPT ![k].pc = "draining"]
       \/ MayFail /\ faults' = faults + 1
          /\ closer' = [closer EXCEPT ![k] = [@ EXCEPT !.pc = "draining", !.late = TRUE]]
    /\ UNCHANGED <<kind, conn, exe, effect, link, manager, req>>

\* Mutant: the requests inside a transport are not waited for.
drained_at_once == TRUE

\* drain_requests_until: the write lock, once no request is in the transport.
drained == Readers = {}

Drain(k) ==
    /\ closer[k].pc = "draining"
    /\ \/ /\ drained
          /\ manager' = [manager EXCEPT !.complete = @ \/ ~closer[k].late]
          /\ closer' = [closer EXCEPT ![k].pc = IF closer[k].late THEN "timed_out" ELSE "returned"]
          /\ UNCHANGED faults
       \/ /\ MayFail /\ faults' = faults + 1
          /\ closer' = [closer EXCEPT ![k].pc = "timed_out"]
          /\ UNCHANGED manager
    /\ UNCHANGED <<kind, conn, exe, effect, link, req>>

ClientStep ==
    \/ \E x \in Requesters : ReadFrame(x) \/ ReadBody(x)
    \/ \E s \in Servers : Listen(s)
    \/ \E x \in Callers : TakeGate(x) \/ TakeLifecycle(x) \/ 
         Allocate(x) \/ Enter(x) \/ EnterSend(x) \/ Disabled(x)

Next ==
    \/ ClientStep
    \/ \E s \in Servers :
         \/ Inspect(s) \/ ReplaceExecutable(s) \/ Prepare(s) \/ Open(s) \/ HandshakeSend(s)
         \/ HandshakeNext(s) \/ Complete(s) \/ ConnectFails(s) \/ ConnectDropped(s)
         \/ ServerAnswers(s) \/ ServerMisbehaves(s)
    \/ CommitPending
    \/ \E x \in Callers : Cancel(x) \/ \E s \in Servers : Request(x, s)
    \/ \E k \in Closers :
         \/ Disable(k) \/ Signal(k) \/ LockShutdown(k) \/ Closed(k) \/ Drain(k)
         \/ \E s \in Servers : CloseTransport(k, s)

Spec == Init /\ [][Next]_vars

-----------------------------------------------------------------------------
(* Properties.                                                             *)

TypeOK ==
    /\ kind \in [Servers -> {"Stdio", "Sse", "StreamableHttp"}]
    /\ conn \in [Servers -> {"new", "inspected", "prepared", "handshake", "ready", "pending",
                            "committed", "failed"}]
    /\ effect \in [Servers -> {"none", "intent", "ok", "error", "unknown", "unsaved"}]
    /\ \A s \in Servers :
         /\ link[s].pending \subseteq Ids /\ Cardinality(link[s].pending) <= 1
         /\ Len(link[s].retired) <= MaxRetired
    /\ manager.next_id \in FirstId .. MaxId
    /\ \A x \in Requesters : req[x].id \in Ids \cup {0}
    /\ faults \in 0 .. MaxFaults

\* A request that returns a response returns the answer to that very request,
\* whatever was cancelled before it and however late the answers come
\* (validate_response_id, the poisoned stdio stream, the retired SSE ids).  A
\* live request is failed for a response that is not its own only when the
\* server sent something nobody asked for, or when an SSE link has retired as
\* many ids as it remembers.
AnswersItsOwn ==
    \A x \in Requesters :
        /\ req[x].result # "crossed"
        /\ req[x].result = "mismatch" =>
             \/ link[req[x].server].blamed
             \/ Len(link[req[x].server].retired) = MaxRetired

\* Once the disable signal is out only a request that was in its transport by
\* then, past the last look at the signal, still reaches a server, however long
\* the callers waited for the gate, the lock and the number before
\* (request_server).  A shutdown that reports completion leaves no request
\* inside a transport, nothing reaches a server after it, and no transport is
\* open but that of a child that could not be shut down, whichever of the
\* concurrent shutdowns did the work.
DisableIsFinal ==
    /\ manager.signal =>
         \A s \in Servers : link'[s].asked \subseteq link[s].asked \cup manager.inside
    /\ manager.complete => \A s \in Servers : link'[s].asked \subseteq link[s].asked
    /\ (\E k \in Closers : closer'[k].pc = "returned") =>
         /\ \A x \in Callers : req'[x].pc \notin {"send", "waiting"}
         /\ \A s \in Servers :
              conn'[s] = "committed" => ~link'[s].open \/ link'[s].stuck

DisableHolds == [][DisableIsFinal]_vars

\* A server is used only after its connection was recorded as made, and the
\* child it runs is the executable that was approved; an attempt that ended
\* otherwise has an outcome other than a bare intent and left no child process
\* (connect_one_authorized_inner, EffectOutcomeGuard, pin_executable).
ConnectionsAccounted ==
    \A s \in Servers :
        /\ Committed(s) => effect[s] = "ok"
        /\ (kind[s] = "Stdio" /\ link[s].open) => exe[s].running = exe[s].approved
        /\ conn[s] = "failed" => effect[s] # "intent" /\ ~(kind[s] = "Stdio" /\ link[s].open)
=============================================================================
