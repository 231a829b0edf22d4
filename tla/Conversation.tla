----------------------------- MODULE Conversation -----------------------------
(* A durable, cold-resumable conversation of a parent with one child Agent:   *)
(* the service that opens it, runs its turns and closes it                    *)
(* (solaris-agent, spawner/conversation*.rs) over the conversation tables     *)
(* (session/store_conversation*.rs) and the Run's Ledger.                     *)
(*                                                                            *)
(* Every service is one process with an identity of its own.  open and        *)
(* run_turn hold the conversation's lock of their process; close takes it     *)
(* only after it has claimed the close, so it meets a live turn.  Leases and  *)
(* claims carry expiry times: time passes between any two steps, so whether   *)
(* one has expired is a choice, except for the session lease, which a live    *)
(* engine renews.                                                             *)
EXTENDS Integers, FiniteSets

CONSTANTS Services, Turns, NoOne,
          MaxClaims    \* bound on claims of one turn

VARIABLES conv,    \* the row of agent_conversations
          rows,    \* turn -> its row of agent_conversation_turns
          log,     \* the conversation's Ledger records
          agent,   \* the child's lifecycle state
          lease,   \* the engine that holds the child's session
          op,      \* service -> open or run_turn, under the lock
          cl,      \* service -> close
          ran      \* turn -> Provider executions

vars == <<conv, rows, log, agent, lease, op, cl, ran>>

NoConversation == [state |-> "none", owner |-> NoOne, epoch |-> 0, next_seq |-> 0,
                   next_to_run |-> 0, active |-> NoOne, terminal |-> "none",
                   failed |-> FALSE]
NoTurn == [state |-> "none", seq |-> 0, owner |-> NoOne, rev |-> 0, out |-> "none"]
NoOp == [pc |-> "idle", turn |-> NoOne, key |-> 0, out |-> "none"]
NoClose == [pc |-> "idle", seen |-> [t \in Turns |-> "none"], ran |-> FALSE]

\* What a turn may end with: status and failure class of AgentTurnOutcome.
Outcomes == {"completed", "retryable", "failed", "cancelled", "unknown"}
is_terminal(state) == state \in Outcomes

\* A retryable failure leaves the conversation usable, any other blocks it.
blocks_following_turns(out) == out \notin {"completed", "retryable"}

Init ==
  /\ conv = NoConversation
  /\ rows = [t \in Turns |-> NoTurn]
  /\ log = {}
  /\ agent = "none" /\ lease = NoOne
  /\ op = [s \in Services |-> NoOp]
  /\ cl = [s \in Services |-> NoClose]
  /\ ran = [t \in Turns |-> 0]

-----------------------------------------------------------------------------
Open == [type |-> "open"]
Intent(t) == [type |-> "intent", turn |-> t]
Outcome(t, out) == [type |-> "outcome", turn |-> t, out |-> out]
Close(state) == [type |-> "close", state |-> state]

find_open == Open \in log
find_turn_intent(t) == Intent(t) \in log
find_turn_outcome(t) == {r \in log : r.type = "outcome" /\ r.turn = t}
find_close == {r \in log : r.type = "close"}

\* append_exact: under the Run's mutation lock, a record of the same identity
\* is looked for first; different content under it is refused.
append_exact(record, same) ==
  /\ same \subseteq {record}
  /\ log' = log \cup {record}

has_unresolved_turn ==
  \E t \in Turns : find_turn_intent(t) /\ find_turn_outcome(t) = {}

up(s) == op[s].pc # "dead"
idle(s) == op[s].pc = "idle" /\ cl[s].pc \in {"idle", "waiting"}
at(s, pc) == op[s].pc = pc
go(s, pc) == op' = [op EXCEPT ![s].pc = pc]
done(s) == op' = [op EXCEPT ![s] = NoOp]

\* The session is taken when nobody alive holds it.
acquirable == lease \in {NoOne} \cup {s \in Services : ~up(s)}

-----------------------------------------------------------------------------
\* open: claim the row, or find what is there.

\* A row that is opening is renewed by its owner, taken over once the lease has
\* expired, or found busy; the Ledger's open record then settles it.
recover_conversation_open ==
  conv' = IF conv.state = "opening"
          THEN [conv EXCEPT !.state = "open", !.owner = NoOne] ELSE conv

claim_conversation_open(s) ==
  /\ idle(s)
  /\ \/ /\ conv.state = "none"
        /\ conv' = [NoConversation EXCEPT !.state = "opening", !.owner = s, !.epoch = 1]
        /\ op' = [op EXCEPT ![s].pc = "claimed", ![s].key = 1]
     \/ /\ conv.state = "opening" /\ conv.owner = s
        /\ op' = [op EXCEPT ![s].pc = "claimed", ![s].key = conv.epoch]
        /\ UNCHANGED conv
     \/ /\ conv.state = "opening" /\ conv.owner # s
        /\ conv.epoch < Cardinality(Services)
        /\ conv' = [conv EXCEPT !.owner = s, !.epoch = @ + 1]
        /\ op' = [op EXCEPT ![s].pc = "claimed", ![s].key = conv.epoch + 1]
     \/ /\ conv.state = "opening" /\ conv.owner # s /\ find_open
        /\ recover_conversation_open
        /\ go(s, "opened")
     \/ /\ conv.state = "open"
        /\ go(s, "opened")
        /\ UNCHANGED conv
  /\ UNCHANGED <<rows, log, agent, lease, cl, ran>>

\* An open record in the Ledger supersedes the claim: the crash came after it.
open_existing(s) ==
  /\ at(s, "claimed") /\ find_open
  /\ conv.state \in {"opening", "open"}
  /\ recover_conversation_open
  /\ go(s, "opened")
  /\ UNCHANGED <<rows, log, agent, lease, cl, ran>>

\* The child is reserved and spawned; the same key always gives the same child.
spawn_child(s) ==
  /\ at(s, "claimed") /\ ~find_open
  /\ agent' = IF agent = "none" THEN "reserved" ELSE agent
  /\ go(s, "spawned")
  /\ UNCHANGED <<conv, rows, log, lease, cl, ran>>

\* A definite failure to spawn, or to attach the child to its parent's
\* collaboration, gives the claim up if it is still this one.
abandon_conversation_open(s) ==
  /\ op[s].pc \in {"claimed", "spawned"}
  /\ conv' = IF conv.state = "opening" /\ conv.owner = s /\ conv.epoch = op[s].key
             THEN NoConversation ELSE conv
  /\ agent' = IF at(s, "spawned") /\ agent = "reserved" THEN "none" ELSE agent
  /\ done(s)
  /\ UNCHANGED <<rows, log, lease, cl, ran>>

record_open(s) ==
  /\ at(s, "spawned")
  /\ append_exact(Open, {})
  /\ go(s, "recorded")
  /\ UNCHANGED <<conv, rows, agent, lease, cl, ran>>

\* The heartbeat is stopped, then the claim becomes an open conversation; a
\* claim that was taken over ends the call, the record stays.
finish_open(s) ==
  /\ at(s, "recorded")
  /\ \/ /\ conv.state = "opening" /\ conv.owner = s /\ conv.epoch = op[s].key
        /\ conv' = [conv EXCEPT !.state = "open", !.owner = NoOne]
        /\ go(s, "opened")
     \/ /\ conv.state = "open"
        /\ go(s, "opened")
        /\ UNCHANGED conv
     \/ /\ \/ conv.state = "opening" /\ <<conv.owner, conv.epoch>> # <<s, op[s].key>>
           \/ conv.state \notin {"opening", "open"}
        /\ done(s)
        /\ UNCHANGED conv
  /\ UNCHANGED <<rows, log, agent, lease, cl, ran>>

\* The child's reservation is committed and the child becomes idle, unless it
\* has ended.
ensure_open_projection(s) ==
  /\ at(s, "opened")
  /\ agent' = IF agent \in {"none", "reserved"} THEN "idle" ELSE agent
  /\ done(s)
  /\ UNCHANGED <<conv, rows, log, lease, cl, ran>>

-----------------------------------------------------------------------------
\* run_turn: queue it, wait for its place, claim it, run it.
validate_handle == find_open

enqueue_conversation_turn(s, t) ==
  /\ idle(s) /\ validate_handle
  /\ \/ /\ rows[t].state # "none"
        /\ UNCHANGED <<conv, rows>>
     \/ /\ rows[t].state = "none"
        /\ conv.state = "open" /\ ~conv.failed
        /\ rows' = [rows EXCEPT ![t] = [NoTurn EXCEPT !.state = "queued", !.seq = conv.next_seq]]
        /\ conv' = [conv EXCEPT !.next_seq = @ + 1]
  /\ op' = [op EXCEPT ![s] = [NoOp EXCEPT !.pc = "queued", !.turn = t]]
  /\ UNCHANGED <<log, agent, lease, cl, ran>>

\* A queued turn waits for its place and for the active one; an admitted one
\* for its claim to expire, unless the claim is this service's own.
inspect_turn_claim(t, s) ==
  /\ conv.state = "open" /\ ~conv.failed
  /\ \/ rows[t].state = "queued" /\ rows[t].seq = conv.next_to_run /\ conv.active = NoOne
     \/ rows[t].state = "admitted"

claim_conversation_turn(s) ==
  LET t == op[s].turn IN
  /\ at(s, "queued") /\ inspect_turn_claim(t, s)
  /\ rows[t].rev < MaxClaims
  /\ conv' = [conv EXCEPT !.active = t]
  /\ rows' = [rows EXCEPT ![t].state = "admitted", ![t].owner = s, ![t].rev = @ + 1]
  /\ op' = [op EXCEPT ![s].pc = "claimed_turn", ![s].key = rows[t].rev + 1]
  /\ UNCHANGED <<log, agent, lease, cl, ran>>

\* Pending past the bound, blocked, closed, ended, or admitted to run without a
\* recorded outcome: the caller is told, nothing is run.
turn_refused(s) ==
  /\ at(s, "queued")
  /\ ~(rows[op[s].turn].state = "intent_committed" /\ find_turn_outcome(op[s].turn) # {})
  /\ done(s)
  /\ UNCHANGED <<conv, rows, log, agent, lease, cl, ran>>

\* The turn's session is opened by an engine of its own.
prepare_turn(s) ==
  /\ at(s, "claimed_turn")
  /\ \/ acquirable /\ lease' = s /\ go(s, "prepared")
     \/ UNCHANGED lease /\ done(s)
  /\ UNCHANGED <<conv, rows, log, agent, cl, ran>>

release_prepared_turn(s) == lease' = (IF lease = s THEN NoOne ELSE lease) /\ done(s)

\* The first to record the intent goes on; anyone else stops.
record_turn_intent(s) ==
  /\ at(s, "prepared")
  /\ \/ /\ ~find_turn_intent(op[s].turn)
        /\ append_exact(Intent(op[s].turn), {})
        /\ go(s, "intent")
        /\ UNCHANGED lease
     \/ /\ find_turn_intent(op[s].turn)
        /\ release_prepared_turn(s)
        /\ UNCHANGED log
  /\ UNCHANGED <<conv, rows, agent, cl, ran>>

\* Mutant: whoever recorded the intent commits it, if it still has the claim or
\* not.
commit_any_claim(t, s) ==
  conv.state = "open" /\ conv.active = t /\ rows[t].state = "admitted"

may_commit_intent(t, s) ==
  /\ conv.state = "open" /\ conv.active = t
  /\ rows[t].state = "admitted" /\ rows[t].owner = s /\ rows[t].rev = op[s].key

commit_conversation_turn_intent(s) ==
  LET t == op[s].turn IN
  /\ at(s, "intent")
  /\ \/ /\ may_commit_intent(t, s)
        /\ rows' = [rows EXCEPT ![t].state = "intent_committed", ![t].rev = @ + 1]
        /\ go(s, "committed")
        /\ UNCHANGED lease
     \/ /\ ~may_commit_intent(t, s)
        /\ release_prepared_turn(s)
        /\ UNCHANGED rows
  /\ UNCHANGED <<conv, log, agent, cl, ran>>

\* The child becomes active and the engine is started on a thread of its own.
start_turn(s) ==
  /\ at(s, "committed")
  /\ \/ /\ agent \in {"idle", "active"}
        /\ agent' = "active"
        /\ ran' = [ran EXCEPT ![op[s].turn] = @ + 1]
        /\ go(s, "running")
        /\ UNCHANGED lease
     \/ /\ agent \notin {"idle", "active"}
        /\ release_prepared_turn(s)
        /\ UNCHANGED <<agent, ran>>
  /\ UNCHANGED <<conv, rows, log, cl>>

\* The engine ends by itself, at its wall time, or because close notified it;
\* the session is released before the result is handed over.
execute_dedicated_turn(s) ==
  /\ at(s, "running")
  /\ lease' = NoOne
  /\ \E out \in Outcomes :
       /\ out = "cancelled" => cl[s].pc = "waiting"
       /\ op' = [op EXCEPT ![s].pc = "ended", ![s].out = out]
  /\ UNCHANGED <<conv, rows, log, agent, cl, ran>>

\* An outcome recorded by a close in the meantime wins; the child is set idle.
record_turn_outcome(s) ==
  LET t == op[s].turn IN
  /\ at(s, "ended")
  /\ \/ /\ append_exact(Outcome(t, op[s].out), find_turn_outcome(t))
        /\ go(s, "outcome")
        /\ UNCHANGED agent
     \/ /\ ~(find_turn_outcome(t) \subseteq {Outcome(t, op[s].out)})
        /\ agent' = IF agent = "active" THEN "idle" ELSE agent
        /\ done(s)
        /\ UNCHANGED log
  /\ UNCHANGED <<conv, rows, lease, cl, ran>>

\* The turn's row ends and the queue moves on, in one transaction.
may_finalize(t) ==
  /\ rows[t].seq = conv.next_to_run
  /\ conv.active \in {NoOne, t}
  /\ \/ conv.state = "open" /\ rows[t].state = "intent_committed"
     \/ conv.state = "closing" /\ rows[t].state \in {"queued", "admitted", "intent_committed"}

finalize_conversation_turn(t, out, block) ==
  IF may_finalize(t)
  THEN /\ rows' = [rows EXCEPT ![t].state = out, ![t].owner = NoOne, ![t].out = out]
       /\ conv' = [conv EXCEPT !.next_to_run = @ + 1, !.active = NoOne,
                               !.failed = @ \/ block]
  ELSE UNCHANGED <<rows, conv>>

finish_turn(s) ==
  LET t == op[s].turn IN
  /\ at(s, "outcome")
  /\ finalize_conversation_turn(t, op[s].out, blocks_following_turns(op[s].out))
  /\ agent' = IF agent = "active" /\ (may_finalize(t) \/ rows[t].state = op[s].out)
              THEN "idle" ELSE agent
  /\ done(s)
  /\ UNCHANGED <<log, lease, cl, ran>>

\* A turn that has ended, in its row or only in the Ledger, is answered from
\* there, once no engine holds the session.
ensure_session_quiescent == acquirable

recover_terminal_turn_outcome(s) ==
  LET t == op[s].turn IN
  /\ at(s, "queued")
  /\ \/ is_terminal(rows[t].state) /\ UNCHANGED <<rows, conv>>
     \/ /\ rows[t].state = "intent_committed"
        /\ \E r \in find_turn_outcome(t) :
             finalize_conversation_turn(t, r.out, blocks_following_turns(r.out))
  /\ agent' = IF ensure_session_quiescent /\ agent = "active" THEN "idle" ELSE agent
  /\ done(s)
  /\ UNCHANGED <<log, lease, cl, ran>>

-----------------------------------------------------------------------------
\* close: claim it, cancel the live turn of this process, then under the lock
\* settle every turn, record the close and end the child.
begin_conversation_close(s) ==
  /\ up(s) /\ cl[s].pc = "idle" /\ validate_handle
  /\ \/ /\ conv.state = "open"
        /\ conv' = [conv EXCEPT !.state = "closing"]
        /\ cl' = [cl EXCEPT ![s].pc = "waiting"]
     \/ /\ conv.state = "closing"
        /\ cl' = [cl EXCEPT ![s].pc = "waiting"]
        /\ UNCHANGED conv
     \/ /\ conv.state = "closed"
        /\ cl' = [cl EXCEPT ![s].pc = "closed"]
        /\ UNCHANGED conv
  /\ UNCHANGED <<rows, log, agent, lease, op, ran>>

\* Mutant: a session that is in use does not stop the close.
close_regardless == TRUE

close_may_settle == ensure_session_quiescent

\* The lock, then: a recorded close is only finished; a session in use ends
\* the call; otherwise the list of turns is read.
close_locked(s) ==
  /\ cl[s].pc = "waiting" /\ op[s].pc = "idle"
  /\ \/ /\ find_close # {}
        /\ cl' = [cl EXCEPT ![s].pc = "closing"]
     \/ /\ find_close = {} /\ close_may_settle
        /\ cl' = [cl EXCEPT ![s].pc = "settle", ![s].seen = [t \in Turns |-> rows[t].state]]
     \/ /\ find_close = {} /\ ~close_may_settle
        /\ cl' = [cl EXCEPT ![s] = NoClose]
  /\ UNCHANGED <<conv, rows, log, agent, lease, op, ran>>

\* The turns of the list that are still to be looked at, in their order.
Unsettled(s) == {t \in Turns : cl[s].seen[t] # "none"}
next_to_settle(s) == CHOOSE t \in Unsettled(s) : \A u \in Unsettled(s) : rows[t].seq <= rows[u].seq

\* Close records a turn that was found without an outcome as unknown if it may
\* have run, else as cancelled.
settled_outcome(s) == IF cl[s].ran THEN "unknown" ELSE "cancelled"

\* A turn that had ended when it was listed must say what the Ledger says; of
\* any other it is asked whether it may have run.
settle_inspect(s) ==
  LET t == next_to_settle(s)
      listed == cl[s].seen[t] IN
  /\ cl[s].pc = "settle" /\ Unsettled(s) # {}
  /\ cl' = IF is_terminal(listed)
           THEN IF find_turn_outcome(t) = {Outcome(t, listed)}
                THEN [cl EXCEPT ![s].seen[t] = "none"] ELSE [cl EXCEPT ![s] = NoClose]
           ELSE [cl EXCEPT ![s].pc = IF find_turn_intent(t) THEN "outcome" ELSE "intent",
                           ![s].ran = listed = "intent_committed" \/ find_turn_intent(t)]
  /\ UNCHANGED <<conv, rows, log, agent, lease, op, ran>>

\* An intent that a run_turn recorded in the meantime is as good as its own.
settle_intent(s) ==
  /\ cl[s].pc = "intent"
  /\ append_exact(Intent(next_to_settle(s)), {})
  /\ cl' = [cl EXCEPT ![s].pc = "outcome"]
  /\ UNCHANGED <<conv, rows, agent, lease, op, ran>>

settle_record(s) ==
  LET t == next_to_settle(s)
      out == settled_outcome(s) IN
  /\ cl[s].pc = "outcome"
  /\ \/ /\ append_exact(Outcome(t, out), find_turn_outcome(t))
        /\ cl' = [cl EXCEPT ![s].pc = "settling"]
     \/ /\ ~(find_turn_outcome(t) \subseteq {Outcome(t, out)})
        /\ cl' = [cl EXCEPT ![s] = NoClose]
        /\ UNCHANGED log
  /\ UNCHANGED <<conv, rows, agent, lease, op, ran>>

settle_finalize(s) ==
  LET t == next_to_settle(s)
      out == settled_outcome(s) IN
  /\ cl[s].pc = "settling"
  /\ finalize_conversation_turn(t, out, cl[s].ran)
  /\ cl' = IF may_finalize(t) \/ rows[t].state = out
           THEN [cl EXCEPT ![s].pc = "settle", ![s].seen[t] = "none", ![s].ran = FALSE]
           ELSE [cl EXCEPT ![s] = NoClose]
  /\ UNCHANGED <<log, agent, lease, op, ran>>

requires_failed_close == \E t \in Turns : rows[t].state \in {"retryable", "failed", "unknown"}

\* Mutant: a turn that failed does not make the close a failed one.
closes_completed == "completed"

terminal_state ==
  IF has_unresolved_turn \/ requires_failed_close THEN "failed" ELSE "completed"

\* An active child goes back to idle first; the terminal state is decided and
\* recorded.
record_close(s) ==
  /\ cl[s].pc = "settle" /\ Unsettled(s) = {}
  /\ IF agent = "active" /\ has_unresolved_turn
     THEN UNCHANGED <<log, agent>> /\ cl' = [cl EXCEPT ![s] = NoClose]
     ELSE /\ agent' = IF agent = "active" THEN "idle" ELSE agent
          /\ \/ /\ append_exact(Close(terminal_state), find_close)
                /\ cl' = [cl EXCEPT ![s].pc = "closing"]
             \/ /\ ~(find_close \subseteq {Close(terminal_state)})
                /\ cl' = [cl EXCEPT ![s] = NoClose]
                /\ UNCHANGED log
  /\ UNCHANGED <<conv, rows, lease, op, ran>>

finish_conversation_close(s) ==
  /\ cl[s].pc = "closing"
  /\ \E r \in find_close :
       \/ /\ conv.state = "closing" /\ conv.active = NoOne
          /\ conv' = [conv EXCEPT !.state = "closed", !.terminal = r.state]
          /\ cl' = [cl EXCEPT ![s].pc = "closed"]
       \/ /\ conv.state = "closed" /\ conv.terminal = r.state
          /\ cl' = [cl EXCEPT ![s].pc = "closed"]
          /\ UNCHANGED conv
  /\ UNCHANGED <<rows, log, agent, lease, op, ran>>

repair_terminal_state(s) ==
  /\ cl[s].pc = "closed"
  /\ agent' = IF agent = "idle" THEN conv.terminal ELSE agent
  /\ cl' = [cl EXCEPT ![s] = NoClose]
  /\ UNCHANGED <<conv, rows, log, lease, op, ran>>

-----------------------------------------------------------------------------
\* The process dies; its leases expire in time.
crash(s) ==
  /\ up(s)
  /\ op' = [op EXCEPT ![s] = [NoOp EXCEPT !.pc = "dead"]]
  /\ cl' = [cl EXCEPT ![s] = NoClose]
  /\ UNCHANGED <<conv, rows, log, agent, lease, ran>>

Next == \E s \in Services :
  \/ claim_conversation_open(s) \/ open_existing(s) \/ spawn_child(s)
  \/ abandon_conversation_open(s) \/ record_open(s) \/ finish_open(s)
  \/ ensure_open_projection(s)
  \/ \E t \in Turns : enqueue_conversation_turn(s, t)
  \/ claim_conversation_turn(s) \/ turn_refused(s) \/ prepare_turn(s)
  \/ record_turn_intent(s) \/ commit_conversation_turn_intent(s) \/ start_turn(s)
  \/ execute_dedicated_turn(s) \/ record_turn_outcome(s) \/ finish_turn(s)
  \/ recover_terminal_turn_outcome(s)
  \/ begin_conversation_close(s) \/ close_locked(s)
  \/ settle_inspect(s) \/ settle_intent(s) \/ settle_record(s)
  \/ settle_finalize(s) \/ record_close(s) \/ finish_conversation_close(s)
  \/ repair_terminal_state(s) \/ crash(s)

Spec == Init /\ [][Next]_vars

-----------------------------------------------------------------------------
TypeOK ==
  /\ conv.state \in {"none", "opening", "open", "closing", "closed"}
  /\ conv.owner \in Services \cup {NoOne} /\ conv.active \in Turns \cup {NoOne}
  /\ conv.next_to_run \in 0..conv.next_seq
  /\ \A t \in Turns :
       rows[t].state \in Outcomes \cup {"none", "queued", "admitted", "intent_committed"}
  /\ agent \in {"none", "reserved", "idle", "active", "completed", "failed"}
  /\ lease \in Services \cup {NoOne}

\* A turn is executed by the Provider at most once, whichever services retry it
\* or take its claim over, and only after every turn queued before it has ended.
TurnsRunOnceInOrder ==
  \A t \in Turns : ran[t] > 0 =>
    /\ ran[t] = 1
    /\ \A u \in Turns : rows[u].state # "none" /\ rows[u].seq < rows[t].seq
                        => is_terminal(rows[u].state)

\* A service starts and runs a turn only under the claim it holds: one that was
\* taken over when it expired, before its holder committed the intent, is not
\* run by the one that lost it, and one that is committed is not taken over.
RunsItsOwnClaim ==
  \A s \in Services : op[s].pc \in {"committed", "running"} =>
    LET row == rows[op[s].turn] IN
    row.state = "intent_committed" /\ row.owner = s /\ row.rev = op[s].key + 1

\* Once the close is recorded no turn is running, every turn has one outcome,
\* the same in its row and in the Ledger, and the child completed only if none
\* of them failed or may have been lost.
ClosedIsSettled ==
  find_close # {} =>
    /\ \A s \in Services : op[s].pc # "running"
    /\ \A t \in Turns : rows[t].state # "none" =>
         find_turn_outcome(t) = {Outcome(t, rows[t].state)}
    /\ Close("completed") \in log =>
         \A t \in Turns : rows[t].state \in {"none", "completed", "cancelled"}
=============================================================================
