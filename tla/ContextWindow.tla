---------------------------- MODULE ContextWindow ----------------------------
(* The context window of one engine (solaris-agent): the token watermark and  *)
(* its circuit breaker (compact/state.rs, compact/emergency.rs), automatic    *)
(* and manual compaction by a Provider call (compact/auto.rs, commands/       *)
(* compact.rs, commands/clear.rs) and the pipeline that runs them before      *)
(* every Provider turn (engine/run.rs).                                       *)
(*                                                                            *)
(* A message is [role, covers]: covers is the set of the original messages    *)
(* whose content it carries, one for a message of the user or the Provider,   *)
(* all those it sums up for a summary, none for a marker.  The identity of a  *)
(* compaction call is the request itself, of which the code takes a digest.   *)
(* The process may die at every step and resume from the saved session; the   *)
(* records of automatic calls are durable, those of /compact are in memory.   *)
(* Microcompaction, which edits tool results in place, is part of FileTools.  *)
EXTENDS Naturals, Sequences, FiniteSets
LOCAL INSTANCE SequencesExt
LOCAL INSTANCE FiniteSetsExt

CONSTANTS Threshold,   \* watermark at which automatic compaction starts
          Limit,       \* watermark at which a turn is refused
          Reports,     \* input tokens a Provider may report
          MaxFailures, \* compact.max_failures, at least one
          MaxMessages, \* bound on original messages
          MaxEvents    \* bound on commands, crashes, aborts and failures

VARIABLES enabled,  \* compact.enabled
          engine,   \* messages, watermark, failures and the step it is at
          saved,    \* messages of the stored session
          effects,  \* durable records of automatic compaction calls
          next,     \* original messages so far
          lost,     \* original messages cut by a retry or cleared by the user
          tries,    \* automatic calls since the last success, user step or start
          relieved, \* the user compacted or cleared since the last answer
          events

vars == <<enabled, engine, saved, effects, next, lost, tries, relieved, events>>

MaxPtlRetries == 2
Original(role, i) == [role |-> role, covers |-> {i}]
Marker == [role |-> "User", covers |-> {}]
Covered(s) == UNION {s[i].covers : i \in DOMAIN s}

At(pc) == engine.pc = pc
Idle == engine.pc \in {"idle", "refused", "reconcile"}

\* A process that starts: CompactState::new and the saved messages.
Started(messages) ==
  [messages |-> messages, watermark |-> 0, failures |-> 0, pc |-> "idle",
   conv |-> <<>>, ptl |-> 0, manual |-> FALSE, text |-> "none"]

Init ==
  /\ enabled \in BOOLEAN
  /\ engine = Started(<<>>) /\ saved = <<>> /\ effects = {}
  /\ next = 0 /\ lost = {} /\ tries = 0 /\ relieved = FALSE /\ events = 0

-----------------------------------------------------------------------------
estimate_tokens_from_messages(messages) == Len(messages)

should_autocompact(watermark) == enabled /\ watermark >= Threshold

is_at_emergency_limit(watermark) == watermark >= Limit

is_circuit_broken == engine.failures >= MaxFailures

record_failure == engine.failures + 1

\* Mutant: a cut that starts with an answer is left so.
truncates_only(messages) ==
  IF Len(messages) < 2 THEN <<>>
  ELSE SubSeq(messages, Max({1, Len(messages) \div 5}) + 1, Len(messages))

\* Drops the oldest fifth, at least one message, and starts with a User
\* message again; with fewer than two messages there is no retry.
truncate_for_retry(messages) ==
  LET remaining == SubSeq(messages, Max({1, Len(messages) \div 5}) + 1,
                          Len(messages))
  IN IF Len(messages) < 2 THEN <<>>
     ELSE IF remaining[1].role # "User" THEN <<Marker>> \o remaining
     ELSE remaining

\* Mutant: the last message stands for the summary.
summarizes_turn(conv) == <<Marker, [conv[Len(conv)] EXCEPT !.role = "User"]>>

\* is_compact_boundary and the summary behind it.
compacted(conv) == <<Marker, [role |-> "User", covers |-> Covered(conv)]>>

-----------------------------------------------------------------------------
(* The durable records of an automatic call.                                  *)

Records == {e \in effects : e.request = engine.conv}
Unresolved(e) == e.out \in {"intent", "unknown"}

\* Mutant: other unresolved calls are not looked at.
ignores_others == FALSE

unresolved_other_effect ==
  \E e \in effects : e.request # engine.conv /\ Unresolved(e)

\* Mutant: an unresolved call is made again.
executes_unresolved ==
  IF \A e \in Records : Unresolved(e) THEN "Execute"
  ELSE IF \E e \in Records : e.out = "error" THEN "ReuseError" ELSE "Reuse"

recover_effect ==
  IF Records = {} THEN "Execute"
  ELSE LET e == CHOOSE e \in Records : TRUE
       IN IF Unresolved(e) THEN "Reconcile"
          ELSE IF e.out = "error" THEN "ReuseError" ELSE "Reuse"

record_effect_intent ==
  (effects \ Records) \cup
    {[request |-> engine.conv, out |-> "intent", billed |-> 0, used |-> FALSE,
      runs |-> 1 + Cardinality(Records)]}

\* EffectOutcomeGuard::complete; a manual call has an in-memory ledger.
complete(out) ==
  IF engine.manual THEN effects
  ELSE {IF e.request = engine.conv THEN [e EXCEPT !.out = out] ELSE e
          : e \in effects}

\* record_model_usage_once: the record's effect id is unique.
record_model_usage_once ==
  {IF e.request = engine.conv /\ ~engine.manual
   THEN [e EXCEPT !.billed = 1, !.used = @ \/ engine.text = "text"]
   ELSE e : e \in effects}

-----------------------------------------------------------------------------
(* The pipeline.                                                              *)

\* Step 3 of run_compaction, when no compaction succeeded before it.
emergency_check(state) ==
  IF is_at_emergency_limit(state.watermark)
  THEN /\ engine' = [state EXCEPT !.pc = "refused"]
       /\ UNCHANGED saved
  ELSE /\ engine' = [state EXCEPT !.pc = "turn"]
       /\ saved' = state.messages

\* An error of autocompact_with_effect: the turn goes on without compaction,
\* /compact reports it, and an unresolved call ends the turn.
Failed(reconcile) ==
  LET state == [engine EXCEPT !.failures = record_failure, !.conv = <<>>,
                              !.ptl = 0, !.manual = FALSE, !.text = "none"]
  IN IF engine.manual
     THEN engine' = [state EXCEPT !.pc = "idle"] /\ UNCHANGED saved
     ELSE IF reconcile
     THEN engine' = [state EXCEPT !.pc = "reconcile"] /\ UNCHANGED saved
     ELSE emergency_check(state)

run_inner ==
  /\ Idle /\ next < MaxMessages
  /\ LET messages == Append(engine.messages, Original("User", next + 1))
     IN engine' = [engine EXCEPT !.messages = messages, !.pc = "compact"]
        /\ saved' = messages
  /\ next' = next + 1
  /\ UNCHANGED <<enabled, effects, lost, tries, relieved, events>>

\* The host sends the message again whose turn was refused or interrupted.
resume_message ==
  /\ Idle /\ engine.messages # <<>> /\ engine.messages = saved
  /\ Last(saved).role = "User" /\ Last(saved).covers # {}
  /\ engine' = [engine EXCEPT !.pc = "compact"]
  /\ UNCHANGED <<enabled, saved, effects, next, lost, tries, relieved, events>>

run_compaction ==
  /\ At("compact")
  /\ IF should_autocompact(engine.watermark) /\ ~is_circuit_broken
     THEN /\ engine' = [engine EXCEPT !.pc = "call", !.conv = engine.messages]
          /\ UNCHANGED saved
     ELSE emergency_check(engine)
  /\ UNCHANGED <<enabled, effects, next, lost, tries, relieved, events>>

\* compact_provider_call up to the intent.
compact_provider_call ==
  /\ At("call")
  /\ \/ /\ engine.manual
        /\ engine' = [engine EXCEPT !.pc = "flight"]
        /\ UNCHANGED <<saved, effects, tries, events>>
     \/ /\ ~engine.manual
        /\ unresolved_other_effect \/ recover_effect = "Reconcile"
        /\ Failed(TRUE) /\ UNCHANGED <<effects, tries, events>>
     \/ /\ ~engine.manual /\ ~unresolved_other_effect
        /\ recover_effect = "ReuseError"
        /\ Failed(FALSE) /\ UNCHANGED <<effects, tries, events>>
     \/ /\ ~engine.manual /\ ~unresolved_other_effect
        /\ recover_effect = "Reuse"
        /\ LET e == CHOOSE e \in Records : TRUE
           IN engine' = [engine EXCEPT !.pc = "answered", !.text = e.out]
        /\ UNCHANGED <<saved, effects, tries, events>>
     \/ /\ ~engine.manual /\ ~unresolved_other_effect
        /\ recover_effect = "Execute"
        /\ engine' = [engine EXCEPT !.pc = "flight"]
        /\ effects' = record_effect_intent /\ tries' = tries + 1
        /\ UNCHANGED <<saved, events>>
     \/ \* permission, rate, environment or the intent's append refuses it
        /\ ~engine.manual /\ ~unresolved_other_effect
        /\ recover_effect = "Execute" /\ events < MaxEvents
        /\ events' = events + 1
        /\ Failed(FALSE) /\ UNCHANGED <<effects, tries>>
  /\ UNCHANGED <<enabled, next, lost, relieved>>

\* The answer is a stream with a Done event; its text may be empty.
collect_stream_text ==
  /\ At("flight")
  /\ \E text \in {"text", "empty"} :
       /\ effects' = complete(text)
       /\ engine' = [engine EXCEPT !.pc = "answered", !.text = text]
  /\ UNCHANGED <<enabled, saved, next, lost, tries, relieved, events>>

\* The request or its stream fails.
call_fails ==
  /\ At("flight") /\ events < MaxEvents /\ events' = events + 1
  /\ effects' = complete("error")
  /\ Failed(FALSE)
  /\ UNCHANGED <<enabled, next, lost, tries, relieved>>

\* The Provider finds the prompt too long.
retry_truncated ==
  /\ At("flight")
  /\ effects' = complete("error")
  /\ LET conv == truncate_for_retry(engine.conv)
     IN IF engine.ptl < MaxPtlRetries /\ conv # <<>>
        THEN /\ engine' = [engine EXCEPT !.pc = "call", !.conv = conv,
                                         !.ptl = @ + 1]
             /\ lost' = lost \cup (Covered(engine.conv) \ Covered(conv))
             /\ UNCHANGED saved
        ELSE Failed(FALSE) /\ UNCHANGED lost
  /\ UNCHANGED <<enabled, next, tries, relieved, events>>

\* The answer arrived and its outcome cannot be stored: the guard leaves the
\* call unresolved and the answer is not used.
outcome_not_stored ==
  /\ At("flight") /\ ~engine.manual
  /\ events < MaxEvents /\ events' = events + 1
  /\ effects' = complete("unknown")
  /\ Failed(FALSE)
  /\ UNCHANGED <<enabled, next, lost, tries, relieved>>

\* The usage is recorded, then the summary replaces the messages.
autocompact_with_effect ==
  /\ At("answered")
  /\ effects' = record_model_usage_once
  /\ IF engine.text = "empty"
     THEN Failed(FALSE) /\ UNCHANGED <<tries, relieved>>
     ELSE LET messages == compacted(engine.conv)
          IN /\ engine' = [engine EXCEPT
                  !.messages = messages, !.failures = 0, !.conv = <<>>,
                  !.ptl = 0, !.manual = FALSE, !.text = "none",
                  !.pc = IF engine.manual THEN "idle" ELSE "turn"]
             /\ saved' = IF engine.manual THEN saved ELSE messages
             /\ tries' = 0
             /\ relieved' = (relieved \/ engine.manual)
  /\ UNCHANGED <<enabled, next, lost, events>>

\* One Provider turn: a final answer, or a tool round and the next turn.
record_turn_usage(reported) ==
  Max({reported, estimate_tokens_from_messages(engine.messages)})

run_turn ==
  /\ At("turn") /\ next + 1 < MaxMessages
  /\ \E reported \in Reports, final \in BOOLEAN :
       LET answered == Append(engine.messages, Original("Assistant", next + 1))
           messages == IF final THEN answered
                       ELSE Append(answered, Original("User", next + 2))
       IN /\ engine' = [engine EXCEPT
                          !.messages = messages,
                          !.watermark = record_turn_usage(reported),
                          !.pc = IF final THEN "idle" ELSE "compact"]
          /\ saved' = messages
          /\ next' = next + (IF final THEN 1 ELSE 2)
  /\ relieved' = FALSE
  /\ UNCHANGED <<enabled, effects, lost, tries, events>>

turn_fails ==
  /\ At("turn") /\ events < MaxEvents /\ events' = events + 1
  /\ engine' = [engine EXCEPT !.pc = "idle"]
  /\ UNCHANGED <<enabled, saved, effects, next, lost, tries, relieved>>

-----------------------------------------------------------------------------
(* The user and the process.                                                  *)

\* /compact does not look at compact.enabled and leaves the watermark.
compact_command ==
  /\ Idle /\ Len(engine.messages) > 2
  /\ events < MaxEvents /\ events' = events + 1
  /\ engine' = [engine EXCEPT !.pc = "call", !.manual = TRUE, !.failures = 0,
                              !.conv = engine.messages]
  /\ tries' = 0
  /\ UNCHANGED <<enabled, saved, effects, next, lost, relieved>>

clear_command ==
  /\ Idle /\ engine.messages # <<>>
  /\ events < MaxEvents /\ events' = events + 1
  /\ engine' = Started(<<>>)
  /\ lost' = lost \cup Covered(engine.messages)
  /\ tries' = 0 /\ relieved' = TRUE
  /\ UNCHANGED <<enabled, saved, effects, next>>

\* The user aborts: the dropped call's guard records an unknown outcome.
cancel ==
  /\ engine.pc \in {"call", "flight"}
  /\ events < MaxEvents /\ events' = events + 1
  /\ effects' = IF At("flight") THEN complete("unknown") ELSE effects
  /\ engine' = [engine EXCEPT !.pc = "idle", !.conv = <<>>, !.ptl = 0,
                              !.manual = FALSE]
  /\ tries' = 0
  /\ UNCHANGED <<enabled, saved, next, lost, relieved>>

crash ==
  /\ events < MaxEvents /\ events' = events + 1
  /\ engine' = Started(saved) /\ tries' = 0 /\ relieved' = FALSE
  /\ UNCHANGED <<enabled, saved, effects, next, lost>>

Next ==
  \/ run_inner \/ resume_message \/ run_compaction \/ compact_provider_call
  \/ collect_stream_text \/ call_fails \/ retry_truncated
  \/ outcome_not_stored \/ autocompact_with_effect \/ run_turn \/ turn_fails
  \/ compact_command \/ clear_command \/ cancel \/ crash

Spec == Init /\ [][Next]_vars

-----------------------------------------------------------------------------
Messages(s) ==
  \A i \in DOMAIN s : /\ s[i].role \in {"User", "Assistant"}
                      /\ s[i].covers \subseteq 1..next

\* The variables have their types: histories carry known messages and every
\* compaction record has one of the five outcomes.
TypeOK ==
  /\ Messages(engine.messages) /\ Messages(engine.conv) /\ Messages(saved)
  /\ engine.failures \in Nat /\ engine.watermark \in Nat
  /\ engine.ptl \in 0..MaxPtlRetries
  /\ engine.pc \in {"idle", "refused", "reconcile", "compact", "call",
                    "flight", "answered", "turn"}
  /\ \A e \in effects : e.out \in {"intent", "unknown", "error", "text", "empty"}
  /\ lost \subseteq 1..next /\ events \in 0..MaxEvents

\* A compaction call that an earlier process may already have made is not
\* made again, no new one starts while another is unresolved, and a summary
\* that is used has been billed, once (compact_provider_call).
CallsMadeOnce ==
  /\ \A e \in effects : e.runs = 1 /\ e.billed <= 1 /\ (e.used => e.billed = 1)
  /\ \A e, f \in effects :
       e.request = f.request \/ (Unresolved(e) /\ Unresolved(f) => e = f)
  /\ \A e, f \in effects : e.request = f.request => e = f

\* The breaker bounds what a failing Provider costs: every failed automatic
\* compaction makes at most three calls, and after MaxFailures of them only
\* the user starts another one (is_circuit_broken).
BreakerBounds == tries <= MaxFailures * (MaxPtlRetries + 1)

\* No message disappears silently: what was said is in the history and in the
\* stored session, itself or in a summary, unless a retry had to cut it or
\* the user cleared it (autocompact_with_effect, truncate_for_retry).
NothingForgotten ==
  /\ 1..next \subseteq Covered(engine.messages) \cup lost
  /\ 1..next \subseteq Covered(saved) \cup lost

\* Every request the Provider is sent starts with a User message.
RequestsStartWithUser ==
  /\ engine.conv # <<>> => engine.conv[1].role = "User"
  /\ At("turn") => engine.messages[1].role = "User"

\* Compaction keeps its promises across failures, retries, aborts and
\* restarts: calls are made and billed once, the breaker bounds them, nothing
\* said is forgotten and requests stay well-formed.
CompactionSafe ==
  CallsMadeOnce /\ BreakerBounds /\ NothingForgotten /\ RequestsStartWithUser

\* compact/emergency.rs tells the user who is refused "Context window nearly
\* full. Please use /compact or start a new conversation.": a user who did
\* either is not refused again before the next answer.
CompactionUnblocks == ~(At("refused") /\ relieved)
=============================================================================
