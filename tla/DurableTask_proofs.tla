-------------------------- MODULE DurableTask_proofs --------------------------
(* Proof that a message is run as if by one process (TaskRunOnce of           *)
(* DurableTask), for any number of processes, tool calls, faults and lease    *)
(* takeovers.                                                                 *)
EXTENDS DurableTask, TLAPS

\* A leaf that needs arithmetic, sequences or records cites SMT instead.
USE ZenonT(20)

-----------------------------------------------------------------------------
(* The inductive invariant.                                                   *)

Stages == Unfenced \cup
  {"activate", "begin", "checkpoint", "turn", "await", "fence", "in_flight",
   "completed_call", "save_final", "finish", "save_tools", "round", "tool_fence",
   "save_results", "tools_completed", "side_effect_unknown", "closed_unknown",
   "closed_aborted", "guard_drop", "abort", "abort_unknown", "abort_phase"}
Statuses == Replied \cup {"none", "error", "executed", "unknown"}
Found == Statuses \cup {"execute", "reconcile"}
CallIds == Effects \cup {NoCall}
Engines == [pc : Stages, epoch : Nat, rev : Nat, trusted : BOOLEAN,
            messages : Seq(Tags), kind : Kinds, call : CallIds,
            tool : Nat, unknown : BOOLEAN, reply : Found]
Records == [type : {"intent", "outcome"}, effect : Effects, status : Statuses]

Typing == TypeOK /\ proc \in [Procs -> Engines]

\* While its process owns the lease, the history in memory is the durable one,
\* except between a reply and its save, and after a failed user checkpoint.
Unsaved == {"turn", "save_tools", "save_final", "done", "refused",
            "refused_round", "failed", "dead"}
Retried == {"idle", "begin", "checkpoint"}
Tooling == {"tool_intent", "tool_execute", "tool_outcome"}

InMemory(p) ==
  lease.owner = p =>
    /\ proc[p].pc # "new" /\ IsPrefix(session.messages, proc[p].messages)
    /\ proc[p].pc = "checkpoint" => task.phase = "created"
    /\ proc[p].pc \in Retried =>
         proc[p].messages = session.messages \/ task.phase = "created"
    /\ proc[p].pc \notin Unsaved \cup Retried =>
         proc[p].messages = session.messages

\* A tool is only begun for a reply that the durable history has.
RoundIsDurable(p) ==
  proc[p].pc \in Tooling => IsPrefix(proc[p].messages, session.messages)

\* Every reply in a history is the recorded outcome of the request before it.
Outcomes(e, status) == {j \in Positions("outcome", e) : ledger[j].status = status}
Recorded(s) ==
  \A n \in 1..Len(s) : s[n] \in Replied =>
    \E k \in Kinds : Outcomes(<<k, SubSeq(s, 1, n - 1), 0>>, s[n]) # {}

RepliesRecorded ==
  /\ Recorded(session.messages)
  /\ \A p \in Procs :
       /\ Recorded(proc[p].messages)
       /\ proc[p].pc \in {"outcome", "completed_call"} =>
            proc[p].reply \in Replied \cup {"error"}
       /\ proc[p].pc = "completed_call" /\ proc[p].reply \in Replied =>
            Outcomes(provider_call_id(p), proc[p].reply) # {}
  /\ \A i \in 1..Len(ledger) :
       ledger[i].effect[1] \in Kinds /\ ledger[i].type = "outcome" =>
         ledger[i].status \in Replied \cup {"error", "unknown"}

\* Only the lease's owner passes a fence, and until it writes the intent nobody
\* takes the lease over.
Intending == {"intent", "tool_intent"}
IntentIsFenced ==
  \A p \in Procs : proc[p].pc \in Intending =>
    lease.owner = p /\ lease.expires > clock

\* An effect about to be intended by the owner of the lease has no intent yet.
Intents(e) == Positions("intent", e)
NotIntended ==
  \A p \in Procs : lease.owner = p =>
    /\ proc[p].pc \in {"fence", "intent"} => Intents(provider_call_id(p)) = {}
    /\ proc[p].pc \in {"tool_fence", "tool_intent"} /\ ~Safe(tool_effect_id(p)) =>
         Intents(tool_effect_id(p)) = {}

\* An effect that has an intent of a process was begun by that process only.
Owes(p, e) ==
  \/ proc[p].pc \in {"in_flight", "execute"} /\ e = provider_call_id(p)
  \/ proc[p].pc = "tool_execute" /\ e = tool_effect_id(p)
OneStarts ==
  /\ \A p \in Procs, e \in Effects : Owes(p, e) /\ ~Safe(e) =>
       /\ Intents(e) # {}
       /\ \A i \in 1..Len(started) : started[i] # e
       /\ \A q \in Procs : Owes(q, e) => q = p
  /\ \A i \in 1..Len(started) : ~Safe(started[i]) => Intents(started[i]) # {}

Histories ==
  /\ Typing /\ CheckpointedBeforeTools
  /\ \A p \in Procs : InMemory(p) /\ RoundIsDurable(p)
StartsOnce == IntentIsFenced /\ NotIntended /\ OneStarts /\ AtMostOnce

IInv == Histories /\ RepliesRecorded /\ (~SlowFence => StartsOnce)

-----------------------------------------------------------------------------
(* Types.                                                                     *)

LEMMA EngineTyped ==
  ASSUME Typing, NEW p \in Procs
  PROVE  /\ proc[p] \in Engines
         /\ proc[p].pc \in Stages /\ proc[p].epoch \in Nat /\ proc[p].rev \in Nat
         /\ proc[p].trusted \in BOOLEAN /\ proc[p].messages \in Seq(Tags)
         /\ proc[p].kind \in Kinds /\ proc[p].call \in CallIds
         /\ proc[p].tool \in Nat /\ proc[p].unknown \in BOOLEAN
         /\ proc[p].reply \in Found
BY DEF Typing, Engines


LEMMA IdsTyped ==
  ASSUME Typing, NEW p \in Procs
  PROVE  /\ provider_call_id(p) \in Effects /\ tool_effect_id(p) \in Effects
         /\ \A n \in Nat : tool_round_call_id(p, n) \in Effects
         /\ provider_call_id(p)[1] \in Kinds /\ tool_effect_id(p)[1] \notin Kinds
         /\ ~Tool(provider_call_id(p)) /\ Tool(tool_effect_id(p))
         /\ tool_effect_id(p)[2] = proc[p].messages
<1>1. /\ proc[p].messages \in Seq(Tags) /\ proc[p].kind \in Kinds
      /\ proc[p].tool \in Nat
  BY EngineTyped
<1>2. /\ provider_call_id(p) \in Effects /\ tool_effect_id(p) \in Effects
      /\ \A n \in Nat : tool_round_call_id(p, n) \in Effects
  BY <1>1, SMTT(30) DEF Effects, provider_call_id, tool_effect_id, tool_round_call_id, Kinds
<1>3. provider_call_id(p)[1] = proc[p].kind
  BY SMTT(30) DEF provider_call_id
<1>4. tool_effect_id(p)[1] = "tool" /\ tool_effect_id(p)[2] = proc[p].messages
  BY SMTT(30) DEF tool_effect_id
<1>5. "tool" \notin Kinds
  BY SMTT(30) DEF Kinds
<1> QED BY <1>1, <1>2, <1>3, <1>4, <1>5 DEF Tool

\* What one process does leaves the engines of the others alone.
Only(p) == \A q \in Procs : q # p => proc'[q] = proc[q]

LEMMA Becomes ==
  ASSUME Typing, NEW p \in Procs, NEW e \in Engines, proc' = [proc EXCEPT ![p] = e]
  PROVE  proc' \in [Procs -> Engines] /\ proc'[p] = e /\ Only(p)
BY DEF Typing, Only

LEMMA AppendTyped ==
  ASSUME NEW s \in Seq(Tags), NEW x \in Tags
  PROVE  Append(s, x) \in Seq(Tags)
BY SMTT(30)

LEMMA RecordTyped ==
  ASSUME Typing, NEW r \in Records, ledger' = Append(ledger, r)
  PROVE  ledger' \in Seq(Records)
<1>1. ledger \in Seq(Records)
  BY DEF Typing, TypeOK, Records, Statuses, CallIds
<1> QED BY <1>1, SMTT(30)

\* TypeOK without the engines.
LEMMA StoreTyped ==
  Typing <=> /\ clock \in 0..MaxClock /\ faults \in 0..MaxFaults
             /\ lease \in [owner : Procs \cup {NoProc}, epoch : Nat, expires : Nat]
             /\ session \in [revision : Nat, messages : Seq(Tags)]
             /\ task \in [phase : Phases, call : CallIds, rev : Nat]
             /\ started \in Seq(Effects)
             /\ ledger \in Seq(Records)
             /\ proc \in [Procs -> Engines]
BY DEF Typing, TypeOK, Records, Statuses, CallIds

LEMMA FieldsTyped ==
  ASSUME Typing
  PROVE  /\ clock \in Nat /\ lease.expires \in Nat /\ lease.epoch \in Nat
         /\ lease.owner \in Procs \cup {NoProc} /\ session.revision \in Nat
         /\ session.messages \in Seq(Tags)
         /\ task.phase \in Phases /\ task.call \in CallIds /\ task.rev \in Nat
         /\ Len(ledger) \in Nat /\ \A i \in 1..Len(ledger) : ledger[i] \in Records
         /\ DOMAIN ledger = 1..Len(ledger) /\ ledger \in Seq(Records)
         /\ Len(started) \in Nat /\ \A i \in 1..Len(started) : started[i] \in Effects
         /\ DOMAIN started = 1..Len(started)
<1>1. /\ lease.expires \in Nat /\ lease.epoch \in Nat /\ lease.owner \in Procs \cup {NoProc}
      /\ session.revision \in Nat /\ session.messages \in Seq(Tags)
      /\ task.phase \in Phases /\ task.call \in CallIds /\ task.rev \in Nat
  BY StoreTyped
<1>2. clock \in Nat
  BY StoreTyped, BoundsAssumption, SMTT(30)
<1>3. ledger \in Seq(Records) /\ started \in Seq(Effects)
  BY StoreTyped
<1>4. /\ Len(ledger) \in Nat /\ \A i \in 1..Len(ledger) : ledger[i] \in Records
      /\ DOMAIN ledger = 1..Len(ledger)
  BY <1>3, SMTT(30)
<1>5. /\ Len(started) \in Nat /\ \A i \in 1..Len(started) : started[i] \in Effects
      /\ DOMAIN started = 1..Len(started)
  BY <1>3, SMTT(30)
<1> QED BY <1>1, <1>2, <1>3, <1>4, <1>5

LEMMA RenewedTyped ==
  ASSUME Typing
  PROVE  /\ Renewed \in [owner : Procs \cup {NoProc}, epoch : Nat, expires : Nat]
         /\ Renewed.owner = lease.owner /\ Renewed.expires = clock + LeaseTime
<1>1. clock + LeaseTime \in Nat
  BY FieldsTyped, BoundsAssumption, SMTT(30)
<1> QED BY <1>1, StoreTyped DEF Renewed

\* SessionStore::save
LEMMA Saves ==
  ASSUME Typing, NEW p \in Procs, NEW s \in Seq(Tags), NEW x \in Stages, save(p, s, x)
  PROVE  /\ lease' \in [owner : Procs \cup {NoProc}, epoch : Nat, expires : Nat]
         /\ session' \in [revision : Nat, messages : Seq(Tags)]
         /\ proc' \in [Procs -> Engines] /\ Only(p)
         /\ lease.owner = p /\ lease'.owner = p /\ lease'.expires = clock + LeaseTime
         /\ session'.messages = s
         /\ proc'[p].messages = s /\ proc'[p].pc = x
<1>1. lease' = Renewed /\ session' = [revision |-> session.revision + 1, messages |-> s]
  BY DEF save
<1>2. lease.owner = p
  BY DEF save, require_current_lease
<1>3. session.revision + 1 \in Nat /\ proc[p].rev + 1 \in Nat
  BY FieldsTyped, EngineTyped, SMTT(30)
<1> DEFINE e == [proc[p] EXCEPT !.rev = proc[p].rev + 1, !.messages = s, !.pc = x]
<1>4. e \in Engines /\ e.messages = s /\ e.pc = x
  BY <1>3, EngineTyped DEF Engines
<1>5. proc' = [proc EXCEPT ![p] = e]
  BY DEF save
<1> HIDE DEF e
<1>6. proc' \in [Procs -> Engines] /\ proc'[p] = e /\ Only(p)
  BY <1>4, <1>5, Becomes
<1>7. session' \in [revision : Nat, messages : Seq(Tags)] /\ session'.messages = s
  BY <1>1, <1>3
<1> QED BY <1>1, <1>2, <1>4, <1>6, <1>7, RenewedTyped

\* ActiveSessionFence::transition_task
LEMMA Transitions ==
  ASSUME Typing, NEW p \in Procs, NEW phase \in Phases,
         NEW call \in CallIds, transition_task(p, phase, call)
  PROVE  /\ task' \in [phase : Phases, call : CallIds, rev : Nat]
         /\ lease.owner = p /\ lease' = lease /\ session' = session
<1>1. task.rev + 1 \in Nat
  BY FieldsTyped, SMTT(30)
<1>2. [phase |-> phase, call |-> call, rev |-> task.rev + 1]
        \in [phase : Phases, call : CallIds, rev : Nat]
  BY <1>1
<1> QED BY <1>2, StoreTyped DEF transition_task, require_current_lease

-----------------------------------------------------------------------------
(* Prefixes.                                                                  *)

LEMMA PrefixSelf ==
  ASSUME NEW s \in Seq(Tags)
  PROVE  IsPrefix(s, s)
BY SMTT(30) DEF IsPrefix

LEMMA PrefixAppend ==
  ASSUME NEW s \in Seq(Tags), NEW x \in Tags
  PROVE  IsPrefix(s, Append(s, x))
<1>1. Len(Append(s, x)) = Len(s) + 1 /\ \A i \in 1..Len(s) : Append(s, x)[i] = s[i]
  BY SMTT(30)
<1>2. Len(s) \in Nat
  BY SMTT(30)
<1> QED BY <1>1, <1>2, SMTT(30) DEF IsPrefix

LEMMA PrefixTransitive ==
  ASSUME NEW s \in Seq(Tags), NEW t \in Seq(Tags), NEW u \in Seq(Tags),
         IsPrefix(s, t), IsPrefix(t, u)
  PROVE  IsPrefix(s, u)
BY SMTT(30) DEF IsPrefix

-----------------------------------------------------------------------------
(* What a step of one process may do.                                         *)

\* A record p appends, and the stage it is then at.
Writes(p, r) ==
  \/ /\ r.type = "intent" /\ r.effect = provider_call_id(p)
     /\ proc[p].pc = "intent" /\ proc'[p].pc = "in_flight"
  \/ /\ r.type = "intent" /\ r.effect = tool_effect_id(p)
     /\ proc[p].pc = "tool_intent" /\ proc'[p].pc = "tool_execute"
  \/ /\ r.type = "outcome" /\ r.effect = provider_call_id(p)
     /\ proc[p].pc \in {"execute", "outcome"}
     /\ r.status \in Replied \cup {"error", "unknown"}
  \/ /\ r.type = "outcome" /\ r.effect = tool_effect_id(p)
     /\ proc[p].pc \in {"tool_execute", "tool_outcome"}
LedgerStep(p) ==
  ledger' = ledger \/ \E r \in Records : Writes(p, r) /\ ledger' = Append(ledger, r)

\* An effect p begins.
Begins(p, e) ==
  \/ e = provider_call_id(p) /\ proc[p].pc = "execute" /\ proc'[p].pc = "outcome"
  \/ e = tool_effect_id(p) /\ proc[p].pc = "tool_execute" /\ proc'[p].pc = "tool_outcome"
StartedStep(p) ==
  started' = started \/ \E e \in Effects : Begins(p, e) /\ started' = Append(started, e)

\* The history in p's memory only grows, by a reply only if that was recorded.
MessagesStep(p) ==
  \/ proc'[p].messages = proc[p].messages
  \/ \E x \in {"user", "results"} : proc'[p].messages = Append(proc[p].messages, x)
  \/ proc[p].pc = "new" /\ lease.owner # p /\ proc'[p].messages = session.messages
  \/ \E r \in Replied : /\ proc[p].pc = "completed_call" /\ proc[p].reply = r
                        /\ proc'[p].messages = Append(proc[p].messages, r)

\* Only its owner renews and releases the lease, and only a lease that is free
\* or expired is taken.
LeaseStep(p) ==
  \/ lease' = lease
  \/ lease.owner = p /\ lease'.owner = p /\ lease'.expires = clock + LeaseTime
  \/ /\ lease.owner = p /\ lease'.owner = NoProc
     /\ proc[p].pc \notin Intending /\ proc'[p].pc = "dead"
  \/ /\ proc[p].pc = "new" /\ lease'.owner = p
     /\ lease.owner = NoProc \/ lease.expires <= clock

\* The steps after which p is about to begin an effect, or has begun one.
Hot == {"fence", "intent", "in_flight", "execute", "outcome", "completed_call",
        "tool_fence", "tool_intent", "tool_execute", "tool_outcome"}
HotStep(p) ==
  \/ recover_provider_effect(p) \/ ensure_session_fence(p)
  \/ record_provider_intent(p) \/ record_provider_in_flight(p) \/ provider_stream(p)
  \/ record_provider_outcome(p) \/ recover_tool_effect(p)
  \/ record_tool_intent(p) \/ execute_single(p) \/ heartbeat(p)

Step(p) ==
  /\ Only(p) /\ clock' = clock
  /\ LedgerStep(p) /\ StartedStep(p) /\ MessagesStep(p) /\ LeaseStep(p)
  /\ \/ session' = session
     \/ lease.owner = p /\ session'.messages = proc'[p].messages
  /\ task' = task \/ lease.owner = p
  /\ InMemory(p)' /\ RoundIsDurable(p)'
  /\ proc'[p].pc \notin Hot \/ HotStep(p)

\* The history in memory stays what it is to the durable one.
Stays(p, x) ==
  /\ x # "new"
  /\ \/ x \in Unsaved
     \/ proc[p].pc = x /\ task' = task
     \/ /\ proc[p].pc \notin Unsaved \cup Retried \cup {"new"} /\ x # "checkpoint"
        /\ x \in Tooling => lease.owner = p \/ proc[p].pc \in Tooling

LEMMA Stay ==
  ASSUME Histories, NEW p \in Procs, session' = session,
         proc'[p].messages = proc[p].messages, Stays(p, proc'[p].pc),
         lease'.owner \in {lease.owner, NoProc}
  PROVE  InMemory(p)' /\ RoundIsDurable(p)'
<1>1. InMemory(p) /\ RoundIsDurable(p)
  BY DEF Histories
<1>2. NoProc # p
  BY ProcsAssumption
<1>3. /\ Unsaved \cap Tooling = {} /\ Unsaved \cap Retried = {} /\ Retried \cap Tooling = {}
      /\ "checkpoint" \in Retried /\ "checkpoint" \notin Unsaved
      /\ "new" \notin Unsaved \cup Retried \cup Tooling
  BY SMTT(30) DEF Unsaved, Retried, Tooling
<1>4. IsPrefix(session.messages, session.messages)
  BY PrefixSelf, FieldsTyped DEF Histories
<1>5. CASE proc'[p].pc \in Unsaved
  BY <1>1, <1>2, <1>3, <1>5 DEF Stays, InMemory, RoundIsDurable
<1>6. CASE proc[p].pc = proc'[p].pc /\ task' = task
  BY <1>1, <1>2, <1>3, <1>6 DEF Stays, InMemory, RoundIsDurable
<1>7. CASE /\ proc[p].pc \notin Unsaved \cup Retried \cup {"new"} /\ proc'[p].pc # "checkpoint"
           /\ proc'[p].pc \in Tooling => lease.owner = p \/ proc[p].pc \in Tooling
  <2>1. lease.owner = p => proc[p].messages = session.messages
    BY <1>1, <1>7 DEF InMemory
  <2>2. InMemory(p)'
    BY <2>1, <1>2, <1>4, <1>7 DEF Stays, InMemory
  <2>3. RoundIsDurable(p)'
    BY <2>1, <1>1, <1>4, <1>7 DEF RoundIsDurable
  <2> QED BY <2>2, <2>3
<1> QED BY <1>5, <1>6, <1>7 DEF Stays

\* The parts of the store other than the session and the engines.
StoreStep(p) ==
  /\ clock' = clock /\ faults' \in 0..MaxFaults
  /\ task' \in [phase : Phases, call : CallIds, rev : Nat]
  /\ task' = task \/ lease.owner = p
  /\ LedgerStep(p) /\ StartedStep(p)

LEMMA StoreStepTyped ==
  ASSUME Typing, NEW p \in Procs, StoreStep(p)
  PROVE  /\ clock' \in 0..MaxClock /\ faults' \in 0..MaxFaults
         /\ task' \in [phase : Phases, call : CallIds, rev : Nat]
         /\ ledger' \in Seq(Records) /\ started' \in Seq(Effects)
<1>1. ledger' \in Seq(Records)
  BY RecordTyped, StoreTyped DEF StoreStep, LedgerStep
<1>2. started' \in Seq(Effects)
  <2>1. \A e \in Effects : Append(started, e) \in Seq(Effects)
    BY FieldsTyped, StoreTyped, SMTT(30)
  <2> QED BY <2>1, StoreTyped DEF StoreStep, StartedStep
<1> QED BY <1>1, <1>2, StoreTyped DEF StoreStep

\* A step that saves nothing and adds nothing to the history in memory.
LEMMA GoesOn ==
  ASSUME Histories, NEW p \in Procs, NEW e \in Engines, proc' = [proc EXCEPT ![p] = e],
         e.messages = proc[p].messages, Stays(p, e.pc), session' = session,
         lease' = lease \/ (lease' = Renewed /\ lease.owner = p),
         StoreStep(p), e.pc \notin Hot \/ HotStep(p)
  PROVE  Typing' /\ Step(p)
<1>1. Typing
  BY DEF Histories
<1>2. proc' \in [Procs -> Engines] /\ proc'[p] = e /\ Only(p)
  BY <1>1, Becomes
<1>3. /\ lease' \in [owner : Procs \cup {NoProc}, epoch : Nat, expires : Nat]
      /\ lease'.owner = lease.owner /\ LeaseStep(p)
  BY <1>1, StoreTyped, RenewedTyped DEF LeaseStep
<1>4. Typing'
  <2>1. session' \in [revision : Nat, messages : Seq(Tags)]
    BY <1>1, StoreTyped
  <2> QED BY <1>1, <1>2, <1>3, <2>1, StoreStepTyped DEF Typing, TypeOK, Records, Statuses, CallIds
<1>5. InMemory(p)' /\ RoundIsDurable(p)'
  BY <1>2, <1>3, Stay
<1>6. MessagesStep(p)
  BY <1>2 DEF MessagesStep
<1> QED BY <1>2, <1>3, <1>4, <1>5, <1>6 DEF Step, StoreStep

\* A step that saves the history in memory.
LEMMA SavesHistory ==
  ASSUME Histories, NEW p \in Procs, NEW s \in Seq(Tags), NEW x \in Stages,
         s = proc[p].messages \/ \E y \in {"user", "results"} : s = Append(proc[p].messages, y),
         x \notin Hot \cup {"checkpoint", "new"}, save(p, s, x), StoreStep(p)
  PROVE  Typing' /\ Step(p)
<1>1. Typing
  BY DEF Histories
<1>2. /\ lease' \in [owner : Procs \cup {NoProc}, epoch : Nat, expires : Nat]
      /\ session' \in [revision : Nat, messages : Seq(Tags)]
      /\ proc' \in [Procs -> Engines] /\ Only(p)
      /\ lease.owner = p /\ lease'.owner = p /\ lease'.expires = clock + LeaseTime
      /\ session'.messages = s
      /\ proc'[p].messages = s /\ proc'[p].pc = x
  BY <1>1, Saves
<1>3. Typing'
  BY <1>1, <1>2, StoreStepTyped DEF Typing, TypeOK, Records, Statuses, CallIds
<1>4. InMemory(p)' /\ RoundIsDurable(p)'
  BY <1>2, PrefixSelf DEF InMemory, RoundIsDurable
<1>5. MessagesStep(p) /\ LeaseStep(p)
  BY <1>2 DEF MessagesStep, LeaseStep
<1> QED BY <1>2, <1>3, <1>4, <1>5 DEF Step, StoreStep

LEMMA GoesTo ==
  ASSUME Histories, NEW p \in Procs, NEW x \in Stages, Goto(p, x), Stays(p, x),
         session' = session, lease' = lease \/ (lease' = Renewed /\ lease.owner = p),
         StoreStep(p), x \notin Hot \/ HotStep(p)
  PROVE  Typing' /\ Step(p)
<1> DEFINE e == [proc[p] EXCEPT !.pc = x]
<1>1. e \in Engines /\ e.pc = x /\ e.messages = proc[p].messages
  BY EngineTyped DEF Engines, Histories
<1>2. proc' = [proc EXCEPT ![p] = e]
  BY DEF Goto
<1> HIDE DEF e
<1> QED BY <1>1, <1>2, GoesOn

LEMMA StoreKept ==
  ASSUME Histories, NEW p \in Procs, clock' = clock, faults' = faults, task' = task,
         ledger' = ledger, started' = started
  PROVE  StoreStep(p)
BY StoreTyped DEF Histories, StoreStep, LedgerStep, StartedStep

LEMMA Faulted ==
  ASSUME Typing, faults < MaxFaults, faults' = faults + 1
  PROVE  faults' \in 0..MaxFaults
<1>1. faults \in 0..MaxFaults
  BY StoreTyped
<1> QED BY <1>1, BoundsAssumption, SMTT(30)

-----------------------------------------------------------------------------
(* Starting or resuming the message.                                          *)

LEMMA Load ==
  ASSUME Histories, NEW p \in Procs, load_active(p)
  PROVE  Typing' /\ Step(p)
<1>1. Typing
  BY DEF Histories
<1>2. lease.epoch + 1 \in Nat /\ clock + LeaseTime \in Nat
  BY <1>1, FieldsTyped, BoundsAssumption, SMTT(30)
<1> DEFINE e == [proc[p] EXCEPT !.pc = "activate", !.epoch = lease.epoch + 1,
                                !.rev = session.revision, !.messages = session.messages]
<1>3. "activate" \in Stages /\ "activate" \notin Hot \cup Unsaved \cup Retried \cup Tooling
  BY SMTT(30) DEF Stages, Hot, Unsaved, Retried, Tooling
<1>4. e \in Engines /\ e.pc = "activate" /\ e.messages = session.messages
  BY <1>1, <1>2, <1>3, EngineTyped, FieldsTyped DEF Engines
<1>5. proc' = [proc EXCEPT ![p] = e]
  BY DEF load_active
<1> HIDE DEF e
<1>6. proc' \in [Procs -> Engines] /\ proc'[p] = e /\ Only(p)
  BY <1>1, <1>4, <1>5, Becomes
<1>7. StoreStep(p) /\ session' = session /\ task' = task
  BY StoreKept DEF load_active
<1>8. /\ lease' \in [owner : Procs \cup {NoProc}, epoch : Nat, expires : Nat]
      /\ lease'.owner = p
  BY <1>2 DEF load_active
<1>9. Typing'
  <2>1. session' \in [revision : Nat, messages : Seq(Tags)]
    BY <1>1, <1>7, StoreTyped
  <2> QED BY <1>1, <1>6, <1>7, <1>8, <2>1, StoreStepTyped DEF Typing, TypeOK, Records, Statuses, CallIds
<1>10. InMemory(p)' /\ RoundIsDurable(p)'
  BY <1>1, <1>3, <1>4, <1>6, <1>7, PrefixSelf, FieldsTyped DEF InMemory, RoundIsDurable
<1>11. proc[p].pc = "new" /\ lease.owner # p /\ LeaseStep(p)
  BY <1>8, ProcsAssumption DEF load_active, LeaseStep, At, Histories, InMemory
<1>12. MessagesStep(p)
  BY <1>4, <1>6, <1>11 DEF MessagesStep
<1> QED BY <1>3, <1>4, <1>6, <1>7, <1>9, <1>10, <1>11, <1>12 DEF Step, StoreStep

LEMMA Activate ==
  ASSUME Histories, NEW p \in Procs, activate_resumed_session(p)
  PROVE  Typing' /\ Step(p)
<1>1. "begin" \in Stages /\ "begin" \notin Hot \cup {"checkpoint", "new"}
  BY SMTT(30) DEF Stages, Hot
<1>2. proc[p].messages \in Seq(Tags)
  BY EngineTyped DEF Histories
<1>3. save(p, proc[p].messages, "begin") /\ StoreStep(p)
  BY StoreKept DEF activate_resumed_session
<1> QED BY <1>1, <1>2, <1>3, SavesHistory

\* Where a task is resumed, the history in memory is the durable one, unless the
\* task is only created.
LEMMA Begin ==
  ASSUME Histories, NEW p \in Procs, begin_or_resume_task(p)
  PROVE  Typing' /\ Step(p)
<1>1. Typing /\ InMemory(p) /\ RoundIsDurable(p) /\ proc[p].pc = "begin" /\ lease.owner = p
  BY DEF Histories, begin_or_resume_task, At, require_current_lease
<1> DEFINE R == {"done", "refused", "checkpoint", "round", "refused_round", "resume", "turn"}
           x == proc'[p].pc
<1>2. /\ R \subseteq Stages /\ R \cap Hot = {} /\ "new" \notin R
      /\ R \cap Tooling = {} /\ R \cap Retried = {"checkpoint"}
      /\ "begin" \in Retried
  BY SMTT(30) DEF Stages, Unfenced, Hot, Tooling, Retried
<1>3. ResumeAt(p) \in R /\ (task.phase = "created" <=> ResumeAt(p) = "checkpoint")
  <2>1. task.phase = "created" => ResumeAt(p) = "checkpoint"
    BY SMTT(30) DEF ResumeAt, Terminal
  <2>2. task.phase # "created" => ResumeAt(p) \in R \ {"checkpoint"}
    BY SMTT(30) DEF ResumeAt, Terminal
  <2> QED BY <2>1, <2>2
<1>4. ledger' = ledger /\ started' = started /\ session' = session /\ lease' = lease
      /\ clock' = clock /\ faults' = faults
  BY DEF begin_or_resume_task
<1>5. /\ proc' \in [Procs -> Engines] /\ Only(p)
      /\ proc'[p].messages = proc[p].messages
      /\ \/ task' = [phase |-> "created", call |-> NoCall, rev |-> 0] /\ x = "checkpoint"
         \/ task' = task /\ x \in R /\ (task.phase = "created" <=> x = "checkpoint")
  <2>1. CASE task.phase = "absent"
    <3> DEFINE e == [proc[p] EXCEPT !.pc = "checkpoint"]
    <3>1. e \in Engines /\ e.pc = "checkpoint" /\ e.messages = proc[p].messages
      BY <1>1, <1>2, EngineTyped DEF Engines
    <3>2. proc' = [proc EXCEPT ![p] = e] /\ task' = [phase |-> "created", call |-> NoCall, rev |-> 0]
      BY <2>1 DEF begin_or_resume_task, Goto
    <3> HIDE DEF e
    <3> QED BY <1>1, <3>1, <3>2, Becomes
  <2>2. CASE task.phase # "absent"
    <3>1. PICK c \in CallIds, y \in Stages :
             /\ c = IF task.phase = "tools_in_flight" THEN task.call ELSE NoCall
             /\ y = ResumeAt(p)
      BY <1>1, <1>2, <1>3, FieldsTyped DEF CallIds
    <3> DEFINE e == [proc[p] EXCEPT !.pc = y, !.kind = "normal", !.call = c]
    <3>2. proc' = [proc EXCEPT ![p] = e] /\ task' = task
      BY <2>2, <3>1 DEF begin_or_resume_task
    <3>3. e \in Engines /\ e.pc = y /\ e.messages = proc[p].messages
      <4>1. "normal" \in Kinds
        BY DEF Kinds
      <4> QED BY <1>1, <4>1, EngineTyped DEF Engines
    <3> HIDE DEF e
    <3> QED BY <1>1, <1>3, <3>1, <3>2, <3>3, Becomes
  <2> QED BY <2>1, <2>2
<1>6. StoreStep(p)
  <2>1. [phase |-> "created", call |-> NoCall, rev |-> 0]
          \in [phase : Phases, call : CallIds, rev : Nat]
    BY SMTT(30) DEF Phases, CallIds
  <2> QED BY <1>1, <1>4, <1>5, <2>1, StoreTyped DEF StoreStep, LedgerStep, StartedStep
<1>7. Typing'
  BY <1>1, <1>4, <1>5, <1>6, StoreStepTyped DEF Typing, TypeOK, Records, Statuses, CallIds
<1>8. InMemory(p)' /\ RoundIsDurable(p)'
  <2>1. /\ IsPrefix(session.messages, proc[p].messages)
        /\ proc[p].messages = session.messages \/ task.phase = "created"
    BY <1>1, <1>2 DEF InMemory
  <2>2. x # "new" /\ x \notin Tooling
    BY <1>2, <1>5
  <2>3. CASE x = "checkpoint"
    <3>1. task'.phase = "created"
      BY <2>3, <1>5, SMTT(30)
    <3>2. x \in Retried
      BY <2>3, <1>2
    <3> QED BY <2>1, <2>2, <3>1, <3>2, <1>4, <1>5 DEF InMemory, RoundIsDurable
  <2>4. CASE x # "checkpoint"
    BY <2>1, <2>2, <2>4, <1>2, <1>4, <1>5 DEF InMemory, RoundIsDurable
  <2> QED BY <2>3, <2>4
<1>9. MessagesStep(p) /\ LeaseStep(p) /\ x \notin Hot
  BY <1>2, <1>4, <1>5 DEF MessagesStep, LeaseStep
<1> QED BY <1>1, <1>4, <1>5, <1>6, <1>7, <1>8, <1>9 DEF Step, StoreStep

LEMMA Checkpoint ==
  ASSUME Histories, NEW p \in Procs, checkpoint_task_user(p)
  PROVE  Typing' /\ Step(p)
<1>1. Typing /\ proc[p].messages \in Seq(Tags) /\ lease.owner = p
  BY EngineTyped DEF Histories, checkpoint_task_user, save, require_current_lease
<1>2. Append(proc[p].messages, "user") \in Seq(Tags)
  BY <1>1, AppendTyped DEF Tags
<1>3. "turn" \in Stages /\ "turn" \notin Hot \cup {"checkpoint", "new"}
  BY SMTT(30) DEF Stages, Hot
<1>4. task' \in [phase : Phases, call : CallIds, rev : Nat]
  <2>1. task.rev + 1 \in Nat
    BY <1>1, FieldsTyped, SMTT(30)
  <2>2. "user_checkpointed" \in Phases
    BY DEF Phases
  <2> QED BY <1>1, <2>1, <2>2, StoreTyped DEF checkpoint_task_user
<1>5. StoreStep(p)
  BY <1>1, <1>4, StoreTyped DEF checkpoint_task_user, StoreStep, LedgerStep, StartedStep
<1> QED BY <1>2, <1>3, <1>5, SavesHistory DEF checkpoint_task_user

LEMMA CheckpointFails ==
  ASSUME Histories, NEW p \in Procs, checkpoint_fails(p)
  PROVE  Typing' /\ Step(p)
<1>1. Typing /\ InMemory(p) /\ proc[p].messages \in Seq(Tags) /\ proc[p].pc = "checkpoint"
  BY EngineTyped DEF Histories, checkpoint_fails, At
<1>2. /\ Append(proc[p].messages, "user") \in Seq(Tags)
      /\ IsPrefix(proc[p].messages, Append(proc[p].messages, "user"))
  BY <1>1, AppendTyped, PrefixAppend DEF Tags
<1>3. /\ "idle" \in Stages /\ "idle" \notin Hot \cup Unsaved \cup Tooling
      /\ "idle" \in Retried /\ "idle" # "checkpoint" /\ "idle" # "new"
  BY SMTT(30) DEF Stages, Unfenced, Hot, Unsaved, Tooling, Retried
<1> DEFINE e == [proc[p] EXCEPT !.messages = Append(proc[p].messages, "user"), !.pc = "idle"]
<1>4. e \in Engines /\ e.pc = "idle" /\ e.messages = Append(proc[p].messages, "user")
  BY <1>1, <1>2, <1>3, EngineTyped DEF Engines
<1>5. proc' = [proc EXCEPT ![p] = e]
  BY DEF checkpoint_fails
<1> HIDE DEF e
<1>6. proc' \in [Procs -> Engines] /\ proc'[p] = e /\ Only(p)
  BY <1>1, <1>4, <1>5, Becomes
<1>7. /\ lease' = lease /\ session' = session /\ task' = task /\ clock' = clock
      /\ ledger' = ledger /\ started' = started
  BY DEF checkpoint_fails, stored
<1>8. StoreStep(p)
  <2>1. faults' \in 0..MaxFaults
    BY <1>1, Faulted DEF checkpoint_fails
  <2> QED BY <1>1, <1>7, <2>1, StoreTyped DEF StoreStep, LedgerStep, StartedStep
<1>9. Typing'
  BY <1>1, <1>6, <1>7, <1>8, StoreStepTyped DEF Typing, TypeOK, Records, Statuses, CallIds
<1>10. InMemory(p)' /\ RoundIsDurable(p)'
  <2>1. lease.owner = p => /\ task.phase = "created"
                           /\ IsPrefix(session.messages, e.messages)
    BY <1>1, <1>2, <1>4, FieldsTyped, PrefixTransitive DEF InMemory
  <2>2. e.pc = "idle"
    BY <1>4
  <2> QED BY <2>1, <2>2, <1>3, <1>6, <1>7 DEF InMemory, RoundIsDurable
<1>11. MessagesStep(p) /\ LeaseStep(p)
  BY <1>4, <1>6, <1>7 DEF MessagesStep, LeaseStep
<1> QED BY <1>3, <1>4, <1>6, <1>7, <1>8, <1>9, <1>10, <1>11 DEF Step, StoreStep

LEMMA RunAgain ==
  ASSUME Histories, NEW p \in Procs, run_again(p)
  PROVE  Typing' /\ Step(p)
<1>1. Typing /\ InMemory(p) /\ proc[p].pc = "idle"
  BY DEF Histories, run_again, At
<1>2. /\ "begin" \in Stages /\ "begin" \notin Hot \cup Unsaved \cup Tooling \cup {"checkpoint", "new"}
      /\ "begin" \in Retried /\ "idle" \in Retried
  BY SMTT(30) DEF Stages, Unfenced, Hot, Unsaved, Tooling, Retried
<1> DEFINE e == [proc[p] EXCEPT !.pc = "begin"]
<1>3. e \in Engines /\ e.pc = "begin" /\ e.messages = proc[p].messages
  BY <1>1, <1>2, EngineTyped DEF Engines
<1>4. proc' = [proc EXCEPT ![p] = e]
  BY DEF run_again, Goto
<1> HIDE DEF e
<1>5. proc' \in [Procs -> Engines] /\ proc'[p] = e /\ Only(p)
  BY <1>1, <1>3, <1>4, Becomes
<1>6. /\ lease' = lease /\ session' = session /\ task' = task /\ clock' = clock
      /\ ledger' = ledger /\ started' = started /\ faults' = faults
  BY DEF run_again, stored
<1>7. StoreStep(p)
  BY <1>6, StoreKept
<1>8. Typing'
  BY <1>1, <1>5, <1>6, <1>7, StoreStepTyped DEF Typing, TypeOK, Records, Statuses, CallIds
<1>9. InMemory(p)' /\ RoundIsDurable(p)'
  BY <1>1, <1>2, <1>3, <1>5, <1>6 DEF InMemory, RoundIsDurable
<1>10. MessagesStep(p) /\ LeaseStep(p)
  BY <1>3, <1>5, <1>6 DEF MessagesStep, LeaseStep
<1> QED BY <1>2, <1>3, <1>5, <1>6, <1>7, <1>8, <1>9, <1>10 DEF Step, StoreStep

-----------------------------------------------------------------------------
(* A provider turn.                                                           *)

LEMMA SaveBeforeTurn ==
  ASSUME Histories, NEW p \in Procs,
         save_before_turn(p) \/ save_final(p) \/ save_tools(p)
  PROVE  Typing' /\ Step(p)
<1>1. \A x \in {"await", "finish", "round"} : x \in Stages /\ x \notin Hot \cup {"checkpoint", "new"}
  BY SMTT(30) DEF Stages, Hot
<1>2. proc[p].messages \in Seq(Tags)
  BY EngineTyped DEF Histories
<1>3. PICK x \in {"await", "finish", "round"} : save(p, proc[p].messages, x)
  BY DEF save_before_turn, save_final, save_tools
<1>4. StoreStep(p)
  BY StoreKept DEF save_before_turn, save_final, save_tools
<1> QED BY <1>1, <1>2, <1>3, <1>4, SavesHistory

\* A phase is recorded and the engine goes on.
LEMMA RecordsPhase ==
  ASSUME Histories, NEW p \in Procs, NEW phase \in Phases, NEW call \in CallIds,
         transition_task(p, phase, call), NEW x \in Stages, Goto(p, x), Stays(p, x),
         x \notin Hot \/ HotStep(p),
         UNCHANGED <<clock, ledger, started, faults>>
  PROVE  Typing' /\ Step(p)
<1>1. Typing
  BY DEF Histories
<1>2. /\ task' \in [phase : Phases, call : CallIds, rev : Nat]
      /\ lease.owner = p /\ lease' = lease /\ session' = session
  BY <1>1, Transitions
<1>3. StoreStep(p)
  BY <1>1, <1>2, StoreTyped DEF StoreStep, LedgerStep, StartedStep
<1> QED BY <1>2, <1>3, GoesTo

LEMMA CallsTyped ==
  ASSUME Typing, NEW p \in Procs
  PROVE  /\ NoCall \in CallIds /\ proc[p].call \in CallIds /\ provider_call_id(p) \in CallIds
         /\ \A n \in Nat : tool_round_call_id(p, n) \in CallIds
BY EngineTyped, IdsTyped DEF CallIds

LEMMA ProviderPhase ==
  ASSUME Histories, NEW p \in Procs,
         record_awaiting_provider(p) \/ record_provider_in_flight(p)
           \/ record_completed_durable_task(p)
  PROVE  Typing' /\ Step(p)
<1>1. Typing /\ NoCall \in CallIds /\ provider_call_id(p) \in CallIds
  BY CallsTyped DEF Histories
<1>2. {"awaiting_provider", "provider_in_flight", "completed"} \subseteq Phases
  BY SMTT(30) DEF Phases, Terminal
<1>3. CASE record_awaiting_provider(p)
  <2>1. "recover" \in Stages /\ "recover" \notin Hot
    BY SMTT(30) DEF Stages, Unfenced, Hot
  <2>2. Stays(p, "recover")
    BY <1>3, SMTT(30) DEF record_awaiting_provider, At, Stays, Unsaved, Retried, Tooling
  <2> QED BY <1>1, <1>2, <1>3, <2>1, <2>2, RecordsPhase DEF record_awaiting_provider
<1>4. CASE record_provider_in_flight(p)
  <2>1. "execute" \in Stages /\ HotStep(p)
    BY <1>4, SMTT(30) DEF Stages, Unfenced, HotStep
  <2>2. Stays(p, "execute")
    BY <1>4, SMTT(30) DEF record_provider_in_flight, At, Stays, Unsaved, Retried, Tooling
  <2> QED BY <1>1, <1>2, <1>4, <2>1, <2>2, RecordsPhase DEF record_provider_in_flight
<1>5. CASE record_completed_durable_task(p)
  <2>1. "done" \in Stages /\ "done" \notin Hot
    BY SMTT(30) DEF Stages, Unfenced, Hot
  <2>2. Stays(p, "done")
    BY SMTT(30) DEF Stays, Unsaved
  <2> QED BY <1>1, <1>2, <1>5, <2>1, <2>2, RecordsPhase DEF record_completed_durable_task
<1> QED BY <1>3, <1>4, <1>5

LEMMA RequireResume ==
  ASSUME Histories, NEW p \in Procs, require_resume_call_id(p)
  PROVE  Typing' /\ Step(p)
<1>1. PICK x \in {"recover", "refused"} : Goto(p, x)
  BY DEF require_resume_call_id
<1>2. x \in Stages /\ x \notin Hot
  BY SMTT(30) DEF Stages, Unfenced, Hot
<1>3. Stays(p, x)
  BY SMTT(30) DEF require_resume_call_id, At, Stays, Unsaved, Retried, Tooling
<1>4. StoreStep(p) /\ session' = session /\ lease' = lease
  BY StoreKept DEF require_resume_call_id, stored
<1> QED BY <1>1, <1>2, <1>3, <1>4, GoesTo

LEMMA EnsureFence ==
  ASSUME Histories, NEW p \in Procs, ensure_session_fence(p)
  PROVE  Typing' /\ Step(p)
<1>1. PICK x \in Intending :
        Goto(p, x) /\ proc[p].pc = (IF x = "intent" THEN "fence" ELSE "tool_fence")
  BY SMTT(30) DEF ensure_session_fence, At, Intending
<1>2. x \in Stages /\ HotStep(p)
  BY SMTT(30) DEF Stages, Unfenced, HotStep, Intending
<1>3. lease.owner = p /\ lease' = Renewed /\ session' = session
  BY DEF ensure_session_fence, require_current_lease
<1>4. Stays(p, x)
  BY <1>1, <1>3, SMTT(30) DEF Stays, Unsaved, Retried, Tooling, Intending
<1>5. StoreStep(p)
  BY StoreKept DEF ensure_session_fence
<1> QED BY <1>1, <1>2, <1>3, <1>4, <1>5, GoesTo

\* recover_effect: "execute" only where there is no intent, or a replay is safe;
\* any other status but "reconcile" is that of a recorded outcome.
LEMMA Recovered ==
  ASSUME Typing, NEW e, NEW safe, NEW f, f = recover_effect(e, safe)
  PROVE  /\ f \in Found
         /\ f = "execute" => Intents(e) = {} \/ safe
         /\ f \notin {"execute", "reconcile"} => Outcomes(e, f) # {} /\ f # "unknown"
<1> DEFINE intents == Positions("intent", e)
           last == CHOOSE i \in intents : \A j \in intents : j <= i
           outcomes == {i \in Positions("outcome", e) : i > last}
           o == CHOOSE i \in outcomes : TRUE
<1>1. "execute" \in Found /\ "reconcile" \in Found /\ "execute" \notin Statuses
  BY SMTT(30) DEF Found, Statuses, Replied
<1>2. CASE intents = {}
  BY <1>1, <1>2 DEF recover_effect, Intents
<1>3. CASE intents # {} /\ outcomes # {}
  <2>1. o \in Positions("outcome", e)
    BY <1>3
  <2>2. ledger[o].status \in Statuses
    BY <2>1, FieldsTyped DEF Positions, Records
  <2>3. f = IF ledger[o].status = "unknown" THEN "reconcile" ELSE ledger[o].status
    BY <1>3 DEF recover_effect
  <2> HIDE DEF o
  <2>4. ledger[o].status # "unknown" => Outcomes(e, ledger[o].status) # {}
    BY <2>1 DEF Outcomes
  <2> QED BY <2>2, <2>3, <2>4, <1>1 DEF Found
<1>4. CASE intents # {} /\ outcomes = {}
  <2>1. f = IF safe THEN "execute" ELSE "reconcile"
    BY <1>4 DEF recover_effect
  <2> QED BY <2>1, <1>1
<1> QED BY <1>2, <1>3, <1>4

LEMMA RecoverProvider ==
  ASSUME Histories, NEW p \in Procs, recover_provider_effect(p)
  PROVE  Typing' /\ Step(p)
<1>1. Typing /\ proc[p].pc = "recover"
  BY DEF Histories, recover_provider_effect, At
<1>2. PICK f \in Found : f = recover_effect(provider_call_id(p), FALSE)
  BY <1>1, Recovered
<1>3. PICK x \in {"fence", "refused", "completed_call"} :
        x = CASE f = "execute" -> "fence" [] f = "reconcile" -> "refused"
              [] OTHER -> "completed_call"
  BY SMTT(30)
<1>4. /\ x \in Stages /\ x \notin Tooling \cup {"new", "checkpoint"}
      /\ "recover" \notin Unsaved \cup Retried \cup {"new"}
  BY SMTT(30) DEF Stages, Unfenced, Tooling, Unsaved, Retried
<1> DEFINE e == [proc[p] EXCEPT !.pc = x, !.reply = f]
<1>5. proc' = [proc EXCEPT ![p] = e]
  BY <1>2, <1>3 DEF recover_provider_effect
<1>6. e \in Engines /\ e.pc = x /\ e.messages = proc[p].messages
  BY <1>1, <1>4, EngineTyped DEF Engines
<1> HIDE DEF e
<1>7. Stays(p, e.pc)
  BY <1>1, <1>4, <1>6 DEF Stays
<1>8. StoreStep(p) /\ session' = session /\ lease' = lease /\ HotStep(p)
  BY StoreKept DEF recover_provider_effect, stored, HotStep
<1> QED BY <1>5, <1>6, <1>7, <1>8, GoesOn

\* A record of p's is appended.
LEMMA Appends ==
  ASSUME Histories, NEW p \in Procs, NEW r \in Records, Writes(p, r),
         ledger' = Append(ledger, r) \/ ledger' = ledger,
         clock' = clock, started' = started, task' = task, faults' \in 0..MaxFaults
  PROVE  StoreStep(p)
BY StoreTyped DEF Histories, StoreStep, LedgerStep, StartedStep

LEMMA Intent ==
  ASSUME Histories, NEW p \in Procs, record_provider_intent(p) \/ record_tool_intent(p)
  PROVE  Typing' /\ Step(p)
<1>1. Typing /\ provider_call_id(p) \in Effects /\ tool_effect_id(p) \in Effects
  BY IdsTyped DEF Histories
<1>2. PICK x \in {"in_flight", "tool_execute"} :
        /\ Goto(p, x)
        /\ x = "in_flight" => proc[p].pc = "intent" /\ append_intent(provider_call_id(p))
        /\ x = "tool_execute" => proc[p].pc = "tool_intent" /\ append_intent(tool_effect_id(p))
  BY SMTT(30) DEF record_provider_intent, record_tool_intent, At
<1>3. x \in Stages /\ HotStep(p)
  BY SMTT(30) DEF Stages, Unfenced, HotStep
<1>4. Stays(p, x)
  BY <1>2, SMTT(30) DEF Stays, Unsaved, Retried, Tooling
<1>5. session' = session /\ lease' = lease /\ task' = task /\ clock' = clock
      /\ started' = started /\ faults' = faults
  BY DEF record_provider_intent, record_tool_intent, stored
<1>6. proc'[p].pc = x
  BY <1>1, <1>2, SMTT(30) DEF Goto, Typing, Engines
<1> DEFINE r(e) == [type |-> "intent", effect |-> e, status |-> "none"]
<1>7. \A e \in Effects : /\ r(e) \in Records /\ r(e).type = "intent" /\ r(e).effect = e
                         /\ append_intent(e) <=> ledger' = Append(ledger, r(e))
  BY SMTT(30) DEF Records, Statuses, append_intent
<1> HIDE DEF r
<1>8. \E s \in Records : Writes(p, s) /\ ledger' = Append(ledger, s)
  <2>1. CASE x = "in_flight"
    BY <2>1, <1>1, <1>2, <1>6, <1>7 DEF Writes
  <2>2. CASE x = "tool_execute"
    BY <2>2, <1>1, <1>2, <1>6, <1>7 DEF Writes
  <2> QED BY <2>1, <2>2
<1>9. StoreStep(p)
  BY <1>1, <1>5, <1>8, Appends, StoreTyped
<1> QED BY <1>2, <1>3, <1>4, <1>5, <1>9, GoesTo

LEMMA RepliesTyped ==
  ASSUME NEW p \in Procs
  PROVE  /\ Replies(p) \subseteq Replied \cup {"error"}
         /\ Replied \cup {"error", "unknown"} \subseteq Statuses /\ Statuses \subseteq Found
<1>1. /\ {"tools", "truncated", "final", "error"} \subseteq Replied \cup {"error"}
      /\ {"final", "error"} \subseteq Replied \cup {"error"}
  BY SMTT(30) DEF Replied
<1>2. Replied \cup {"error", "unknown"} \subseteq Statuses /\ Statuses \subseteq Found
  BY SMTT(30) DEF Statuses, Found
<1> QED BY <1>1, <1>2 DEF Replies

LEMMA Stream ==
  ASSUME Histories, NEW p \in Procs, provider_stream(p)
  PROVE  Typing' /\ Step(p)
<1>1. Typing /\ proc[p].pc = "execute" /\ provider_call_id(p) \in Effects
  BY IdsTyped DEF Histories, provider_stream, At
<1>2. PICK r \in Found : proc' = [proc EXCEPT ![p].reply = r, ![p].pc = "outcome"]
  BY RepliesTyped DEF provider_stream
<1>3. "outcome" \in Stages /\ HotStep(p)
  BY SMTT(30) DEF Stages, Unfenced, HotStep
<1> DEFINE e == [proc[p] EXCEPT !.reply = r, !.pc = "outcome"]
<1>4. e \in Engines /\ e.pc = "outcome" /\ e.messages = proc[p].messages
  BY <1>1, <1>3, EngineTyped DEF Engines
<1>5. proc' = [proc EXCEPT ![p] = e]
  BY <1>2
<1> HIDE DEF e
<1>6. Stays(p, e.pc)
  BY <1>1, <1>4, SMTT(30) DEF Stays, Unsaved, Retried, Tooling
<1>7. session' = session /\ lease' = lease /\ task' = task /\ clock' = clock
      /\ ledger' = ledger /\ faults' = faults /\ started' = Append(started, provider_call_id(p))
  BY DEF provider_stream, stored
<1>8. proc'[p].pc = "outcome"
  BY <1>1, <1>4, <1>5, Becomes
<1>9. StoreStep(p)
  BY <1>1, <1>7, <1>8, StoreTyped DEF StoreStep, LedgerStep, StartedStep, Begins
<1> QED BY <1>3, <1>4, <1>5, <1>6, <1>7, <1>9, GoesOn

\* An outcome is appended unless there is one.
LEMMA Persists ==
  ASSUME Histories, NEW p \in Procs, NEW e \in Effects, NEW status \in Statuses,
         persist_canonical_effect_outcome(e, status),
         \/ /\ e = provider_call_id(p) /\ proc[p].pc \in {"execute", "outcome"}
            /\ status \in Replied \cup {"error", "unknown"}
         \/ e = tool_effect_id(p) /\ proc[p].pc \in {"tool_execute", "tool_outcome"},
         clock' = clock, started' = started, task' = task, faults' \in 0..MaxFaults
  PROVE  StoreStep(p)
<1> DEFINE r == [type |-> "outcome", effect |-> e, status |-> status]
<1>1. r \in Records /\ r.type = "outcome" /\ r.effect = e /\ r.status = status
  BY SMTT(30) DEF Records
<1>2. ledger' = Append(ledger, r) \/ ledger' = ledger
  BY DEF persist_canonical_effect_outcome
<1> HIDE DEF r
<1>3. Writes(p, r)
  BY <1>1 DEF Writes
<1> QED BY <1>1, <1>2, <1>3, Appends

LEMMA LedgerKept ==
  ASSUME Histories, NEW p \in Procs, clock' = clock, started' = started, task' = task,
         ledger' = ledger, faults' \in 0..MaxFaults
  PROVE  StoreStep(p)
BY StoreTyped DEF Histories, StoreStep, LedgerStep, StartedStep

LEMMA ProviderOutcome ==
  ASSUME Histories, RepliesRecorded, NEW p \in Procs, record_provider_outcome(p)
  PROVE  Typing' /\ Step(p)
<1>1. Typing /\ provider_call_id(p) \in Effects /\ proc[p].pc = "outcome"
  BY IdsTyped DEF Histories, record_provider_outcome, At
<1>2. session' = session /\ lease' = lease /\ task' = task /\ clock' = clock
      /\ started' = started
  BY DEF record_provider_outcome, stored
<1>3. PICK x \in {"completed_call", "guard_drop"} : Goto(p, x)
  BY DEF record_provider_outcome
<1>4. x \in Stages /\ HotStep(p)
  BY SMTT(30) DEF Stages, HotStep
<1>5. Stays(p, x)
  BY <1>1, SMTT(30) DEF Stays, Unsaved, Retried, Tooling
<1>6. faults' \in 0..MaxFaults
  <2>1. faults \in 0..MaxFaults
    BY <1>1, StoreTyped
  <2>2. faults' = faults \/ faults' \in {faults} \/ faults' \in {faults + 1} \cap 0..MaxFaults
    BY DEF record_provider_outcome
  <2> QED BY <2>1, <2>2
<1>7. StoreStep(p)
  <2>1. CASE ledger' = ledger
    BY <2>1, <1>2, <1>6, LedgerKept
  <2>2. CASE persist_canonical_effect_outcome(provider_call_id(p), proc[p].reply)
    <3>1. proc[p].reply \in Replied \cup {"error"}
      BY <1>1 DEF RepliesRecorded
    <3> QED BY <2>2, <3>1, <1>1, <1>2, <1>6, Persists, RepliesTyped
  <2> QED BY <2>1, <2>2 DEF record_provider_outcome
<1> QED BY <1>2, <1>3, <1>4, <1>5, <1>7, GoesTo

\* The reply joins the history in memory.
LEMMA ProviderCompleted ==
  ASSUME Histories, RepliesRecorded, NEW p \in Procs, record_provider_completed(p)
  PROVE  Typing' /\ Step(p)
<1>1. Typing /\ InMemory(p) /\ provider_call_id(p) \in CallIds /\ proc[p].pc = "completed_call"
  BY CallsTyped DEF Histories, record_provider_completed, At
<1>2. proc[p].reply \in Replied \cup {"error"}
  BY <1>1 DEF RepliesRecorded
<1>3. /\ task' \in [phase : Phases, call : CallIds, rev : Nat]
      /\ lease.owner = p /\ lease' = lease /\ session' = session
  <2>1. "provider_completed" \in Phases
    BY DEF Phases
  <2> QED BY <1>1, <2>1, Transitions DEF record_provider_completed
<1>4. StoreStep(p)
  BY <1>1, <1>3, StoreTyped DEF record_provider_completed, StoreStep, LedgerStep, StartedStep
<1>5. PICK s \in Seq(Tags), k \in Kinds, x \in {"save_tools", "save_final", "turn", "idle"} :
        /\ s = IF proc[p].reply = "error" THEN proc[p].messages
               ELSE Append(proc[p].messages, proc[p].reply)
        /\ k = IF proc[p].reply = "truncated" THEN "continuation" ELSE proc[p].kind
        /\ x = CASE proc[p].reply = "tools" -> "save_tools" [] proc[p].reply = "final" -> "save_final"
                 [] proc[p].reply = "truncated" -> "turn" [] OTHER -> "idle"
  <2>1. proc[p].messages \in Seq(Tags) /\ proc[p].kind \in Kinds
    BY <1>1, EngineTyped
  <2>2. \E s \in Seq(Tags) : s = IF proc[p].reply = "error" THEN proc[p].messages
                                 ELSE Append(proc[p].messages, proc[p].reply)
    BY <2>1, <1>2, AppendTyped DEF Replied, Tags
  <2>3. \E k \in Kinds : k = IF proc[p].reply = "truncated" THEN "continuation" ELSE proc[p].kind
    BY <2>1 DEF Kinds
  <2>4. \E x \in {"save_tools", "save_final", "turn", "idle"} :
          x = CASE proc[p].reply = "tools" -> "save_tools" [] proc[p].reply = "final" -> "save_final"
                [] proc[p].reply = "truncated" -> "turn" [] OTHER -> "idle"
    BY SMTT(30)
  <2> QED BY <2>2, <2>3, <2>4
<1>6. x \in Stages /\ x \notin Hot \cup Tooling \cup {"new", "checkpoint"}
      /\ (x \in Unsaved \/ (x = "idle" /\ s = proc[p].messages))
  BY <1>2, <1>5, SMTT(30) DEF Stages, Unfenced, Hot, Tooling, Unsaved, Replied
<1> DEFINE e == [proc[p] EXCEPT !.messages = s, !.kind = k, !.pc = x]
<1>7. proc' = [proc EXCEPT ![p] = e]
  BY <1>5 DEF record_provider_completed
<1>8. e \in Engines /\ e.pc = x /\ e.messages = s
  BY <1>1, <1>6, EngineTyped DEF Engines
<1> HIDE DEF e
<1>9. proc' \in [Procs -> Engines] /\ proc'[p] = e /\ Only(p)
  BY <1>1, <1>7, <1>8, Becomes
<1>10. Typing'
  BY <1>1, <1>3, <1>4, <1>9, StoreStepTyped DEF Typing, TypeOK, Records, Statuses, CallIds
<1>11. MessagesStep(p) /\ LeaseStep(p)
  BY <1>1, <1>2, <1>3, <1>5, <1>8, <1>9 DEF MessagesStep, LeaseStep
<1>12. InMemory(p)' /\ RoundIsDurable(p)'
  <2>1. proc[p].messages = session.messages
    <3>1. "completed_call" \notin Unsaved \cup Retried
      BY SMTT(30) DEF Unsaved, Retried
    <3> QED BY <3>1, <1>1, <1>3 DEF InMemory
  <2>2. IsPrefix(session.messages, s)
    <3>1. proc[p].reply # "error" => proc[p].reply \in Tags
      BY <1>2 DEF Replied, Tags
    <3> QED BY <2>1, <3>1, <1>1, <1>5, FieldsTyped, PrefixSelf, PrefixAppend
  <2>3. x \in Unsaved => x \notin Retried
    BY SMTT(30) DEF Unsaved, Retried
  <2>4. x # "new" /\ x # "checkpoint" /\ x \notin Tooling
    BY <1>6
  <2>5. CASE x \in Unsaved
    BY <2>2, <2>3, <2>4, <2>5, <1>3, <1>8, <1>9 DEF InMemory, RoundIsDurable
  <2>6. CASE s = session.messages
    BY <2>2, <2>4, <2>6, <1>3, <1>8, <1>9 DEF InMemory, RoundIsDurable
  <2> QED BY <2>1, <2>5, <2>6, <1>6
<1> QED BY <1>3, <1>4, <1>6, <1>8, <1>9, <1>10, <1>11, <1>12 DEF Step, StoreStep

-----------------------------------------------------------------------------
(* A tool round.                                                              *)

LEMMA BeginRound ==
  ASSUME Histories, NEW p \in Procs, begin_tool_round(p)
  PROVE  Typing' /\ Step(p)
<1>1. Typing /\ proc[p].pc = "round"
  BY DEF Histories, begin_tool_round, At
<1>2. PICK c \in CallIds : /\ transition_task(p, "tools_in_flight", c)
                           /\ proc' = [proc EXCEPT ![p].pc = "tool", ![p].tool = 1,
                                                   ![p].call = c, ![p].unknown = FALSE]
  <2>1. task.rev + 1 \in Nat
    BY <1>1, FieldsTyped, SMTT(30)
  <2> QED BY <1>1, <2>1, CallsTyped DEF begin_tool_round
<1>3. /\ task' \in [phase : Phases, call : CallIds, rev : Nat]
      /\ lease.owner = p /\ lease' = lease /\ session' = session
  <2>1. "tools_in_flight" \in Phases
    BY DEF Phases
  <2> QED BY <1>1, <1>2, <2>1, Transitions
<1>4. StoreStep(p)
  BY <1>1, <1>3, StoreTyped DEF begin_tool_round, StoreStep, LedgerStep, StartedStep
<1>5. "tool" \in Stages /\ "tool" \notin Hot /\ Stays(p, "tool") /\ 1 \in Nat
  BY <1>1, SMTT(30) DEF Stages, Unfenced, Hot, Stays, Unsaved, Retried, Tooling
<1> DEFINE e == [proc[p] EXCEPT !.pc = "tool", !.tool = 1, !.call = c, !.unknown = FALSE]
<1>6. proc' = [proc EXCEPT ![p] = e]
  BY <1>2
<1>7. e \in Engines /\ e.pc = "tool" /\ e.messages = proc[p].messages
  BY <1>1, <1>5, EngineTyped DEF Engines
<1> HIDE DEF e
<1> QED BY <1>3, <1>4, <1>5, <1>6, <1>7, GoesOn

\* The engine goes on to the next call, or ends the round.
LEMMA NextCall ==
  ASSUME Histories, NEW p \in Procs, proc[p].pc \in {"tool", "tool_outcome"},
         \/ proc' = [proc EXCEPT ![p].pc = NextTool(p), ![p].tool = @ + 1]
         \/ proc' = [proc EXCEPT ![p].unknown = TRUE, ![p].pc = "save_results"],
         session' = session, lease' = lease, StoreStep(p)
  PROVE  Typing' /\ Step(p)
<1>1. Typing
  BY DEF Histories
<1>2. \A x \in {"tool", "save_results"} : x \in Stages /\ x \notin Hot /\ Stays(p, x)
  BY SMTT(30) DEF Stages, Unfenced, Hot, Stays, Unsaved, Retried, Tooling
<1>3. CASE proc' = [proc EXCEPT ![p].pc = NextTool(p), ![p].tool = @ + 1]
  <2>1. PICK x \in Stages, n \in Nat : x = NextTool(p) /\ n = proc[p].tool + 1
                                        /\ x \notin Hot /\ Stays(p, x)
    <3>1. \E n \in Nat : n = proc[p].tool + 1
      BY <1>1, EngineTyped, SMTT(30)
    <3>2. \E x \in {"tool", "save_results"} : x = NextTool(p)
      BY DEF NextTool
    <3> QED BY <1>2, <3>1, <3>2
  <2> DEFINE e == [proc[p] EXCEPT !.pc = x, !.tool = n]
  <2>2. proc' = [proc EXCEPT ![p] = e]
    BY <1>3, <2>1
  <2>3. e \in Engines /\ e.pc = x /\ e.messages = proc[p].messages
    BY <1>1, EngineTyped DEF Engines
  <2> HIDE DEF e
  <2> QED BY <2>1, <2>2, <2>3, GoesOn
<1>4. CASE proc' = [proc EXCEPT ![p].unknown = TRUE, ![p].pc = "save_results"]
  <2> DEFINE e == [proc[p] EXCEPT !.unknown = TRUE, !.pc = "save_results"]
  <2>1. proc' = [proc EXCEPT ![p] = e]
    BY <1>4
  <2>2. "save_results" \in Stages /\ "save_results" \notin Hot /\ Stays(p, "save_results")
    BY <1>2
  <2>3. e \in Engines /\ e.pc = "save_results" /\ e.messages = proc[p].messages
    BY <1>1, <2>2, EngineTyped DEF Engines
  <2> HIDE DEF e
  <2> QED BY <2>1, <2>2, <2>3, GoesOn
<1> QED BY <1>3, <1>4

LEMMA RecoverTool ==
  ASSUME Histories, NEW p \in Procs, recover_tool_effect(p)
  PROVE  Typing' /\ Step(p)
<1>1. proc[p].pc = "tool" /\ session' = session /\ lease' = lease /\ StoreStep(p) /\ HotStep(p)
  BY StoreKept DEF recover_tool_effect, At, stored, HotStep
<1>2. CASE Goto(p, "tool_fence")
  <2>1. "tool_fence" \in Stages /\ Stays(p, "tool_fence")
    BY <1>1, SMTT(30) DEF Stages, Stays, Unsaved, Retried, Tooling
  <2> QED BY <1>1, <1>2, <2>1, GoesTo
<1>3. CASE ~Goto(p, "tool_fence")
  BY <1>1, <1>3, NextCall DEF recover_tool_effect
<1> QED BY <1>2, <1>3

LEMMA ExecuteTool ==
  ASSUME Histories, NEW p \in Procs, execute_single(p)
  PROVE  Typing' /\ Step(p)
<1>1. Typing /\ proc[p].pc = "tool_execute" /\ tool_effect_id(p) \in Effects
  BY IdsTyped DEF Histories, execute_single, At
<1>2. session' = session /\ lease' = lease /\ task' = task /\ clock' = clock
      /\ ledger' = ledger /\ faults' = faults /\ started' = Append(started, tool_effect_id(p))
  BY DEF execute_single, stored
<1>3. "tool_outcome" \in Stages /\ HotStep(p) /\ Stays(p, "tool_outcome")
  BY <1>1, SMTT(30) DEF Stages, Unfenced, HotStep, Stays, Unsaved, Retried, Tooling
<1>4. proc'[p].pc = "tool_outcome"
  BY <1>1, SMTT(30) DEF execute_single, Goto, Typing, Engines
<1>5. StoreStep(p)
  BY <1>1, <1>2, <1>4, StoreTyped DEF StoreStep, LedgerStep, StartedStep, Begins
<1> QED BY <1>2, <1>3, <1>5, GoesTo DEF execute_single

LEMMA ToolOutcome ==
  ASSUME Histories, NEW p \in Procs, record_tool_outcome(p)
  PROVE  Typing' /\ Step(p)
<1>1. Typing /\ tool_effect_id(p) \in Effects /\ proc[p].pc = "tool_outcome"
  BY IdsTyped DEF Histories, record_tool_outcome, At
<1>2. session' = session /\ lease' = lease /\ task' = task /\ clock' = clock
      /\ started' = started
  BY DEF record_tool_outcome, stored
<1>3. faults' \in 0..MaxFaults
  <2>1. faults' = faults \/ (faults < MaxFaults /\ faults' = faults + 1)
    BY DEF record_tool_outcome
  <2> QED BY <1>1, <2>1, Faulted, StoreTyped
<1>4. "executed" \in Statuses /\ "unknown" \in Statuses
  BY SMTT(30) DEF Statuses
<1>5. \/ ledger' = ledger
      \/ \E status \in Statuses : persist_canonical_effect_outcome(tool_effect_id(p), status)
  BY <1>4 DEF record_tool_outcome
<1>6. StoreStep(p)
  BY <1>1, <1>2, <1>3, <1>5, LedgerKept, Persists
<1> QED BY <1>1, <1>2, <1>6, NextCall DEF record_tool_outcome

LEMMA SaveResults ==
  ASSUME Histories, NEW p \in Procs, save_tool_results(p)
  PROVE  Typing' /\ Step(p)
<1>1. Append(proc[p].messages, "results") \in Seq(Tags)
  BY EngineTyped, AppendTyped DEF Histories, Tags
<1>2. PICK x \in {"side_effect_unknown", "tools_completed"} :
        save(p, Append(proc[p].messages, "results"), x)
  BY DEF save_tool_results
<1>3. x \in Stages /\ x \notin Hot \cup {"checkpoint", "new"}
  BY SMTT(30) DEF Stages, Hot
<1>4. StoreStep(p)
  BY StoreKept DEF save_tool_results
<1> QED BY <1>1, <1>2, <1>3, <1>4, SavesHistory

LEMMA RecordRound ==
  ASSUME Histories, NEW p \in Procs, record_tool_round(p)
  PROVE  Typing' /\ Step(p)
<1>1. Typing /\ proc[p].call \in CallIds /\ NoCall \in CallIds
  BY CallsTyped DEF Histories
<1>2. "tools_completed" \in Phases /\ "side_effect_unknown" \in Phases
  BY SMTT(30) DEF Phases, Terminal
<1>3. CASE At(p, "side_effect_unknown")
  <2>1. "idle" \in Stages /\ "idle" \notin Hot /\ Stays(p, "idle")
    BY <1>3, SMTT(30) DEF At, Stages, Unfenced, Hot, Stays, Unsaved, Retried, Tooling
  <2>2. transition_task(p, "side_effect_unknown", proc[p].call) /\ Goto(p, "idle")
    BY <1>3, SMTT(30) DEF record_tool_round, At
  <2> QED BY <1>1, <1>2, <2>1, <2>2, RecordsPhase DEF record_tool_round
<1>4. CASE At(p, "tools_completed")
  <2>1. /\ transition_task(p, "tools_completed", proc[p].call)
        /\ proc' = [proc EXCEPT ![p].pc = "turn", ![p].kind = "normal", ![p].call = NoCall]
    BY <1>4, SMTT(30) DEF record_tool_round, At
  <2>2. /\ task' \in [phase : Phases, call : CallIds, rev : Nat]
        /\ lease.owner = p /\ lease' = lease /\ session' = session
    BY <1>1, <1>2, <2>1, Transitions
  <2>3. StoreStep(p)
    BY <1>1, <2>2, StoreTyped DEF record_tool_round, StoreStep, LedgerStep, StartedStep
  <2>4. "turn" \in Stages /\ "turn" \notin Hot /\ Stays(p, "turn") /\ "normal" \in Kinds
    BY SMTT(30) DEF Stages, Hot, Stays, Unsaved, Kinds
  <2> DEFINE e == [proc[p] EXCEPT !.pc = "turn", !.kind = "normal", !.call = NoCall]
  <2>5. proc' = [proc EXCEPT ![p] = e]
    BY <2>1
  <2>6. e \in Engines /\ e.pc = "turn" /\ e.messages = proc[p].messages
    BY <1>1, <2>4, EngineTyped DEF Engines
  <2> HIDE DEF e
  <2> QED BY <2>2, <2>3, <2>4, <2>5, <2>6, GoesOn
<1> QED BY <1>3, <1>4 DEF record_tool_round

-----------------------------------------------------------------------------
(* Cancellation, loss of the lease, crash and exit.                           *)

LEMMA Quit ==
  ASSUME Histories, NEW p \in Procs, quit(p)
  PROVE  Typing' /\ Step(p)
<1>1. Typing /\ Append(proc[p].messages, "results") \in Seq(Tags)
  BY EngineTyped, AppendTyped DEF Histories, Tags
<1>2. PICK x \in {"closed_unknown", "closed_aborted"} :
        save(p, Append(proc[p].messages, "results"), x)
  BY DEF quit
<1>3. x \in Stages /\ x \notin Hot \cup {"checkpoint", "new"}
  BY SMTT(30) DEF Stages, Hot
<1>4. faults' \in 0..MaxFaults
  BY <1>1, Faulted DEF quit
<1>5. StoreStep(p)
  BY <1>4, LedgerKept DEF quit
<1> QED BY <1>1, <1>2, <1>3, <1>5, SavesHistory

LEMMA CloseRound ==
  ASSUME Histories, NEW p \in Procs, close_cancelled_tool_round(p)
  PROVE  Typing' /\ Step(p)
<1>1. proc[p].call \in CallIds
  BY EngineTyped DEF Histories
<1>2. PICK y \in {"outcome_unknown", "aborted"} : transition_task(p, y, proc[p].call)
  BY DEF close_cancelled_tool_round
<1>3. y \in Phases
  BY SMTT(30) DEF Phases, Terminal
<1>4. "idle" \in Stages /\ "idle" \notin Hot
  BY SMTT(30) DEF Stages, Unfenced, Hot
<1>5. Stays(p, "idle")
  BY SMTT(30) DEF close_cancelled_tool_round, At, Stays, Unsaved, Retried, Tooling
<1> QED BY <1>1, <1>2, <1>3, <1>4, <1>5, RecordsPhase DEF close_cancelled_tool_round

LEMMA Cancel ==
  ASSUME Histories, NEW p \in Procs, cancel(p)
  PROVE  Typing' /\ Step(p)
<1>1. Typing /\ provider_call_id(p) \in Effects /\ tool_effect_id(p) \in Effects
  BY IdsTyped DEF Histories
<1>2. session' = session /\ lease' = lease /\ task' = task /\ clock' = clock
      /\ started' = started
  BY DEF cancel, stored
<1>3. PICK x \in {"guard_drop", "idle"} : Goto(p, x)
  BY DEF cancel
<1>4. x \in Stages /\ x \notin Hot
  BY SMTT(30) DEF Stages, Unfenced, Hot
<1>5. proc[p].pc \in {"execute", "outcome", "tool_execute", "tool_outcome", "tool", "fence"}
  BY SMTT(30) DEF cancel, At
<1>6. Stays(p, x)
  BY <1>5, SMTT(30) DEF Stays, Unsaved, Retried, Tooling
<1>7. faults' \in 0..MaxFaults
  BY <1>1, Faulted DEF cancel
<1>8. StoreStep(p)
  <2>1. CASE ledger' = ledger
    BY <2>1, <1>2, <1>7, LedgerKept
  <2>2. CASE ledger' # ledger
    <3>1. "unknown" \in Statuses /\ "unknown" \in Replied \cup {"error", "unknown"}
      BY SMTT(30) DEF Statuses
    <3>2. PICK e \in Effects :
            /\ persist_canonical_effect_outcome(e, "unknown")
            /\ \/ e = provider_call_id(p) /\ proc[p].pc \in {"execute", "outcome"}
               \/ e = tool_effect_id(p) /\ proc[p].pc \in {"tool_execute", "tool_outcome"}
      BY <2>2, <1>1 DEF cancel
    <3> QED BY <3>1, <3>2, <1>2, <1>7, Persists
  <2> QED BY <2>1, <2>2
<1> QED BY <1>2, <1>3, <1>4, <1>6, <1>8, GoesTo

LEMMA DropPhaseGuard ==
  ASSUME Histories, NEW p \in Procs, drop_phase_guard(p)
  PROVE  Typing' /\ Step(p)
<1>1. proc[p].pc = "guard_drop" /\ "outcome_unknown" \in Phases
  BY SMTT(30) DEF drop_phase_guard, At, Phases, Terminal
<1>2. PICK c \in CallIds : transition_task(p, "outcome_unknown", c)
  BY CallsTyped DEF drop_phase_guard, Histories
<1>3. PICK x \in {"abort", "idle"} : Goto(p, x)
  BY DEF drop_phase_guard
<1>4. x \in Stages /\ x \notin Hot /\ Stays(p, x)
  BY <1>1, SMTT(30) DEF Stages, Unfenced, Hot, Stays, Unsaved, Retried, Tooling
<1> QED BY <1>1, <1>2, <1>3, <1>4, RecordsPhase DEF drop_phase_guard

LEMMA Abort ==
  ASSUME Histories, NEW p \in Procs, abort_current_turn(p)
  PROVE  Typing' /\ Step(p)
<1>1. CASE proc[p].pc = "abort"
  <2>1. Append(proc[p].messages, "results") \in Seq(Tags)
    BY EngineTyped, AppendTyped DEF Histories, Tags
  <2>2. PICK x \in {"abort_unknown", "abort_phase"} :
          save(p, Append(proc[p].messages, "results"), x) /\ task' = task
    <3>1. proc[p].pc \notin {"abort_unknown", "abort_phase"}
      BY <1>1, SMTT(30)
    <3> QED BY <3>1 DEF abort_current_turn
  <2>3. x \in Stages /\ x \notin Hot \cup {"checkpoint", "new"}
    BY SMTT(30) DEF Stages, Hot
  <2>4. StoreStep(p)
    BY <2>2, StoreKept DEF abort_current_turn
  <2> QED BY <2>1, <2>2, <2>3, <2>4, SavesHistory
<1>2. CASE proc[p].pc \in {"abort_unknown", "abort_phase"}
  <2>1. PICK y \in {"outcome_unknown", "aborted"} :
          transition_task(p, y, NoCall) \/ UNCHANGED stored
    BY <1>2, SMTT(30) DEF abort_current_turn, At
  <2>2. Goto(p, "idle")
    BY <1>2, SMTT(30) DEF abort_current_turn, At
  <2>3. y \in Phases /\ NoCall \in CallIds
    BY SMTT(30) DEF Phases, Terminal, CallIds
  <2>4. "idle" \in Stages /\ "idle" \notin Hot /\ Stays(p, "idle")
    BY <1>2, SMTT(30) DEF Stages, Unfenced, Hot, Stays, Unsaved, Retried, Tooling
  <2>5. CASE transition_task(p, y, NoCall)
    BY <2>2, <2>3, <2>4, <2>5, RecordsPhase DEF abort_current_turn
  <2>6. CASE UNCHANGED stored
    <3>1. StoreStep(p) /\ session' = session /\ lease' = lease
      BY <2>6, StoreKept DEF abort_current_turn, stored
    <3> QED BY <3>1, <2>2, <2>4, GoesTo
  <2> QED BY <2>1, <2>5, <2>6
<1> QED BY <1>1, <1>2 DEF abort_current_turn, At

LEMMA LoseLease ==
  ASSUME Histories, NEW p \in Procs, lose_lease(p)
  PROVE  Typing' /\ Step(p)
<1> DEFINE e == [proc[p] EXCEPT !.trusted = FALSE, !.pc = "failed"]
<1>1. "failed" \in Stages /\ "failed" \notin Hot /\ Stays(p, "failed")
  BY SMTT(30) DEF Stages, Unfenced, Hot, Stays, Unsaved
<1>2. e \in Engines /\ e.pc = "failed" /\ e.messages = proc[p].messages
  BY <1>1, EngineTyped DEF Engines, Histories
<1>3. proc' = [proc EXCEPT ![p] = e]
  BY DEF lose_lease
<1> HIDE DEF e
<1>4. StoreStep(p) /\ session' = session /\ lease' = lease
  BY StoreKept DEF lose_lease, stored
<1> QED BY <1>1, <1>2, <1>3, <1>4, GoesOn

LEMMA Heartbeat ==
  ASSUME Histories, NEW p \in Procs, heartbeat(p)
  PROVE  Typing' /\ Step(p)
<1>1. /\ proc[p].pc # "new" /\ StoreStep(p) /\ session' = session /\ task' = task
      /\ HotStep(p)
  BY StoreKept DEF heartbeat, HotStep
<1>2. PICK b \in BOOLEAN : proc' = [proc EXCEPT ![p] = [proc[p] EXCEPT !.trusted = b]]
  <2>1. CASE UNCHANGED proc
    <3>1. proc[p] \in Engines /\ proc \in [Procs -> Engines]
      BY EngineTyped DEF Histories, Typing
    <3>2. [proc[p] EXCEPT !.trusted = proc[p].trusted] = proc[p]
      BY <3>1, SMTT(30) DEF Engines
    <3>3. proc = [proc EXCEPT ![p] = proc[p]]
      BY <3>1
    <3> QED BY <2>1, <3>1, <3>2, <3>3 DEF Engines
  <2>2. CASE proc' = [proc EXCEPT ![p].trusted = FALSE]
    BY <2>2
  <2> QED BY <2>1, <2>2 DEF heartbeat
<1> DEFINE e == [proc[p] EXCEPT !.trusted = b]
<1>3. e \in Engines /\ e.pc = proc[p].pc /\ e.messages = proc[p].messages
  BY EngineTyped DEF Engines, Histories
<1>4. proc' = [proc EXCEPT ![p] = e]
  BY <1>2
<1> HIDE DEF e
<1>5. lease' = lease \/ (lease' = Renewed /\ lease.owner = p)
  BY DEF heartbeat, require_current_lease
<1>6. Stays(p, e.pc)
  BY <1>1, <1>3 DEF Stays
<1> QED BY <1>1, <1>3, <1>4, <1>5, <1>6, GoesOn

LEMMA Crash ==
  ASSUME Histories, NEW p \in Procs, crash(p)
  PROVE  Typing' /\ Step(p)
<1>1. "dead" \in Stages /\ "dead" \notin Hot /\ Stays(p, "dead")
  BY SMTT(30) DEF Stages, Unfenced, Hot, Stays, Unsaved
<1>2. StoreStep(p) /\ session' = session /\ lease' = lease
  BY StoreKept DEF crash, stored
<1> QED BY <1>1, <1>2, GoesTo DEF crash

LEMMA Release ==
  ASSUME Histories, NEW p \in Procs, release(p)
  PROVE  Typing' /\ Step(p)
<1>1. Typing
  BY DEF Histories
<1>2. "dead" \in Stages /\ "dead" \notin Hot /\ Stays(p, "dead") /\ proc[p].pc \notin Intending
  BY SMTT(30) DEF release, Stages, Unfenced, Hot, Stays, Unsaved, Intending
<1>3. StoreStep(p) /\ session' = session
  BY StoreKept DEF release
<1> DEFINE e == [proc[p] EXCEPT !.pc = "dead"]
<1>4. e \in Engines /\ e.pc = "dead" /\ e.messages = proc[p].messages
  BY <1>1, <1>2, EngineTyped DEF Engines
<1>5. proc' = [proc EXCEPT ![p] = e]
  BY DEF release, Goto
<1> HIDE DEF e
<1>6. proc' \in [Procs -> Engines] /\ proc'[p] = e /\ Only(p)
  BY <1>1, <1>4, <1>5, Becomes
<1>7. /\ lease' \in [owner : Procs \cup {NoProc}, epoch : Nat, expires : Nat]
      /\ lease'.owner = NoProc /\ lease.owner = p
  <2>1. 0 \in Nat
    BY SMTT(30)
  <2> QED BY <1>1, <2>1, StoreTyped DEF release, require_current_lease
<1>8. Typing'
  <2>1. session' \in [revision : Nat, messages : Seq(Tags)]
    BY <1>1, <1>3, StoreTyped
  <2> QED BY <1>1, <1>3, <1>6, <1>7, <2>1, StoreStepTyped DEF Typing, TypeOK, Records, Statuses, CallIds
<1>9. InMemory(p)' /\ RoundIsDurable(p)'
  BY <1>2, <1>3, <1>4, <1>6, <1>7, Stay
<1>10. MessagesStep(p) /\ LeaseStep(p)
  BY <1>2, <1>4, <1>6, <1>7 DEF MessagesStep, LeaseStep
<1> QED BY <1>2, <1>3, <1>4, <1>6, <1>8, <1>9, <1>10 DEF Step, StoreStep

-----------------------------------------------------------------------------
(* Every step is a tick or one that Step allows.                              *)

LEMMA Steps ==
  ASSUME Histories, RepliesRecorded, Next
  PROVE  Typing' /\ (tick \/ \E p \in Procs : Step(p))
<1>1. CASE tick
  <2>1. clock' \in 0..MaxClock
    <3>1. clock \in 0..MaxClock
      BY StoreTyped DEF Histories
    <3> QED BY <1>1, <3>1, BoundsAssumption, SMTT(30) DEF tick
  <2> QED BY <1>1, <2>1 DEF Histories, Typing, TypeOK, tick, stored
<1>2. CASE \E p \in Procs :
       \/ load_active(p) \/ activate_resumed_session(p)
       \/ begin_or_resume_task(p) \/ checkpoint_task_user(p)
       \/ checkpoint_fails(p) \/ run_again(p) \/ save_before_turn(p)
       \/ save_final(p) \/ save_tools(p)
  BY <1>2, Load, Activate, Begin, Checkpoint, CheckpointFails, RunAgain, SaveBeforeTurn
<1>3. CASE \E p \in Procs :
       \/ record_awaiting_provider(p) \/ require_resume_call_id(p)
       \/ recover_provider_effect(p) \/ ensure_session_fence(p)
       \/ record_provider_intent(p) \/ record_provider_in_flight(p)
       \/ provider_stream(p) \/ record_provider_outcome(p)
       \/ record_provider_completed(p) \/ record_completed_durable_task(p)
  BY <1>3, ProviderPhase, RequireResume, RecoverProvider, EnsureFence, Intent, Stream,
     ProviderOutcome, ProviderCompleted
<1>4. CASE \E p \in Procs :
       \/ begin_tool_round(p) \/ recover_tool_effect(p)
       \/ record_tool_intent(p) \/ execute_single(p) \/ record_tool_outcome(p)
       \/ save_tool_results(p) \/ record_tool_round(p)
  BY <1>4, BeginRound, RecoverTool, Intent, ExecuteTool, ToolOutcome, SaveResults, RecordRound
<1>5. CASE \E p \in Procs :
       \/ quit(p) \/ close_cancelled_tool_round(p) \/ cancel(p)
       \/ drop_phase_guard(p) \/ abort_current_turn(p)
       \/ lose_lease(p) \/ heartbeat(p) \/ crash(p) \/ release(p)
  BY <1>5, Quit, CloseRound, Cancel, DropPhaseGuard, Abort, LoseLease, Heartbeat, Crash, Release
<1> QED BY <1>1, <1>2, <1>3, <1>4, <1>5 DEF Next

\* The ledger is append-only, and a new record is the stepping process's.
LEMMA LedgerGrows ==
  ASSUME Typing, NEW p \in Procs, LedgerStep(p)
  PROVE  /\ \A i \in 1..Len(ledger) : i \in 1..Len(ledger') /\ ledger'[i] = ledger[i]
         /\ \A i \in 1..Len(ledger') : i \in 1..Len(ledger) \/ Writes(p, ledger'[i])
         /\ DOMAIN ledger' = 1..Len(ledger')
<1>1. ledger \in Seq(Records) /\ DOMAIN ledger = 1..Len(ledger)
  BY FieldsTyped
<1>2. CASE ledger' = ledger
  BY <1>1, <1>2
<1>3. CASE \E r \in Records : Writes(p, r) /\ ledger' = Append(ledger, r)
  <2>1. PICK r \in Records : Writes(p, r) /\ ledger' = Append(ledger, r)
    BY <1>3
  <2>2. /\ Len(ledger) \in Nat /\ Len(ledger') = Len(ledger) + 1
        /\ ledger'[Len(ledger) + 1] = r /\ DOMAIN ledger' = 1..Len(ledger')
        /\ \A i \in 1..Len(ledger) : ledger'[i] = ledger[i]
    BY <1>1, <2>1, SMTT(30)
  <2>3. /\ \A i \in 1..Len(ledger) : i \in 1..Len(ledger')
        /\ \A i \in 1..Len(ledger') : i \in 1..Len(ledger) \/ i = Len(ledger) + 1
    BY <2>2, SMTT(30)
  <2> QED BY <2>1, <2>2, <2>3
<1> QED BY <1>2, <1>3 DEF LedgerStep

LEMMA MessagesGrow ==
  ASSUME Histories, NEW p \in Procs, MessagesStep(p), lease.owner = p
  PROVE  IsPrefix(session.messages, proc'[p].messages)
<1>1. /\ IsPrefix(session.messages, proc[p].messages) /\ proc[p].pc # "new"
      /\ session.messages \in Seq(Tags) /\ proc[p].messages \in Seq(Tags)
  BY EngineTyped, FieldsTyped DEF Histories, InMemory
<1>2. \A x \in Tags : IsPrefix(session.messages, Append(proc[p].messages, x))
  BY <1>1, PrefixAppend, PrefixTransitive, AppendTyped
<1>3. {"user", "results"} \subseteq Tags /\ Replied \subseteq Tags
  BY DEF Tags, Replied
<1> QED BY <1>1, <1>2, <1>3 DEF MessagesStep

LEMMA HistoryKept ==
  ASSUME Histories, Typing', NEW p \in Procs, Step(p)
  PROVE  Histories' /\ IsPrefix(session.messages, session'.messages)
<1>1. /\ Typing /\ session.messages \in Seq(Tags) /\ IsPrefix(session.messages, session.messages)
      /\ session'.messages \in Seq(Tags)
  <2>1. session'.messages \in Seq(Tags)
    BY DEF Typing, TypeOK
  <2> QED BY <2>1, FieldsTyped, PrefixSelf DEF Histories
<1>2. IsPrefix(session.messages, session'.messages)
  BY <1>1, MessagesGrow DEF Step
<1>3. ASSUME NEW q \in Procs PROVE InMemory(q)' /\ RoundIsDurable(q)'
  <2>1. CASE q = p
    BY <2>1 DEF Step
  <2>2. CASE q # p
    <3>1. proc'[q] = proc[q] /\ InMemory(q) /\ RoundIsDurable(q)
          /\ proc[q].messages \in Seq(Tags)
      BY <2>2, EngineTyped DEF Step, Only, Histories
    <3>2. lease'.owner = q => lease.owner = q /\ session' = session /\ task' = task
      BY <2>2, ProcsAssumption DEF Step, LeaseStep
    <3>3. InMemory(q)'
      BY <3>1, <3>2 DEF InMemory
    <3>4. RoundIsDurable(q)'
      BY <1>1, <1>2, <3>1, PrefixTransitive DEF RoundIsDurable
    <3> QED BY <3>3, <3>4
  <2> QED BY <2>1, <2>2
<1>4. CheckpointedBeforeTools'
  <2> SUFFICES ASSUME NEW i \in DOMAIN ledger', Tool(ledger'[i].effect)
               PROVE  IsPrefix(ledger'[i].effect[2], session'.messages)
    BY DEF CheckpointedBeforeTools, Tool
  <2>1. DOMAIN ledger = 1..Len(ledger) /\ LedgerStep(p)
    BY <1>1, FieldsTyped DEF Step
  <2>2. CASE i \in 1..Len(ledger)
    <3>1. ledger'[i] = ledger[i] /\ ledger[i] \in Records
      BY <1>1, <2>1, <2>2, LedgerGrows, FieldsTyped
    <3>2. ledger[i].effect[2] \in Seq(Tags)
      BY <3>1, SMTT(30) DEF Records, Effects
    <3>3. IsPrefix(ledger[i].effect[2], session.messages)
      BY <2>1, <2>2, <3>1 DEF Histories, CheckpointedBeforeTools
    <3> QED BY <1>1, <1>2, <3>1, <3>2, <3>3, PrefixTransitive
  <2>3. CASE i \notin 1..Len(ledger)
    <3>1. Writes(p, ledger'[i])
      BY <1>1, <2>1, <2>3, LedgerGrows
    <3>2. ledger'[i].effect[2] = proc[p].messages /\ proc[p].pc \in Tooling
      BY <1>1, <3>1, IdsTyped DEF Writes, Tooling
    <3>3. proc[p].messages \in Seq(Tags) /\ IsPrefix(proc[p].messages, session.messages)
      BY <3>2, <1>1, EngineTyped DEF Histories, RoundIsDurable
    <3> QED BY <1>1, <1>2, <3>2, <3>3, PrefixTransitive
  <2> QED BY <2>2, <2>3
<1> QED BY <1>2, <1>3, <1>4 DEF Histories

-----------------------------------------------------------------------------
(* Replies are recorded before they join a history.                           *)

LEMMA PositionsGrow ==
  ASSUME Typing, NEW p \in Procs, LedgerStep(p), NEW type, NEW e
  PROVE  Positions(type, e) \subseteq Positions(type, e)'
BY LedgerGrows, FieldsTyped DEF Positions

LEMMA OutcomesGrow ==
  ASSUME Typing, NEW p \in Procs, LedgerStep(p), NEW e, NEW status, Outcomes(e, status) # {}
  PROVE  Outcomes(e, status)' # {}
<1>1. PICK j \in Positions("outcome", e) : ledger[j].status = status
  BY DEF Outcomes
<1>2. j \in 1..Len(ledger) /\ j \in Positions("outcome", e)'
  BY <1>1, PositionsGrow, FieldsTyped DEF Positions
<1>3. ledger'[j] = ledger[j]
  BY <1>2, LedgerGrows
<1> QED BY <1>1, <1>2, <1>3 DEF Outcomes

LEMMA RecordedKept ==
  ASSUME Typing, NEW p \in Procs, LedgerStep(p), NEW s, Recorded(s)
  PROVE  Recorded(s)'
BY OutcomesGrow DEF Recorded

\* A history that grows by a tag.
LEMMA RecordedAppend ==
  ASSUME NEW s \in Seq(Tags), NEW x \in Tags, Recorded(s)',
         x \in Replied => \E k \in Kinds : Outcomes(<<k, s, 0>>, x)' # {}
  PROVE  Recorded(Append(s, x))'
<1>1. /\ Len(s) \in Nat /\ Len(Append(s, x)) = Len(s) + 1
      /\ Append(s, x)[Len(s) + 1] = x /\ \A i \in 1..Len(s) : Append(s, x)[i] = s[i]
  BY SMTT(30)
<1>2. \A n \in 1..Len(s) + 1 : n \in 1..Len(s) \/ n = Len(s) + 1
  BY <1>1, SMTT(30)
<1>3. SubSeq(Append(s, x), 1, (Len(s) + 1) - 1) = s
  BY SMTT(30)
<1>4. \A n \in 1..Len(s) : SubSeq(Append(s, x), 1, n - 1) = SubSeq(s, 1, n - 1)
  BY SMTT(30)
<1> DEFINE t == Append(s, x)
<1> HIDE DEF t
<1>5. SUFFICES ASSUME NEW n \in 1..Len(t), t[n] \in Replied
               PROVE  \E k \in Kinds : Outcomes(<<k, SubSeq(t, 1, n - 1), 0>>, t[n])' # {}
  BY DEF Recorded, t
<1>6. CASE n \in 1..Len(s)
  <2>1. t[n] = s[n] /\ SubSeq(t, 1, n - 1) = SubSeq(s, 1, n - 1)
    BY <1>1, <1>4, <1>6 DEF t
  <2> QED BY <1>5, <1>6, <2>1 DEF Recorded
<1>7. CASE n = Len(s) + 1
  <2>1. t[n] = x /\ SubSeq(t, 1, n - 1) = s
    BY <1>1, <1>3, <1>7 DEF t
  <2> QED BY <1>5, <2>1
<1>8. n \in 1..Len(s) \/ n = Len(s) + 1
  BY <1>1, <1>2, <1>5 DEF t
<1> QED BY <1>6, <1>7, <1>8

LEMMA GotoFields ==
  ASSUME Typing, NEW p \in Procs, NEW x \in Stages, Goto(p, x)
  PROVE  /\ proc'[p].pc = x /\ proc'[p].reply = proc[p].reply
         /\ provider_call_id(p)' = provider_call_id(p) /\ tool_effect_id(p)' = tool_effect_id(p)
<1> DEFINE e == [proc[p] EXCEPT !.pc = x]
<1>1. /\ e \in Engines /\ e.pc = x /\ e.messages = proc[p].messages
      /\ e.kind = proc[p].kind /\ e.tool = proc[p].tool /\ e.reply = proc[p].reply
  BY EngineTyped DEF Engines
<1>2. proc' = [proc EXCEPT ![p] = e]
  BY DEF Goto
<1> HIDE DEF e
<1>3. proc'[p] = e
  BY <1>1, <1>2, Becomes
<1> QED BY <1>1, <1>3 DEF provider_call_id, tool_effect_id

LEMMA HeartbeatFields ==
  ASSUME Typing, NEW p \in Procs, heartbeat(p)
  PROVE  /\ proc'[p].pc = proc[p].pc /\ proc'[p].reply = proc[p].reply
         /\ provider_call_id(p)' = provider_call_id(p) /\ tool_effect_id(p)' = tool_effect_id(p)
         /\ ledger' = ledger /\ started' = started
         /\ lease'.owner = lease.owner
<1>1. lease'.owner = lease.owner /\ ledger' = ledger /\ started' = started
  BY RenewedTyped DEF heartbeat
<1>2. CASE UNCHANGED proc
  BY <1>1, <1>2 DEF provider_call_id, tool_effect_id
<1>3. CASE proc' = [proc EXCEPT ![p].trusted = FALSE]
  <2> DEFINE e == [proc[p] EXCEPT !.trusted = FALSE]
  <2>1. /\ e \in Engines /\ e.pc = proc[p].pc /\ e.messages = proc[p].messages
        /\ e.kind = proc[p].kind /\ e.tool = proc[p].tool /\ e.reply = proc[p].reply
    BY EngineTyped DEF Engines
  <2>2. proc' = [proc EXCEPT ![p] = e]
    BY <1>3
  <2> HIDE DEF e
  <2>3. proc'[p] = e
    BY <2>1, <2>2, Becomes
  <2> QED BY <1>1, <2>1, <2>3 DEF provider_call_id, tool_effect_id
<1> QED BY <1>2, <1>3 DEF heartbeat

\* The stage a hot step leads to.
LEMMA HotStages ==
  ASSUME Typing, NEW p \in Procs, HotStep(p)
  PROVE  LET x == proc'[p].pc IN
         /\ x \in {"outcome", "completed_call"} =>
              recover_provider_effect(p) \/ provider_stream(p) \/ record_provider_outcome(p)
                \/ heartbeat(p)
         /\ x \in Intending => ensure_session_fence(p) \/ heartbeat(p)
         /\ x \in {"fence", "tool_fence"} =>
              recover_provider_effect(p) \/ recover_tool_effect(p) \/ heartbeat(p)
         /\ x \in {"in_flight", "execute", "tool_execute"} =>
              record_provider_intent(p) \/ record_provider_in_flight(p)
                \/ record_tool_intent(p) \/ heartbeat(p)
<1> DEFINE x == proc'[p].pc
<1>1. {"intent", "tool_intent", "in_flight", "tool_execute", "execute", "outcome",
       "completed_call", "guard_drop", "fence", "refused", "tool_outcome",
       "tool_fence", "tool", "save_results"} \subseteq Stages
  BY SMTT(30) DEF Stages, Unfenced
<1>2. recover_provider_effect(p) => x \in {"fence", "refused", "completed_call"}
  <2>1. proc[p] \in Engines /\ proc \in [Procs -> Engines]
    BY EngineTyped DEF Typing
  <2> QED BY <2>1, SMTT(30) DEF recover_provider_effect, Engines
<1>3. ensure_session_fence(p) => x \in Intending
  BY <1>1, GotoFields DEF ensure_session_fence, Intending
<1>4. record_provider_intent(p) => x = "in_flight"
  BY <1>1, GotoFields DEF record_provider_intent
<1>5. record_provider_in_flight(p) => x = "execute"
  BY <1>1, GotoFields DEF record_provider_in_flight
<1>6. provider_stream(p) => x = "outcome"
  <2>1. proc[p] \in Engines /\ proc \in [Procs -> Engines]
    BY EngineTyped DEF Typing
  <2> QED BY <2>1, SMTT(30) DEF provider_stream, Engines
<1>7. record_provider_outcome(p) => x \in {"completed_call", "guard_drop"}
  BY <1>1, GotoFields DEF record_provider_outcome
<1>8. recover_tool_effect(p) => x \in {"tool_fence", "tool", "save_results"}
  <2>1. proc[p] \in Engines /\ proc \in [Procs -> Engines]
    BY EngineTyped DEF Typing
  <2>2. NextTool(p) \in {"tool", "save_results"}
    BY DEF NextTool
  <2> QED BY <2>1, <2>2, SMTT(30) DEF recover_tool_effect, Goto, Engines
<1>9. record_tool_intent(p) => x = "tool_execute"
  BY <1>1, GotoFields DEF record_tool_intent
<1>10. execute_single(p) => x = "tool_outcome"
  BY <1>1, GotoFields DEF execute_single
<1> HIDE DEF x
<1>11. /\ x \in {"outcome", "completed_call"} =>
            recover_provider_effect(p) \/ provider_stream(p) \/ record_provider_outcome(p)
              \/ heartbeat(p)
       /\ x \in Intending => ensure_session_fence(p) \/ heartbeat(p)
       /\ x \in {"fence", "tool_fence"} =>
            recover_provider_effect(p) \/ recover_tool_effect(p) \/ heartbeat(p)
       /\ x \in {"in_flight", "execute", "tool_execute"} =>
            record_provider_intent(p) \/ record_provider_in_flight(p)
              \/ record_tool_intent(p) \/ heartbeat(p)
  BY <1>2, <1>3, <1>4, <1>5, <1>6, <1>7, <1>8, <1>9, <1>10, SMTT(30) DEF HotStep, Intending
<1> QED BY <1>11 DEF x

\* A process that holds a reply after its step holds a recorded one.
LEMMA ReplyHeld ==
  ASSUME Histories, RepliesRecorded, NEW p \in Procs, HotStep(p), LedgerStep(p),
         proc'[p].pc \in {"outcome", "completed_call"}
  PROVE  /\ proc'[p].reply \in Replied \cup {"error"}
         /\ proc'[p].pc = "completed_call" /\ proc'[p].reply \in Replied =>
              (Outcomes(provider_call_id(p), proc[p].reply) # {})'
<1>1. Typing /\ provider_call_id(p)[1] \in Kinds /\ provider_call_id(p) \in Effects
  BY IdsTyped DEF Histories
<1>2. PICK c \in Effects : c = provider_call_id(p)
  BY <1>1
<1>3. CASE recover_provider_effect(p)
  <2>1. PICK f \in Found : f = recover_effect(c, FALSE)
    BY <1>1, <1>2, Recovered
  <2>2. proc'[p].reply = f /\ provider_call_id(p)' = c
        /\ proc'[p].pc = CASE f = "execute" -> "fence" [] f = "reconcile" -> "refused"
                           [] OTHER -> "completed_call"
    <3>1. proc[p] \in Engines /\ proc \in [Procs -> Engines]
      BY <1>1, EngineTyped DEF Typing
    <3>2. proc' = [proc EXCEPT ![p] = [proc[p] EXCEPT
            !.pc = CASE f = "execute" -> "fence" [] f = "reconcile" -> "refused"
                     [] OTHER -> "completed_call", !.reply = f]]
      BY <1>2, <1>3, <2>1 DEF recover_provider_effect
    <3>3. /\ proc'[p].reply = f /\ proc'[p].kind = proc[p].kind
          /\ proc'[p].messages = proc[p].messages
          /\ proc'[p].pc = CASE f = "execute" -> "fence" [] f = "reconcile" -> "refused"
                             [] OTHER -> "completed_call"
      BY <3>1, <3>2, SMTT(30) DEF Engines
    <3> QED BY <3>3, <1>2 DEF provider_call_id
  <2>3. f \notin {"execute", "reconcile"}
    BY <2>2, SMTT(30)
  <2>4. Outcomes(c, f) # {} /\ f # "unknown"
    BY <1>1, <2>1, <2>3, Recovered
  <2>5. PICK j \in 1..Len(ledger) : /\ ledger[j].type = "outcome" /\ ledger[j].effect = c
                                    /\ ledger[j].status = f
    BY <2>4, <1>1, FieldsTyped DEF Outcomes, Positions
  <2>6. f \in Replied \cup {"error"}
    <3>1. f \in Replied \cup {"error", "unknown"}
      BY <2>5, <1>1, <1>2 DEF RepliesRecorded
    <3> QED BY <2>4, <3>1
  <2>7. Outcomes(c, f)' # {}
    BY <1>1, <2>4, OutcomesGrow
  <2> QED BY <2>2, <2>6, <2>7 DEF Outcomes, Positions
<1>4. CASE provider_stream(p)
  <2>1. proc'[p].pc = "outcome" /\ proc'[p].reply \in Replies(p)
    <3>1. proc[p] \in Engines /\ proc \in [Procs -> Engines]
      BY <1>1, EngineTyped DEF Typing
    <3>2. PICK r \in Replies(p) : proc' = [proc EXCEPT ![p].reply = r, ![p].pc = "outcome"]
      BY <1>4 DEF provider_stream
    <3> QED BY <3>1, <3>2, SMTT(30) DEF Engines
  <2>2. "outcome" # "completed_call"
    BY SMTT(30)
  <2> QED BY <2>1, <2>2, RepliesTyped
<1>5. CASE record_provider_outcome(p)
  <2>1. "guard_drop" \in Stages /\ "completed_call" \in Stages
        /\ "guard_drop" \notin {"outcome", "completed_call"}
    BY SMTT(30) DEF Stages
  <2>2. ~Goto(p, "guard_drop")
    BY <1>1, <2>1, GotoFields
  <2>3. /\ accepts_outcome(c, proc[p].reply) /\ Goto(p, "completed_call")
        /\ persist_canonical_effect_outcome(c, proc[p].reply)
    BY <1>2, <1>5, <2>2 DEF record_provider_outcome
  <2>4. proc'[p].reply = proc[p].reply /\ provider_call_id(p)' = c
    BY <1>1, <1>2, <2>1, <2>3, GotoFields
  <2>5. proc[p].reply \in Replied \cup {"error"}
    BY <1>5 DEF record_provider_outcome, At, RepliesRecorded
  <2>6. PICK f : f = proc[p].reply
    OBVIOUS
  <2>7. Outcomes(c, f)' # {}
    <3>1. CASE Positions("outcome", c) = {}
      <4> DEFINE r == [type |-> "outcome", effect |-> c, status |-> f]
      <4>1. ledger' = Append(ledger, r) /\ ledger \in Seq(Records) /\ r \in Records
        <5>1. f \in Statuses
          BY <2>5, <2>6, RepliesTyped
        <5>2. r \in Records
          BY <5>1, SMTT(30) DEF Records
        <5> QED BY <5>2, <2>3, <2>6, <3>1, <1>1, FieldsTyped
                DEF persist_canonical_effect_outcome
      <4>2. r.type = "outcome" /\ r.effect = c /\ r.status = f
        BY SMTT(30)
      <4> HIDE DEF r
      <4>3. Len(ledger) + 1 \in DOMAIN ledger' /\ ledger'[Len(ledger) + 1] = r
        BY <4>1, SMTT(30)
      <4> QED BY <4>2, <4>3 DEF Outcomes, Positions
    <3>2. CASE Positions("outcome", c) # {}
      <4>1. Outcomes(c, f) # {}
        BY <3>2, <2>3, <2>6 DEF Outcomes, accepts_outcome
      <4> QED BY <1>1, <4>1, OutcomesGrow
    <3> QED BY <3>1, <3>2
  <2> QED BY <2>4, <2>5, <2>6, <2>7 DEF Outcomes, Positions
<1>6. CASE heartbeat(p)
  <2>1. proc'[p].pc = proc[p].pc /\ proc'[p].reply = proc[p].reply /\ provider_call_id(p)' = c
    BY <1>1, <1>2, <1>6, HeartbeatFields
  <2>2. PICK f : f = proc[p].reply
    OBVIOUS
  <2>3. f \in Replied \cup {"error"}
    BY <2>1, <2>2 DEF RepliesRecorded
  <2>4. proc[p].pc = "completed_call" /\ f \in Replied => Outcomes(c, f)' # {}
    BY <1>1, <1>2, <2>2, OutcomesGrow DEF RepliesRecorded
  <2> QED BY <2>1, <2>2, <2>3, <2>4 DEF Outcomes, Positions
<1> QED BY <1>1, <1>3, <1>4, <1>5, <1>6, HotStages

LEMMA RepliesKept ==
  ASSUME Histories, RepliesRecorded, Typing', NEW p \in Procs, Step(p)
  PROVE  RepliesRecorded'
<1>1. Typing /\ LedgerStep(p) /\ proc[p].messages \in Seq(Tags)
  BY EngineTyped DEF Histories, Step
<1>2. PICK m \in Seq(Tags), s \in Seq(Tags) : m = proc[p].messages /\ s = session.messages
  BY <1>1, FieldsTyped
<1>3. Recorded(m)' /\ Recorded(s)'
  BY <1>1, <1>2, RecordedKept DEF RepliesRecorded
<1>4. PICK t : t = proc'[p].messages
  OBVIOUS
<1>5. Recorded(t)'
  <2>1. {"user", "results"} \subseteq Tags /\ Replied \subseteq Tags
        /\ "user" \notin Replied /\ "results" \notin Replied
    BY SMTT(30) DEF Tags, Replied
  <2>2. CASE t = m \/ t = s
    BY <2>2, <1>3
  <2>3. CASE \E x \in {"user", "results"} : t = Append(m, x)
    BY <2>1, <2>3, <1>3, RecordedAppend
  <2>4. CASE \E r \in Replied : /\ proc[p].pc = "completed_call" /\ proc[p].reply = r
                                /\ t = Append(m, r)
    <3>1. PICK r \in Replied : proc[p].pc = "completed_call" /\ proc[p].reply = r
                               /\ t = Append(m, r)
      BY <2>4
    <3>2. PICK k \in Kinds : k = proc[p].kind
      BY <1>1, EngineTyped
    <3>3. Outcomes(<<k, m, 0>>, r) # {}
      BY <1>2, <3>1, <3>2 DEF RepliesRecorded, provider_call_id
    <3>4. Outcomes(<<k, m, 0>>, r)' # {}
      BY <1>1, <3>3, OutcomesGrow
    <3> QED BY <1>3, <2>1, <3>1, <3>4, RecordedAppend
  <2> QED BY <1>2, <1>4, <2>2, <2>3, <2>4 DEF Step, MessagesStep
<1>6. Recorded(session.messages)'
  <2>1. session'.messages = s \/ session'.messages = t
    BY <1>2, <1>4 DEF Step
  <2>2. PICK u : u = session'.messages
    OBVIOUS
  <2>3. Recorded(u)'
    BY <1>3, <1>5, <2>1, <2>2
  <2> QED BY <2>2, <2>3 DEF Recorded, Outcomes, Positions
<1>7. ASSUME NEW q \in Procs
      PROVE  /\ Recorded(proc[q].messages)'
             /\ proc'[q].pc \in {"outcome", "completed_call"} =>
                  proc'[q].reply \in Replied \cup {"error"}
             /\ proc'[q].pc = "completed_call" /\ proc'[q].reply \in Replied =>
                  (Outcomes(provider_call_id(q), proc[q].reply) # {})'
  <2>1. CASE q = p
    <3>1. Recorded(proc[q].messages)'
      <4>1. t = proc'[q].messages
        BY <1>4, <2>1
      <4> QED BY <4>1, <1>5 DEF Recorded, Outcomes, Positions
    <3>2. {"outcome", "completed_call"} \subseteq Hot
      BY SMTT(30) DEF Hot
    <3> QED BY <1>1, <2>1, <3>1, <3>2, ReplyHeld DEF Step
  <2>2. CASE q # p
    <3>1. proc'[q] = proc[q] /\ provider_call_id(q)' = provider_call_id(q)
      BY <2>2 DEF Step, Only, provider_call_id
    <3>2. PICK u, f, c : u = proc[q].messages /\ f = proc[q].reply /\ c = provider_call_id(q)
      OBVIOUS
    <3>3. Recorded(u)'
      BY <1>1, <3>2, RecordedKept DEF RepliesRecorded
    <3>4. proc[q].pc = "completed_call" /\ f \in Replied => Outcomes(c, f)' # {}
      BY <1>1, <3>2, OutcomesGrow DEF RepliesRecorded
    <3>5. Recorded(proc[q].messages)'
      <4>1. u = proc'[q].messages
        BY <3>1, <3>2
      <4> QED BY <4>1, <3>3 DEF Recorded, Outcomes, Positions
    <3>6. f \in Replied /\ proc[q].pc = "completed_call" =>
            (Outcomes(provider_call_id(q), proc[q].reply) # {})'
      BY <3>1, <3>2, <3>4 DEF Outcomes, Positions
    <3> QED BY <3>1, <3>2, <3>5, <3>6 DEF RepliesRecorded
  <2> QED BY <2>1, <2>2
<1>8. ASSUME NEW i \in 1..Len(ledger'),
             ledger'[i].effect[1] \in Kinds, ledger'[i].type = "outcome"
      PROVE  ledger'[i].status \in Replied \cup {"error", "unknown"}
  <2>1. CASE i \in 1..Len(ledger)
    BY <1>1, <1>8, <2>1, LedgerGrows DEF RepliesRecorded
  <2>2. CASE Writes(p, ledger'[i])
    <3>1. "outcome" # "intent" /\ tool_effect_id(p)[1] \notin Kinds
      BY <1>1, IdsTyped, SMTT(30)
    <3> QED BY <1>8, <2>2, <3>1 DEF Writes
  <2> QED BY <1>1, <2>1, <2>2, LedgerGrows
<1> QED BY <1>6, <1>7, <1>8 DEF RepliesRecorded

-----------------------------------------------------------------------------
(* An effect begins once.                                                     *)

\* Nobody takes the lease from a process between its fence check and its intent.
LEMMA FencedKept ==
  ASSUME Histories, IntentIsFenced, Typing', NEW p \in Procs, Step(p)
  PROVE  IntentIsFenced'
<1>1. Typing /\ clock' = clock /\ LeaseStep(p)
  BY DEF Histories, Step
<1>2. clock \in Nat /\ clock + LeaseTime > clock
  BY <1>1, FieldsTyped, BoundsAssumption, SMTT(30)
<1>3. SUFFICES ASSUME NEW q \in Procs, proc'[q].pc \in Intending
               PROVE  lease'.owner = q /\ lease'.expires > clock
  BY <1>1 DEF IntentIsFenced
<1>4. CASE q = p
  <2>1. Intending \subseteq Hot
    BY SMTT(30) DEF Intending, Hot
  <2>2. ensure_session_fence(p) \/ heartbeat(p)
    BY <1>1, <1>3, <1>4, <2>1, HotStages DEF Step
  <2>3. CASE lease' = Renewed /\ lease.owner = p
    BY <1>1, <1>2, <1>4, <2>3, RenewedTyped
  <2>4. CASE lease' = lease /\ heartbeat(p)
    BY <1>1, <1>3, <1>4, <2>4, HeartbeatFields DEF IntentIsFenced
  <2> QED BY <2>2, <2>3, <2>4 DEF ensure_session_fence, heartbeat, require_current_lease
<1>5. CASE q # p
  <2>1. lease.owner = q /\ lease.expires > clock
    BY <1>3, <1>5 DEF IntentIsFenced, Step, Only
  <2>2. ~(lease.expires <= clock)
    BY <1>1, <2>1, FieldsTyped, SMTT(30)
  <2> QED BY <1>1, <1>5, <2>1, <2>2, ProcsAssumption DEF LeaseStep
<1> QED BY <1>4, <1>5

\* A step of a process that is not about to write an intent adds none.
LEMMA IntentsKept ==
  ASSUME Typing, NEW p \in Procs, LedgerStep(p), proc[p].pc \notin Intending, NEW e
  PROVE  Intents(e)' = Intents(e)
<1>1. Positions("intent", e) \subseteq Positions("intent", e)'
  BY PositionsGrow
<1>2. ASSUME NEW i \in Positions("intent", e)' PROVE i \in Positions("intent", e)
  <2>1. i \in 1..Len(ledger') /\ ledger'[i].type = "intent" /\ ledger'[i].effect = e
    BY <1>2, LedgerGrows DEF Positions
  <2>2. ~Writes(p, ledger'[i])
    <3>1. "outcome" # "intent"
      BY SMTT(30)
    <3> QED BY <2>1, <3>1 DEF Writes, Intending
  <2>3. i \in 1..Len(ledger) /\ ledger'[i] = ledger[i]
    BY <2>1, <2>2, LedgerGrows
  <2> QED BY <2>1, <2>3, FieldsTyped DEF Positions
<1> QED BY <1>1, <1>2 DEF Intents

LEMMA NotIntendedKept ==
  ASSUME Histories, IntentIsFenced, NotIntended, NEW p \in Procs, Step(p)
  PROVE  NotIntended'
<1>1. Typing /\ LedgerStep(p)
  BY DEF Histories, Step
<1>2. SUFFICES ASSUME NEW q \in Procs, lease'.owner = q
               PROVE  /\ proc'[q].pc \in {"fence", "intent"} =>
                           (Intents(provider_call_id(q)) = {})'
                      /\ proc'[q].pc \in {"tool_fence", "tool_intent"}
                           /\ (~Safe(tool_effect_id(q)))' =>
                           (Intents(tool_effect_id(q)) = {})'
  BY DEF NotIntended
<1>3. PICK c \in Effects, d \in Effects : c = provider_call_id(q) /\ d = tool_effect_id(q)
  BY <1>1, IdsTyped
\* The effects are those of the state before, and have no intent.
<1>4. SUFFICES /\ proc'[q].pc \in {"fence", "intent"} =>
                    provider_call_id(q)' = c /\ Intents(c)' = {}
               /\ proc'[q].pc \in {"tool_fence", "tool_intent"} /\ ~Safe(d) =>
                    Intents(d)' = {}
               /\ proc'[q].pc \in {"tool_fence", "tool_intent"} =>
                    tool_effect_id(q)' = d
  BY <1>4 DEF Intents, Positions, Safe, Tool
<1>5. CASE q # p
  <2>1. lease.owner = q /\ proc'[q] = proc[q]
    BY <1>2, <1>5, ProcsAssumption DEF Step, LeaseStep, Only
  <2>2. proc[p].pc \notin Intending
    BY <1>5, <2>1 DEF IntentIsFenced
  <2>3. Intents(c)' = Intents(c) /\ Intents(d)' = Intents(d)
    BY <1>1, <2>2, IntentsKept
  <2>4. provider_call_id(q)' = c /\ tool_effect_id(q)' = d
    BY <2>1, <1>3 DEF provider_call_id, tool_effect_id
  <2> QED BY <1>3, <2>1, <2>3, <2>4 DEF NotIntended
<1>6. CASE q = p
  <2>1. CASE proc'[p].pc \notin Hot
    <3>1. {"fence", "intent", "tool_fence", "tool_intent"} \subseteq Hot
      BY SMTT(30) DEF Hot
    <3> QED BY <1>6, <2>1, <3>1
  <2>2. CASE heartbeat(p)
    <3>1. /\ proc'[q].pc = proc[q].pc /\ lease.owner = q
          /\ provider_call_id(q)' = c /\ tool_effect_id(q)' = d /\ ledger' = ledger
      BY <1>1, <1>2, <1>3, <1>6, <2>2, HeartbeatFields
    <3>2. Intents(c)' = Intents(c) /\ Intents(d)' = Intents(d)
      BY <3>1 DEF Intents, Positions
    <3> QED BY <3>1, <3>2, <1>3 DEF NotIntended
  <2>3. CASE ensure_session_fence(p)
    <3>1. "intent" \in Stages /\ "tool_intent" \in Stages
      BY SMTT(30) DEF Stages, Unfenced
    <3>2. /\ \/ proc[q].pc = "fence" /\ proc'[q].pc = "intent"
             \/ proc[q].pc = "tool_fence" /\ proc'[q].pc = "tool_intent"
          /\ lease.owner = q /\ ledger' = ledger
          /\ provider_call_id(q)' = c /\ tool_effect_id(q)' = d
      BY <1>1, <1>3, <1>6, <2>3, <3>1, GotoFields
         DEF ensure_session_fence, At, require_current_lease
    <3>3. Intents(c)' = Intents(c) /\ Intents(d)' = Intents(d)
      BY <3>2 DEF Intents, Positions
    <3>4. /\ proc[q].pc = "fence" => Intents(c) = {}
          /\ proc[q].pc = "tool_fence" /\ ~Safe(d) => Intents(d) = {}
      BY <3>2, <1>3 DEF NotIntended
    <3>5. /\ "intent" \notin {"tool_fence", "tool_intent"}
          /\ "tool_intent" \notin {"fence", "intent"}
      BY SMTT(30)
    <3> QED BY <3>2, <3>3, <3>4, <3>5
  <2>4. CASE recover_provider_effect(p)
    <3>1. proc[p] \in Engines /\ proc \in [Procs -> Engines]
      BY <1>1, EngineTyped DEF Typing
    <3>2. PICK f \in Found : f = recover_effect(c, FALSE)
      BY <1>1, Recovered
    <3>3. proc' = [proc EXCEPT
            ![p].pc = CASE f = "execute" -> "fence" [] f = "reconcile" -> "refused"
                        [] OTHER -> "completed_call", ![p].reply = f]
      BY <1>3, <1>6, <2>4, <3>2 DEF recover_provider_effect
    <3>4. /\ proc'[p].kind = proc[p].kind /\ proc'[p].messages = proc[p].messages
          /\ proc'[p].tool = proc[p].tool
          /\ proc'[p].pc \in {"fence", "intent", "tool_fence", "tool_intent"} =>
               f = "execute" /\ proc'[p].pc = "fence"
      BY <3>1, <3>3, SMTT(30) DEF Engines
    <3>5. f = "execute" => Intents(c) = {}
      BY <1>1, <3>2, Recovered
    <3>6. Intents(c)' = Intents(c)
      BY <2>4 DEF recover_provider_effect, Intents, Positions
    <3>7. "fence" \notin {"tool_fence", "tool_intent"}
      BY SMTT(30)
    <3>8. provider_call_id(q)' = c
      BY <1>3, <1>6, <3>4 DEF provider_call_id
    <3> QED BY <1>6, <3>4, <3>5, <3>6, <3>7, <3>8
  <2>5. CASE recover_tool_effect(p)
    <3>1. PICK f \in Found : f = recover_effect(d, proc[p].tool \in ReplaySafe)
      BY <1>1, Recovered
    <3>2. f = "execute" => Intents(d) = {} \/ proc[p].tool \in ReplaySafe
      <4>1. CASE proc[p].tool \in ReplaySafe
        BY <4>1
      <4>2. CASE proc[p].tool \notin ReplaySafe
        <5>1. (proc[p].tool \in ReplaySafe) = FALSE
          BY <4>2, SMTT(30)
        <5>2. f = recover_effect(d, FALSE)
          BY <3>1, <5>1
        <5> QED BY <1>1, <5>2, Recovered
      <4> QED BY <4>1, <4>2
    <3>3. proc[p] \in Engines /\ proc \in [Procs -> Engines]
      BY <1>1, EngineTyped DEF Typing
    <3>4. \/ Goto(p, "tool_fence") /\ f = "execute"
          \/ proc' = [proc EXCEPT ![p].unknown = TRUE, ![p].pc = "save_results"]
          \/ proc' = [proc EXCEPT ![p].pc = NextTool(p), ![p].tool = @ + 1]
      BY <1>3, <1>6, <2>5, <3>1 DEF recover_tool_effect
    <3>5. NextTool(p) \in {"tool", "save_results"}
      BY DEF NextTool
    <3>6. proc'[p].pc \in {"fence", "intent", "tool_fence", "tool_intent"} =>
            Goto(p, "tool_fence") /\ f = "execute" /\ proc'[p].pc = "tool_fence"
      BY <3>3, <3>4, <3>5, SMTT(30) DEF Goto, Engines
    <3>7. d[1] = "tool" /\ d[3] = proc[p].tool
      BY <1>3, <1>6, SMTT(30) DEF tool_effect_id
    <3>8. proc[p].tool \in ReplaySafe => Safe(d)
      BY <3>7 DEF Safe, Tool
    <3>9. Intents(d)' = Intents(d)
      BY <2>5 DEF recover_tool_effect, Intents, Positions
    <3>10. "tool_fence" \notin {"fence", "intent"} /\ "tool_fence" \in Stages
      BY SMTT(30) DEF Stages
    <3>11. Goto(p, "tool_fence") => tool_effect_id(q)' = d
      BY <1>1, <1>3, <1>6, <3>10, GotoFields
    <3> QED BY <1>6, <3>2, <3>6, <3>8, <3>9, <3>10, <3>11
  <2>6. CASE HotStep(p) /\ proc'[p].pc \in {"fence", "intent", "tool_fence", "tool_intent"}
    <3>1. proc'[p].pc \in Intending \/ proc'[p].pc \in {"fence", "tool_fence"}
      BY <2>6 DEF Intending
    <3> QED BY <1>1, <2>2, <2>3, <2>4, <2>5, <2>6, <3>1, HotStages
  <2> QED BY <1>6, <2>1, <2>6 DEF Step
<1> QED BY <1>5, <1>6

\* An effect that a process owes after its step was owed by it before, or had no
\* intent before and has one now.
LEMMA OwesStep ==
  ASSUME Histories, IntentIsFenced, NotIntended, NEW p \in Procs, Step(p),
         NEW e \in Effects, ~Safe(e), Owes(p, e)'
  PROVE  Owes(p, e) \/ (Intents(e) = {} /\ Intents(e)' # {})
<1>1. Typing /\ LedgerStep(p) /\ ledger \in Seq(Records)
  BY FieldsTyped DEF Histories, Step
<1>2. proc'[p].pc \in {"in_flight", "execute", "tool_execute"}
  BY DEF Owes
<1>3. HotStep(p)
  <2>1. {"in_flight", "execute", "tool_execute"} \subseteq Hot
    BY SMTT(30) DEF Hot
  <2> QED BY <1>2, <2>1 DEF Step
<1>4. {"in_flight", "execute", "tool_execute"} \subseteq Stages
  BY SMTT(30) DEF Stages, Unfenced
<1>5. ASSUME append_intent(e), proc[p].pc \in Intending,
             \/ proc[p].pc = "intent" /\ e = provider_call_id(p)
             \/ proc[p].pc = "tool_intent" /\ e = tool_effect_id(p)
      PROVE  Intents(e) = {} /\ Intents(e)' # {}
  <2>1. lease.owner = p
    BY <1>5 DEF IntentIsFenced
  <2>2. Intents(e) = {}
    BY <1>5, <2>1 DEF NotIntended
  <2> DEFINE r == [type |-> "intent", effect |-> e, status |-> "none"]
  <2>3. r \in Records /\ r.type = "intent" /\ r.effect = e
    BY SMTT(30) DEF Records, Statuses
  <2>4. ledger' = Append(ledger, r)
    BY <1>5 DEF append_intent
  <2> HIDE DEF r
  <2>5. Len(ledger) + 1 \in DOMAIN ledger' /\ ledger'[Len(ledger) + 1] = r
    BY <1>1, <2>3, <2>4, SMTT(30)
  <2>6. Intents(e)' # {}
    BY <2>3, <2>5 DEF Intents, Positions
  <2> QED BY <2>2, <2>6
<1>6. CASE record_provider_intent(p)
  <2>1. /\ proc'[p].pc = "in_flight" /\ provider_call_id(p)' = provider_call_id(p)
        /\ proc[p].pc = "intent" /\ append_intent(provider_call_id(p))
    BY <1>1, <1>4, <1>6, GotoFields DEF record_provider_intent, At
  <2>2. "in_flight" # "tool_execute"
    BY SMTT(30)
  <2>3. e = provider_call_id(p)
    BY <2>1, <2>2 DEF Owes
  <2> QED BY <1>5, <2>1, <2>3 DEF Intending
<1>7. CASE record_tool_intent(p)
  <2>1. /\ proc'[p].pc = "tool_execute" /\ tool_effect_id(p)' = tool_effect_id(p)
        /\ proc[p].pc = "tool_intent" /\ append_intent(tool_effect_id(p))
    BY <1>1, <1>4, <1>7, GotoFields DEF record_tool_intent, At
  <2>2. "tool_execute" \notin {"in_flight", "execute"}
    BY SMTT(30)
  <2>3. e = tool_effect_id(p)
    BY <2>1, <2>2 DEF Owes
  <2> QED BY <1>5, <2>1, <2>3 DEF Intending
<1>8. CASE record_provider_in_flight(p)
  <2>1. /\ proc'[p].pc = "execute" /\ provider_call_id(p)' = provider_call_id(p)
        /\ proc[p].pc = "in_flight"
    BY <1>1, <1>4, <1>8, GotoFields DEF record_provider_in_flight, At
  <2>2. "execute" # "tool_execute"
    BY SMTT(30)
  <2> QED BY <2>1, <2>2 DEF Owes
<1>9. CASE heartbeat(p)
  BY <1>1, <1>9, HeartbeatFields DEF Owes
<1> QED BY <1>1, <1>2, <1>3, <1>6, <1>7, <1>8, <1>9, HotStages

LEMMA IntentsGrow ==
  ASSUME Typing, NEW p \in Procs, LedgerStep(p), NEW e, Intents(e) # {}
  PROVE  Intents(e)' # {}
BY PositionsGrow DEF Intents

\* What has begun: as before, or also an effect the stepping process owed.
LEMMA StartedGrows ==
  ASSUME Typing, NEW p \in Procs, StartedStep(p)
  PROVE  /\ DOMAIN started' = 1..Len(started')
         /\ \/ started' = started
            \/ \E e \in Effects :
                 /\ Owes(p, e) /\ started'[Len(started) + 1] = e
                 /\ \A i \in 1..Len(started') :
                      (i \in 1..Len(started) /\ started'[i] = started[i]) \/ i = Len(started) + 1
<1>1. started \in Seq(Effects) /\ DOMAIN started = 1..Len(started) /\ Len(started) \in Nat
  BY StoreTyped, FieldsTyped
<1>2. CASE started' = started
  BY <1>1, <1>2
<1>3. CASE started' # started
  <2>1. PICK e \in Effects : Begins(p, e) /\ started' = Append(started, e)
    BY <1>3 DEF StartedStep
  <2>2. /\ Len(started') = Len(started) + 1 /\ DOMAIN started' = 1..Len(started')
        /\ started'[Len(started) + 1] = e
        /\ \A i \in 1..Len(started) : started'[i] = started[i]
    BY <1>1, <2>1, SMTT(30)
  <2>3. \A i \in 1..Len(started') : i \in 1..Len(started) \/ i = Len(started) + 1
    BY <1>1, <2>2, SMTT(30)
  <2>4. Owes(p, e)
    BY <2>1 DEF Begins, Owes
  <2> QED BY <2>2, <2>3, <2>4
<1> QED BY <1>2, <1>3

LEMMA OneStartsKept ==
  ASSUME Histories, IntentIsFenced, NotIntended, OneStarts, NEW p \in Procs, Step(p)
  PROVE  OneStarts'
<1>1. Typing /\ LedgerStep(p) /\ StartedStep(p)
  BY DEF Histories, Step
<1>2. ASSUME NEW q \in Procs, q # p, NEW e PROVE Owes(q, e)' <=> Owes(q, e)
  BY <1>2 DEF Step, Only, Owes, provider_call_id, tool_effect_id
<1>3. ASSUME NEW q \in Procs, NEW e \in Effects, ~Safe(e), Owes(q, e)'
      PROVE  /\ Intents(e)' # {}
             /\ \A i \in 1..Len(started') : started'[i] # e
             /\ \A r \in Procs : Owes(r, e)' => r = q
  <2>1. CASE Intents(e) = {}
    <3>1. \A r \in Procs : ~Owes(r, e)
      BY <1>3, <2>1 DEF OneStarts
    <3>2. q = p /\ Intents(e)' # {}
      <4>1. q = p
        BY <1>2, <1>3, <3>1
      <4> QED BY <1>3, <3>1, <4>1, OwesStep
    <3>3. \A i \in 1..Len(started) : started[i] # e
      BY <1>3, <2>1 DEF OneStarts
    <3>4. \A r \in Procs : Owes(r, e)' => r = q
      BY <1>2, <3>1, <3>2
    <3>5. \A i \in 1..Len(started') : started'[i] # e
      <4>1. CASE started' = started
        BY <3>3, <4>1
      <4>2. CASE started' # started
        <5>1. PICK f \in Effects :
                /\ Owes(p, f) /\ started'[Len(started) + 1] = f
                /\ \A i \in 1..Len(started') :
                     (i \in 1..Len(started) /\ started'[i] = started[i]) \/ i = Len(started) + 1
          BY <1>1, <4>2, StartedGrows
        <5> QED BY <3>1, <3>3, <5>1
      <4> QED BY <4>1, <4>2
    <3> QED BY <3>2, <3>4, <3>5
  <2>2. CASE Intents(e) # {}
    <3>1. \A r \in Procs : Owes(r, e)' => Owes(r, e)
      BY <1>2, <1>3, <2>2, OwesStep
    <3>2. /\ \A i \in 1..Len(started) : started[i] # e
          /\ \A r \in Procs : Owes(r, e) => r = q
      BY <1>3, <3>1 DEF OneStarts
    <3>3. Intents(e)' # {}
      BY <1>1, <2>2, IntentsGrow
    <3>4. \A i \in 1..Len(started') : started'[i] # e
      <4>1. CASE started' = started
        BY <3>2, <4>1
      <4>2. CASE started' # started
        <5>1. PICK f \in Effects : Begins(p, f) /\ started' = Append(started, f)
          BY <1>1, <4>2 DEF StartedStep
        <5>2. Owes(p, f)
          BY <5>1 DEF Begins, Owes
        <5>3. ~Owes(p, f)'
          <6>1. /\ "outcome" \notin {"in_flight", "execute", "tool_execute"}
                /\ "tool_outcome" \notin {"in_flight", "execute", "tool_execute"}
            BY SMTT(30)
          <6> QED BY <5>1, <6>1 DEF Begins, Owes
        <5>4. f # e
          BY <1>3, <3>1, <3>2, <5>2, <5>3
        <5>5. /\ started \in Seq(Effects) /\ Len(started) \in Nat
          BY <1>1, StoreTyped, FieldsTyped
        <5>6. \A i \in 1..Len(started') :
                (i \in 1..Len(started) /\ started'[i] = started[i]) \/ started'[i] = f
          BY <5>1, <5>5, SMTT(30)
        <5> QED BY <3>2, <5>4, <5>6
      <4> QED BY <4>1, <4>2
    <3> QED BY <3>1, <3>2, <3>3, <3>4
  <2> QED BY <2>1, <2>2
<1>4. ASSUME NEW i \in 1..Len(started'), ~Safe(started'[i])
      PROVE  (Intents(started[i]) # {})'
  <2>1. PICK e : e = started'[i]
    OBVIOUS
  <2>2. Intents(e) # {}
    <3>1. CASE i \in 1..Len(started) /\ e = started[i]
      BY <1>4, <2>1, <3>1 DEF OneStarts
    <3>2. CASE \E f \in Effects : Owes(p, f) /\ e = f
      BY <1>4, <2>1, <3>2 DEF OneStarts
    <3>3. CASE started' = started
      BY <2>1, <3>1, <3>3
    <3>4. CASE started' # started
      <4>1. PICK f \in Effects :
              /\ Owes(p, f) /\ started'[Len(started) + 1] = f
              /\ \A j \in 1..Len(started') :
                   (j \in 1..Len(started) /\ started'[j] = started[j]) \/ j = Len(started) + 1
        BY <1>1, <3>4, StartedGrows
      <4> QED BY <2>1, <3>1, <3>2, <4>1
    <3> QED BY <3>3, <3>4
  <2>3. Intents(e)' # {}
    BY <1>1, <2>2, IntentsGrow
  <2> QED BY <2>1, <2>3 DEF Intents, Positions
<1> QED BY <1>3, <1>4 DEF OneStarts, Safe, Tool

LEMMA AtMostOnceKept ==
  ASSUME Histories, OneStarts, AtMostOnce, NEW p \in Procs, Step(p)
  PROVE  AtMostOnce'
<1>1. Typing /\ StartedStep(p) /\ DOMAIN started = 1..Len(started)
  BY FieldsTyped DEF Histories, Step
<1>2. CASE started' = started
  BY <1>2 DEF AtMostOnce, Safe, Tool
<1>3. CASE started' # started
  <2>1. PICK e \in Effects :
          /\ Owes(p, e) /\ started'[Len(started) + 1] = e
          /\ \A i \in 1..Len(started') :
               (i \in 1..Len(started) /\ started'[i] = started[i]) \/ i = Len(started) + 1
    BY <1>1, <1>3, StartedGrows
  <2>2. DOMAIN started' = 1..Len(started')
    BY <1>1, StartedGrows
  <2>3. ~Safe(e) => \A i \in 1..Len(started) : started[i] # e
    BY <2>1 DEF OneStarts
  <2>4. SUFFICES ASSUME NEW i \in 1..Len(started'), NEW j \in 1..Len(started'),
                        started'[i] = started'[j], ~Safe(started'[i])
                 PROVE  i = j
    BY <2>2 DEF AtMostOnce, Safe, Tool
  <2>5. CASE i = Len(started) + 1 \/ j = Len(started) + 1
    BY <2>1, <2>3, <2>4, <2>5
  <2>6. CASE i # Len(started) + 1 /\ j # Len(started) + 1
    <3>1. /\ i \in 1..Len(started) /\ started'[i] = started[i]
          /\ j \in 1..Len(started) /\ started'[j] = started[j]
      BY <2>1, <2>6
    <3> QED BY <1>1, <2>4, <3>1 DEF AtMostOnce
  <2> QED BY <2>5, <2>6
<1> QED BY <1>2, <1>3

-----------------------------------------------------------------------------
(* The theorems.                                                              *)

LEMMA InitIsSafe ==
  ASSUME Init
  PROVE  IInv
<1>1. /\ <<>> \in Seq(Tags) /\ <<>> \in Seq(Records) /\ <<>> \in Seq(Effects)
      /\ Len(<<>>) = 0 /\ 1..0 = {} /\ DOMAIN <<>> = {}
  BY SMTT(30)
<1>2. /\ "new" \in Stages /\ "normal" \in Kinds /\ "none" \in Found /\ "absent" \in Phases
      /\ "new" \notin Tooling \cup Intending \cup {"outcome", "completed_call", "in_flight",
                                                  "execute", "tool_execute"}
  BY SMTT(30) DEF Stages, Unfenced, Kinds, Found, Statuses, Phases, Tooling, Intending
<1>3. 0 \in Nat /\ 1 \in Nat /\ 0 \in 0..MaxClock /\ 0 \in 0..MaxFaults
  BY BoundsAssumption, SMTT(30)
<1>4. Fresh \in Engines /\ Fresh.pc = "new" /\ Fresh.messages = <<>>
  BY <1>1, <1>2, <1>3 DEF Fresh, Engines, CallIds
<1>5. /\ proc \in [Procs -> Engines]
      /\ \A p \in Procs : proc[p].pc = "new" /\ proc[p].messages = <<>>
  BY <1>4 DEF Init
<1>6. Typing
  <2>1. lease \in [owner : Procs \cup {NoProc}, epoch : Nat, expires : Nat]
    BY <1>3 DEF Init
  <2>2. session \in [revision : Nat, messages : Seq(Tags)] /\ session.messages = <<>>
    BY <1>1, <1>3 DEF Init
  <2>3. task \in [phase : Phases, call : CallIds, rev : Nat]
    BY <1>2, <1>3 DEF Init, CallIds
  <2> QED BY <1>1, <1>3, <1>5, <2>1, <2>2, <2>3, StoreTyped DEF Init
<1>7. session.messages = <<>> /\ lease.owner = NoProc /\ ledger = <<>> /\ started = <<>>
  BY DEF Init
<1>8. Histories
  <2>1. \A p \in Procs : InMemory(p) /\ RoundIsDurable(p)
    BY <1>2, <1>5, <1>7, ProcsAssumption DEF InMemory, RoundIsDurable
  <2>2. CheckpointedBeforeTools
    BY <1>1, <1>7 DEF CheckpointedBeforeTools
  <2> QED BY <1>6, <2>1, <2>2 DEF Histories
<1>9. RepliesRecorded
  <2>1. Recorded(<<>>)
    BY <1>1 DEF Recorded
  <2> QED BY <1>1, <1>2, <1>5, <1>7, <2>1 DEF RepliesRecorded
<1>10. StartsOnce
  <2>1. IntentIsFenced
    BY <1>2, <1>5 DEF IntentIsFenced
  <2>2. NotIntended
    BY <1>7, ProcsAssumption DEF NotIntended
  <2>3. OneStarts
    BY <1>1, <1>2, <1>5, <1>7 DEF OneStarts, Owes
  <2>4. AtMostOnce
    BY <1>1, <1>7 DEF AtMostOnce
  <2> QED BY <2>1, <2>2, <2>3, <2>4 DEF StartsOnce
<1> QED BY <1>8, <1>9, <1>10 DEF IInv

\* What a step that leaves the task's state alone leaves true.
Unmoved == UNCHANGED <<lease, session, task, ledger, started, proc>>

LEMMA Frame ==
  ASSUME Unmoved, Typing', Histories
  PROVE  /\ Histories' /\ IsPrefix(session.messages, session'.messages)
         /\ RepliesRecorded => RepliesRecorded'
         /\ NotIntended => NotIntended'
         /\ OneStarts => OneStarts'
         /\ AtMostOnce => AtMostOnce'
<1>1. \A p \in Procs : /\ provider_call_id(p)' = provider_call_id(p)
                       /\ tool_effect_id(p)' = tool_effect_id(p)
  BY DEF Unmoved, provider_call_id, tool_effect_id
<1>2. Histories' /\ IsPrefix(session.messages, session'.messages)
  <2>1. IsPrefix(session.messages, session'.messages)
    BY FieldsTyped, PrefixSelf DEF Histories, Unmoved
  <2> QED BY <2>1 DEF Unmoved, Histories, CheckpointedBeforeTools, InMemory, RoundIsDurable, Tool
<1>3. RepliesRecorded => RepliesRecorded'
  <2> SUFFICES ASSUME RepliesRecorded PROVE RepliesRecorded'
    OBVIOUS
  <2>1. Recorded(session.messages)'
    <3>1. PICK s : s = session'.messages
      OBVIOUS
    <3>2. Recorded(s)
      BY <3>1 DEF Unmoved, RepliesRecorded
    <3>3. Recorded(s)'
      BY <3>2 DEF Unmoved, Recorded, Outcomes, Positions
    <3> QED BY <3>1, <3>3 DEF Recorded, Outcomes, Positions
  <2>2. ASSUME NEW p \in Procs
        PROVE  /\ Recorded(proc[p].messages)'
               /\ proc[p].pc \in {"outcome", "completed_call"} =>
                    proc[p].reply \in Replied \cup {"error"}
               /\ proc[p].pc = "completed_call" /\ proc[p].reply \in Replied =>
                    (Outcomes(provider_call_id(p), proc[p].reply) # {})'
    <3>1. Recorded(proc[p].messages)'
      <4>1. PICK s : s = proc'[p].messages
        OBVIOUS
      <4>2. Recorded(s)
        BY <4>1 DEF Unmoved, RepliesRecorded
      <4>3. Recorded(s)'
        BY <4>2 DEF Unmoved, Recorded, Outcomes, Positions
      <4> QED BY <4>1, <4>3 DEF Recorded, Outcomes, Positions
    <3>2. (Outcomes(provider_call_id(p), proc[p].reply) # {}) =>
            (Outcomes(provider_call_id(p), proc[p].reply) # {})'
      BY SMTT(30) DEF Unmoved, Outcomes, Positions, provider_call_id
    <3> QED BY <3>1, <3>2 DEF Unmoved, RepliesRecorded
  <2> QED BY <2>1, <2>2 DEF Unmoved, RepliesRecorded
<1>4. NotIntended => NotIntended'
  BY SMTT(30) DEF Unmoved, NotIntended, Intents, Positions, Safe, Tool, provider_call_id, tool_effect_id
<1>5. OneStarts => OneStarts'
  BY SMTT(30) DEF Unmoved, OneStarts, Owes, Intents, Positions, Safe, Tool, provider_call_id, tool_effect_id
<1>6. AtMostOnce => AtMostOnce'
  BY DEF Unmoved, AtMostOnce, Safe, Tool
<1> QED BY <1>2, <1>3, <1>4, <1>5, <1>6

\* Time passes only while nobody is between its fence check and its intent.
LEMMA Ticks ==
  ASSUME IInv, Typing', tick
  PROVE  IInv' /\ IsPrefix(session.messages, session'.messages)
<1>1. Unmoved
  BY DEF tick, stored, Unmoved
<1>2. ~SlowFence => IntentIsFenced'
  BY <1>1 DEF Unmoved, tick, IntentIsFenced, Intending
<1> QED BY <1>1, <1>2, Frame DEF IInv, StartsOnce

LEMMA Inductive ==
  ASSUME IInv, [Next]_vars
  PROVE  IInv' /\ IsPrefix(session.messages, session'.messages)
<1>1. CASE Next
  <2>1. Typing' /\ (tick \/ \E p \in Procs : Step(p))
    BY <1>1, Steps DEF IInv
  <2>2. CASE tick
    BY <2>1, <2>2, Ticks
  <2>3. ASSUME NEW p \in Procs, Step(p)
        PROVE  IInv' /\ IsPrefix(session.messages, session'.messages)
    <3>1. Histories' /\ IsPrefix(session.messages, session'.messages)
      BY <2>1, <2>3, HistoryKept DEF IInv
    <3>2. RepliesRecorded'
      BY <2>1, <2>3, RepliesKept DEF IInv
    <3>3. ~SlowFence => StartsOnce'
      BY <2>1, <2>3, FencedKept, NotIntendedKept, OneStartsKept, AtMostOnceKept
         DEF IInv, StartsOnce
    <3> QED BY <3>1, <3>2, <3>3 DEF IInv
  <2> QED BY <2>1, <2>2, <2>3
<1>2. CASE UNCHANGED vars
  <2>1. UNCHANGED <<clock, lease, session, task, ledger, started, faults, proc>>
    BY <1>2 DEF vars
  <2>2. Typing'
    BY <2>1 DEF IInv, Histories, Typing, TypeOK
  <2>3. IntentIsFenced => IntentIsFenced'
    BY <2>1 DEF IntentIsFenced
  <2>4. Unmoved
    BY <2>1 DEF Unmoved
  <2> QED BY <2>2, <2>3, <2>4, Frame DEF IInv, StartsOnce
<1> QED BY <1>1, <1>2

\* The strengthened invariant holds of every behaviour.
THEOREM Invariant == Spec => []IInv
<1>1. Init => IInv
  BY InitIsSafe
<1>2. IInv /\ [Next]_vars => IInv'
  BY Inductive
<1> QED BY <1>1, <1>2, PTL DEF Spec

LEMMA RepliesInHistory ==
  ASSUME IInv
  PROVE  HistoryRecorded
<1>1. DOMAIN session.messages = 1..Len(session.messages) /\ Recorded(session.messages)
  <2>1. session.messages \in Seq(Tags)
    BY FieldsTyped DEF IInv, Histories
  <2>2. DOMAIN session.messages = 1..Len(session.messages)
    BY <2>1, SMTT(30)
  <2> QED BY <2>2 DEF IInv, RepliesRecorded
<1> QED BY <1>1 DEF HistoryRecorded, Recorded, Outcomes

\* However long a process stalls between its fence check and its intent, what is
\* durable is right: no tool intent is recorded before the reply that asked for
\* the tool is saved (save_tools before record_tool_intent), every saved reply is
\* a recorded outcome (record_provider_outcome), and no save takes back what
\* another process saved (the lease and revision checks of SessionStore::save).
THEOREM HistoryIsSafe ==
  Spec => [](TypeOK /\ CheckpointedBeforeTools /\ HistoryRecorded) /\ HistoryGrows
<1>1. IInv => TypeOK /\ CheckpointedBeforeTools /\ HistoryRecorded
  BY RepliesInHistory DEF IInv, Histories, Typing
<1>2. IInv /\ [Next]_vars => [IsPrefix(session.messages, session'.messages)]_vars
  BY Inductive
<1> QED BY <1>1, <1>2, Invariant, PTL DEF Spec, HistoryGrows

\* TaskRunOnce of every behaviour in which no process outlives its lease between
\* ensure_session_fence and the intent it writes next: for any number of
\* processes, tool calls, crashes, takeovers and cancellations, no provider call
\* and no tool call that may not be repeated begins twice.
THEOREM RunOnce ==
  ASSUME ~SlowFence
  PROVE  Spec => TaskRunOnce
<1>1. IInv => AtMostOnce /\ CheckpointedBeforeTools /\ HistoryRecorded
  BY RepliesInHistory DEF IInv, Histories, StartsOnce
<1>2. IInv /\ [Next]_vars => [IsPrefix(session.messages, session'.messages)]_vars
  BY Inductive
<1> QED BY <1>1, <1>2, Invariant, PTL DEF Spec, TaskRunOnce, HistoryGrows
=============================================================================
