---------------------------- MODULE ResourceLedger ----------------------------
(* How a Run's resource usage is made durable and recovered (solaris-agent,  *)
(* resource_manager.rs and resource_manager/persistence.rs): every durable   *)
(* change appends a delta, or a checkpoint when SnapshotInterval changes     *)
(* have gone by; attach restores the last checkpoint and the deltas after    *)
(* it.  Every update holds the checkpoint mutex: one action each.            *)
(*                                                                           *)
(* Counters are kept apart by what they count: usage[e] is how many times    *)
(* effect e (a provider call or a tool round) has been added to the totals.  *)
EXTENDS Integers, Sequences, FiniteSets

CONSTANTS Effects,       \* ids of provider calls, counted once each
          Rounds,        \* ids of tool rounds, counted once each
          Fingerprints,  \* fingerprints of the tool calls
          Budgets,       \* values of the budget
          SnapshotInterval,  \* RESOURCE_SNAPSHOT_INTERVAL
          MaxRecords, MaxAgents  \* bounds

Ids == Effects \cup Rounds

VARIABLES ledger,
          state,      \* budget, usage and applied ids, as state_snapshot takes them
          deltas,     \* resource_deltas_since_snapshot
          failed      \* persistence_error

vars == <<ledger, state, deltas, failed>>

\* descendants and active are counters; seen are the fingerprints met so far.
Fresh(b) == [budget |-> b, usage |-> [e \in Ids |-> 0], duplicates |-> 0, seen |-> {},
             active |-> 0, descendants |-> 0, applied |-> {}]

Checkpoint(s) == [type |-> "checkpoint", state |-> s, added |-> {}, seen |-> {}]
\* The code writes only the parts that changed, which here is the same as all of
\* them: a part that did not change is as the records before it left it, but for
\* the permits, which no restart keeps.  Fingerprints and ids are added.
Delta(s, t) == [type |-> "delta", state |-> t, added |-> t.applied \ s.applied,
                seen |-> t.seen \ s.seen]

\* attach to an empty ledger writes the first checkpoint.
Init ==
  /\ \E b \in Budgets : state = Fresh(b)
  /\ ledger = <<Checkpoint(state)>>
  /\ deltas = 0
  /\ failed = FALSE

\* persist_state_change_locked, and the rollback of with_state_update when the
\* append fails.
persist(t) ==
  \/ /\ Len(ledger) < MaxRecords
     /\ IF deltas + 1 < SnapshotInterval
        THEN ledger' = Append(ledger, Delta(state, t)) /\ deltas' = deltas + 1
        ELSE ledger' = Append(ledger, Checkpoint(t)) /\ deltas' = 0
     /\ state' = t
     /\ UNCHANGED failed
  \/ /\ failed' = TRUE
     /\ UNCHANGED <<ledger, state, deltas>>

-----------------------------------------------------------------------------
set_budget(b) ==
  /\ b # state.budget
  /\ persist([state EXCEPT !.budget = b])

\* hard_runtime_budget_reason refuses once an append has failed.
try_acquire_agent ==
  /\ ~failed /\ state.active < MaxAgents /\ state.descendants < MaxAgents
  /\ persist([state EXCEPT !.active = @ + 1, !.descendants = @ + 1])

\* Transient: not persisted by itself, but part of the next usage written.
try_acquire_reattached_agent ==
  /\ ~failed /\ state.active < MaxAgents
  /\ state' = [state EXCEPT !.active = @ + 1]
  /\ UNCHANGED <<ledger, deltas, failed>>

release_agent ==
  /\ state.active > 0
  /\ state' = [state EXCEPT !.active = @ - 1]
  /\ UNCHANGED <<ledger, deltas, failed>>

record_model_usage_once(e) ==
  /\ e \notin state.applied
  /\ persist([state EXCEPT !.applied = @ \cup {e}, !.usage[e] = @ + 1])

\* A round is a set of calls; those whose fingerprint was seen are duplicates.
record_tool_calls_once(r, calls) ==
  /\ r \notin state.applied
  /\ persist([state EXCEPT !.applied = @ \cup {r}, !.usage[r] = @ + 1,
                           !.duplicates = @ + Cardinality(calls \cap state.seen),
                           !.seen = @ \cup calls])

-----------------------------------------------------------------------------
last_checkpoint ==
  CHOOSE i \in DOMAIN ledger :
    /\ ledger[i].type = "checkpoint"
    /\ \A j \in DOMAIN ledger : ledger[j].type = "checkpoint" => j <= i

\* Mutant: the delta's usage replaces the fingerprints too.
apply_delta_dropping_seen(s, r) ==
  [r.state EXCEPT !.applied = s.applied \cup r.added, !.seen = r.seen]

\* ResourceStateDelta::apply
apply_delta(s, r) ==
  [r.state EXCEPT !.applied = s.applied \cup r.added, !.seen = s.seen \cup r.seen]

\* A checkpoint does not hold the applied ids (append_snapshot).
checkpoint_state(r) == [r.state EXCEPT !.applied = {}]

\* restore_applied_usage_history: those of all the deltas of the Run.
applied_history == UNION {ledger[i].added : i \in DOMAIN ledger}

\* restore_latest_state with normalize_recovered_state.
restore_latest_state ==
  LET c == last_checkpoint
      after[i \in c..Len(ledger)] ==
        IF i = c THEN checkpoint_state(ledger[c]) ELSE apply_delta(after[i - 1], ledger[i])
  IN [after[Len(ledger)] EXCEPT !.applied = @ \cup applied_history, !.active = 0]

deltas_since_snapshot == Len(ledger) - last_checkpoint

\* A crash, and the attach of the next process; another checkpoint when due.
attach ==
  /\ state' = restore_latest_state
  /\ failed' = FALSE
  /\ IF deltas_since_snapshot >= SnapshotInterval
     THEN /\ Len(ledger) < MaxRecords
          /\ ledger' = Append(ledger, Checkpoint(restore_latest_state)) /\ deltas' = 0
     ELSE deltas' = deltas_since_snapshot /\ UNCHANGED ledger

Next ==
  \/ \E b \in Budgets : set_budget(b)
  \/ try_acquire_agent \/ try_acquire_reattached_agent \/ release_agent
  \/ \E e \in Effects : record_model_usage_once(e)
  \/ \E r \in Rounds : \E calls \in SUBSET Fingerprints : record_tool_calls_once(r, calls)
  \/ attach

Spec == Init /\ [][Next]_vars

-----------------------------------------------------------------------------
TypeOK ==
  /\ Len(ledger) <= MaxRecords
  /\ state.budget \in Budgets /\ state.seen \subseteq Fingerprints /\ state.applied \subseteq Ids
  /\ state.usage \in [Ids -> Nat]
  /\ state.active \in 0..MaxAgents /\ state.descendants \in 0..MaxAgents
  /\ deltas \in 0..SnapshotInterval - 1
  /\ failed \in BOOLEAN

\* The totals a crash leaves behind are those the running manager showed, its
\* permits aside: usage, duplicates, fingerprints, descendants and budget, at
\* any distance from the last checkpoint and after appends that failed.
RestoreMatchesLive ==
  restore_latest_state = [state EXCEPT !.active = 0, !.applied = restore_latest_state.applied]

\* "Records one terminal tool round exactly once for this Run" by "the same
\* persisted applied-ID set used by provider usage".
CountedOnce == \A e \in Ids : state.usage[e] <= 1
=============================================================================
