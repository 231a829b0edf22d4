---------------------------- MODULE WorkflowLease ----------------------------
(* The Runtime Ledger's workflow mutation lease (solaris-agent,              *)
(* runtime_ledger_workflow_lease.rs) and the append-only records of the one  *)
(* workflow Run it protects.  Every operation of the ledger runs under the   *)
(* ledger's mutex, or in one immediate SQLite transaction, so it is one      *)
(* action here.  The in-memory and the SQLite implementation take the same   *)
(* decisions and both are mapped.                                            *)
(*                                                                           *)
(* A lease token (WorkflowMutationLease) is named by its epoch: issued[e] is *)
(* the owner that acquire gave epoch e to.  Any token ever issued may be     *)
(* presented again at any time: a delayed, retried or forgotten caller.  The *)
(* wall clock is a parameter of every operation in the code; here it is the  *)
(* variable clock, which may be stepped back.                                *)
EXTENDS Integers, Sequences, FiniteSets

CONSTANTS Owners,     \* owner ids of the controllers that share the ledger
          NoOwner,    \* the owner of a released or absent row
          Keys,       \* logical identities of compare-and-append records
          NoKey,      \* a record without a logical identity
          LeaseTime,  \* WORKFLOW_MUTATION_LEASE_MILLIS
          MaxClock, MaxEpoch, MaxSequence  \* bounds of the counters

ASSUME OwnersAssumption == NoOwner \notin Owners
ASSUME KeysAssumption == NoKey \notin Keys
ASSUME BoundsAssumption ==
  /\ LeaseTime \in Nat /\ LeaseTime > 0
  /\ MaxClock \in Nat /\ MaxEpoch \in Nat /\ MaxSequence \in Nat

VARIABLES clock,          \* Utc::now().timestamp_millis() of the caller
          lease,          \* the Run's row of workflow_mutation_leases
          issued,         \* the owner of every token handed out, by epoch
          records,        \* the Run's ledger records, oldest first
          next_sequence   \* the ledger's sequence counter, shared by all Runs

vars == <<clock, lease, issued, records, next_sequence>>

Epochs == 1..Len(issued)

\* An absent row decides every operation as epoch 0 without an owner does.
NoLease == [owner |-> NoOwner, epoch |-> 0, heartbeat |-> 0, expires |-> 0,
            observed |-> 0, committed |-> 0]

Init ==
  /\ clock = 0
  /\ lease = NoLease
  /\ issued = <<>>
  /\ records = <<>>
  /\ next_sequence = 0

-----------------------------------------------------------------------------
run_sequence == IF records = <<>> THEN 0 ELSE records[Len(records)].seq

\* Mutant: the lease time is subtracted.
lease_expiry_in_past == clock - LeaseTime

lease_expiry == clock + LeaseTime

\* A fenced record carries the epoch it was appended under, an unfenced one 0.
Record(e, k) == [seq |-> next_sequence + 1, epoch |-> e, key |-> k]

\* Mutant: the epoch is not compared, so the owner's older token passes.
require_current_any_epoch(e) ==
  /\ clock >= lease.heartbeat
  /\ lease.owner = issued[e]
  /\ lease.expires > clock

\* reject_clock_rollback, then owner, epoch and expiry.
require_current(e) ==
  /\ clock >= lease.heartbeat
  /\ lease.owner = issued[e]
  /\ lease.epoch = e
  /\ lease.expires > clock

\* Only another owner's unexpired lease is contended; the owner itself may
\* acquire again at any time and gets a new epoch.
acquire(o) ==
  /\ Len(issued) < MaxEpoch
  /\ ~(lease.owner \notin {NoOwner, o} /\ lease.expires > clock)
  /\ clock >= lease.heartbeat
  /\ lease' = [owner |-> o, epoch |-> lease.epoch + 1, heartbeat |-> clock,
               expires |-> lease_expiry, observed |-> run_sequence,
               committed |-> lease.committed]
  /\ issued' = Append(issued, o)
  /\ UNCHANGED <<clock, records, next_sequence>>

renew(e) ==
  /\ require_current(e)
  /\ lease' = [lease EXCEPT !.heartbeat = clock, !.expires = lease_expiry]
  /\ UNCHANGED <<clock, issued, records, next_sequence>>

\* A stale expectation renews the lease and refreshes observed_sequence, and
\* leaves committed_sequence alone.
commit_workflow_restore(e, expected) ==
  /\ require_current(e)
  /\ lease' = [lease EXCEPT !.heartbeat = clock, !.expires = lease_expiry,
                            !.observed = run_sequence,
                            !.committed = IF run_sequence = expected
                                          THEN expected ELSE @]
  /\ UNCHANGED <<clock, issued, records, next_sequence>>

\* No expiry and no clock check: only the owner and the epoch must match.
release(e) ==
  /\ lease.owner = issued[e] /\ lease.epoch = e
  /\ lease' = [lease EXCEPT !.owner = NoOwner, !.heartbeat = 0, !.expires = 0]
  /\ UNCHANGED <<clock, issued, records, next_sequence>>

append_under_workflow_lease(e) ==
  /\ require_current(e)
  /\ next_sequence < MaxSequence
  /\ records' = Append(records, Record(e, NoKey))
  /\ next_sequence' = next_sequence + 1
  /\ lease' = [lease EXCEPT !.observed = next_sequence + 1]
  /\ UNCHANGED <<clock, issued>>

\* The record of a logical identity is appended once; a repetition returns the
\* stored record.  Either way observed_sequence becomes the Run's last one.
compare_and_append_under_workflow_lease(e, k) ==
  /\ require_current(e)
  /\ \/ /\ \E i \in 1..Len(records) : records[i].key = k
        /\ UNCHANGED <<records, next_sequence>>
        /\ lease' = [lease EXCEPT !.observed = run_sequence]
     \/ /\ \A i \in 1..Len(records) : records[i].key # k
        /\ next_sequence < MaxSequence
        /\ records' = Append(records, Record(e, k))
        /\ next_sequence' = next_sequence + 1
        /\ lease' = [lease EXCEPT !.observed = next_sequence + 1]
  /\ UNCHANGED <<clock, issued>>

\* An admission writes its task_created record and the caller's workflow_started
\* record in one step, and renews the lease.
admit_tasks_and_append_under_workflow_lease(e) ==
  /\ require_current(e)
  /\ next_sequence + 2 <= MaxSequence
  /\ records' = records \o <<Record(e, NoKey),
                             [Record(e, NoKey) EXCEPT !.seq = @ + 1]>>
  /\ next_sequence' = next_sequence + 2
  /\ lease' = [lease EXCEPT !.heartbeat = clock, !.expires = lease_expiry,
                            !.observed = next_sequence + 2]
  /\ UNCHANGED <<clock, issued>>

\* RuntimeLedger::append and compare_and_append on the same Run take no lease.
append ==
  /\ next_sequence < MaxSequence
  /\ records' = Append(records, Record(0, NoKey))
  /\ next_sequence' = next_sequence + 1
  /\ UNCHANGED <<clock, lease, issued>>

compare_and_append(k) ==
  /\ \A i \in 1..Len(records) : records[i].key # k
  /\ next_sequence < MaxSequence
  /\ records' = Append(records, Record(0, k))
  /\ next_sequence' = next_sequence + 1
  /\ UNCHANGED <<clock, lease, issued>>

\* Another Run of the same ledger takes the next sequence number.
append_other_run ==
  /\ next_sequence < MaxSequence
  /\ next_sequence' = next_sequence + 1
  /\ UNCHANGED <<clock, lease, issued, records>>

\* Session garbage collection deletes the Run's records and leaves its lease.
delete_run_exact ==
  /\ records' = <<>>
  /\ UNCHANGED <<clock, lease, issued, next_sequence>>

\* Time passes, or the system clock is set back.
AdvanceClock ==
  /\ clock < MaxClock
  /\ clock' = clock + 1
  /\ UNCHANGED <<lease, issued, records, next_sequence>>

RollBackClock ==
  /\ clock > 0
  /\ clock' = clock - 1
  /\ UNCHANGED <<lease, issued, records, next_sequence>>

Next ==
  \/ \E o \in Owners : acquire(o)
  \/ \E e \in Epochs :
       \/ renew(e) \/ release(e)
       \/ append_under_workflow_lease(e)
       \/ admit_tasks_and_append_under_workflow_lease(e)
       \/ \E s \in 0..MaxSequence : commit_workflow_restore(e, s)
       \/ \E k \in Keys : compare_and_append_under_workflow_lease(e, k)
  \/ append \/ append_other_run \/ delete_run_exact
  \/ \E k \in Keys : compare_and_append(k)
  \/ AdvanceClock \/ RollBackClock

Spec == Init /\ [][Next]_vars

-----------------------------------------------------------------------------
LeaseRow == [owner : Owners \cup {NoOwner}, epoch : Nat, heartbeat : Nat,
             expires : Nat, observed : Nat, committed : Nat]
LedgerRecord == [seq : Nat, epoch : Nat, key : Keys \cup {NoKey}]

TypeOK ==
  /\ clock \in Nat
  /\ lease \in LeaseRow
  /\ issued \in Seq(Owners)
  /\ records \in Seq(LedgerRecord)
  /\ next_sequence \in Nat

\* Fencing: whatever the clock does and however late an old token is used, a
\* record appended under an epoch never follows one of a later epoch, so a
\* controller that lost the Run cannot write behind its successor's back.
FencedOrder ==
  \A i, j \in 1..Len(records) :
    i < j /\ records[i].epoch # 0 /\ records[j].epoch # 0
      => records[i].epoch <= records[j].epoch

\* The trait's promise that a fenced append advances the lease's observed Run
\* sequence in the same atomic step: the row covers every record its holder
\* wrote, which mutate_projection relies on to compute durable_sequence.
ObservedCoversHolder ==
  \A i \in 1..Len(records) :
    records[i].epoch = lease.epoch /\ lease.epoch # 0
      => records[i].seq <= lease.observed

\* compare_and_append binds a logical identity once, under a lease or not.
UniqueIdentity ==
  \A i, j \in 1..Len(records) :
    records[i].key = records[j].key /\ records[i].key # NoKey => i = j

\* A Run's records are in the order of the ledger's sequence, which never runs
\* past the counter, whichever Runs interleave and whatever is deleted.
SequenceOrder ==
  /\ \A i, j \in 1..Len(records) : i < j => records[i].seq < records[j].seq
  /\ \A i \in 1..Len(records) : records[i].seq <= next_sequence

\* What the lease promises its callers, FencedLog, is implemented.
Promise == INSTANCE FencedLog WITH
  granted <- Len(issued),
  log <- [i \in 1..Len(records) |-> records[i].epoch]
PromiseSpec == Promise!Spec
=============================================================================
