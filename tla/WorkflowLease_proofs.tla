------------------------- MODULE WorkflowLease_proofs -------------------------
(* Fencing, observed sequences and logical identities of the workflow        *)
(* mutation lease, and that it implements FencedLog, for every set of owners *)
(* and keys and every bound.                                                 *)
EXTENDS WorkflowLease, TLAPS

USE SMTT(30)

\* The row's epoch is the number of tokens issued, and no record carries a
\* later one.
EpochBound ==
  /\ lease.epoch = Len(issued)
  /\ \A i \in 1..Len(records) : records[i].epoch <= lease.epoch

\* The inductive invariant.
IInv == /\ TypeOK /\ EpochBound /\ FencedOrder
        /\ SequenceOrder /\ ObservedCoversHolder /\ UniqueIdentity

\* What the invariant says of the records alone, for a row at epoch e that has
\* observed the Run up to sequence o and a counter at n.
RecordsOK(recs, e, o, n) ==
  /\ \A i \in 1..Len(recs) : recs[i].epoch <= e /\ recs[i].seq <= n
  /\ \A i \in 1..Len(recs) : recs[i].epoch = e /\ e # 0 => recs[i].seq <= o
  /\ \A i, j \in 1..Len(recs) : i < j => recs[i].seq < recs[j].seq
  /\ \A i, j \in 1..Len(recs) :
       i < j /\ recs[i].epoch # 0 /\ recs[j].epoch # 0
         => recs[i].epoch <= recs[j].epoch
  /\ \A i, j \in 1..Len(recs) :
       recs[i].key = recs[j].key /\ recs[i].key # NoKey => i = j

\* The invariant in terms of RecordsOK.
LEMMA IInvSplit ==
  IInv <=> /\ TypeOK
           /\ lease.epoch = Len(issued)
           /\ RecordsOK(records, lease.epoch, lease.observed, next_sequence)
  BY DEF IInv, EpochBound, FencedOrder, SequenceOrder, ObservedCoversHolder,
         UniqueIdentity, RecordsOK

\* Appending one record, fenced by the newest epoch or not at all, with the
\* next sequence number and no key already bound, keeps the records in order.
LEMMA AppendOne ==
  ASSUME NEW recs \in Seq(LedgerRecord), NEW e \in Nat, NEW o \in Nat,
         NEW n \in Nat, NEW r \in LedgerRecord, NEW p \in Nat,
         RecordsOK(recs, e, o, n),
         r.seq = n + 1, r.epoch \in {0, e},
         r.key # NoKey => \A i \in 1..Len(recs) : recs[i].key # r.key,
         p = n + 1 \/ (r.epoch = 0 /\ o <= p)
  PROVE  /\ Append(recs, r) \in Seq(LedgerRecord)
         /\ RecordsOK(Append(recs, r), e, p, n + 1)
<1> DEFINE s == Append(recs, r)
           k == Len(recs)
<1>1. /\ s \in Seq(LedgerRecord) /\ k \in Nat /\ Len(s) = k + 1
      /\ \A i \in 1..k : s[i] = recs[i] /\ recs[i] \in LedgerRecord
      /\ s[k + 1] = r
  OBVIOUS
<1>2. \A i \in 1..k : /\ recs[i].seq \in Nat /\ recs[i].epoch \in Nat
  BY <1>1 DEF LedgerRecord
<1>3. \A i \in 1..k : recs[i].epoch <= e /\ recs[i].seq <= n
  BY DEF RecordsOK
<1> HIDE DEF s, k
<1>4. \A i \in 1..Len(s) : i \in 1..k \/ i = k + 1
  BY <1>1
<1>5. \A i \in 1..Len(s) : s[i].epoch <= e /\ s[i].seq <= n + 1
  <2> TAKE i \in 1..Len(s)
  <2>1. CASE i \in 1..k
    BY <2>1, <1>1, <1>2, <1>3
  <2>2. CASE i = k + 1
    BY <2>2, <1>1
  <2> QED BY <2>1, <2>2, <1>4
<1>6. \A i \in 1..Len(s) : s[i].epoch = e /\ e # 0 => s[i].seq <= p
  <2>1. \A i \in 1..k : recs[i].epoch = e /\ e # 0 => recs[i].seq <= o
    BY DEF RecordsOK, k
  <2>2. CASE p = n + 1
    BY <1>5, <2>2
  <2>3. CASE r.epoch = 0 /\ o <= p
    BY <1>1, <1>2, <1>4, <2>1, <2>3
  <2> QED BY <2>2, <2>3
<1>7. \A i, j \in 1..Len(s) : i < j => s[i].seq < s[j].seq
  <2>1. \A i, j \in 1..k : i < j => recs[i].seq < recs[j].seq
    BY DEF RecordsOK, k
  <2> TAKE i, j \in 1..Len(s)
  <2> HAVE i < j
  <2>2. i \in 1..k
    BY <1>1
  <2>3. CASE j \in 1..k
    BY <2>1, <2>2, <2>3, <1>1
  <2>4. CASE j = k + 1
    BY <2>2, <2>4, <1>1, <1>2, <1>3
  <2> QED BY <2>3, <2>4, <1>4
<1>8. \A i, j \in 1..Len(s) :
        i < j /\ s[i].epoch # 0 /\ s[j].epoch # 0 => s[i].epoch <= s[j].epoch
  <2>1. \A i, j \in 1..k :
          i < j /\ recs[i].epoch # 0 /\ recs[j].epoch # 0
            => recs[i].epoch <= recs[j].epoch
    BY DEF RecordsOK, k
  <2> TAKE i, j \in 1..Len(s)
  <2> HAVE i < j /\ s[i].epoch # 0 /\ s[j].epoch # 0
  <2>2. i \in 1..k
    BY <1>1
  <2>3. CASE j \in 1..k
    BY <2>1, <2>2, <2>3, <1>1
  <2>4. CASE j = k + 1
    BY <2>2, <2>4, <1>1, <1>2, <1>3
  <2> QED BY <2>3, <2>4, <1>4
<1>9. \A i, j \in 1..Len(s) : s[i].key = s[j].key /\ s[i].key # NoKey => i = j
  <2>1. \A i, j \in 1..k :
          recs[i].key = recs[j].key /\ recs[i].key # NoKey => i = j
    BY DEF RecordsOK, k
  <2>2. r.key # NoKey => \A i \in 1..k : recs[i].key # r.key
    BY DEF k
  <2> QED BY <1>1, <1>4, <2>1, <2>2
<1> QED BY <1>1, <1>5, <1>6, <1>7, <1>8, <1>9 DEF RecordsOK, s

\* An admission's two records are two appends.
LEMMA AppendTwo ==
  ASSUME NEW S, NEW s \in Seq(S), NEW x \in S, NEW y \in S
  PROVE  s \o <<x, y>> = Append(Append(s, x), y)
  OBVIOUS

\* The Run's last sequence number bounds the sequence of every record.
LEMMA RunSequence ==
  ASSUME TypeOK, SequenceOrder
  PROVE  /\ run_sequence \in Nat
         /\ \A i \in 1..Len(records) : records[i].seq <= run_sequence
<1>1. CASE records = <<>>
  BY <1>1 DEF run_sequence
<1>2. CASE records # <<>>
  <2>1. /\ Len(records) \in 1..Len(records)
        /\ run_sequence = records[Len(records)].seq
        /\ \A i \in 1..Len(records) : records[i] \in LedgerRecord
    BY <1>2 DEF TypeOK, run_sequence
  <2>2. \A i \in 1..Len(records) : records[i].seq \in Nat
    BY <2>1 DEF LedgerRecord
  <2>3. \A i \in 1..Len(records) :
          i < Len(records) => records[i].seq < records[Len(records)].seq
    BY <2>1 DEF SequenceOrder
  <2> QED BY <2>1, <2>2, <2>3
<1> QED BY <1>1, <1>2

\* The invariant holds of an empty ledger.
THEOREM InitIInv == Init => IInv
  BY BoundsAssumption, OwnersAssumption, KeysAssumption
  DEF Init, NoLease, IInv, TypeOK, LeaseRow, LedgerRecord, EpochBound,
      FencedOrder, SequenceOrder, ObservedCoversHolder, UniqueIdentity

\* Every operation of the ledger, and every step of the clock, preserves it.
THEOREM NextIInv == IInv /\ [Next]_vars => IInv'
<1> SUFFICES ASSUME IInv, [Next]_vars PROVE IInv'
  OBVIOUS
<1>t. /\ clock \in Nat /\ lease \in LeaseRow /\ issued \in Seq(Owners)
      /\ records \in Seq(LedgerRecord) /\ next_sequence \in Nat
      /\ lease.epoch \in Nat /\ lease.observed \in Nat
      /\ lease.epoch = Len(issued)
      /\ RecordsOK(records, lease.epoch, lease.observed, next_sequence)
  BY IInvSplit DEF TypeOK, LeaseRow
<1>m. /\ clock \in Nat /\ next_sequence + 1 \in Nat /\ next_sequence + 2 \in Nat
      /\ lease \in LeaseRow /\ lease.committed \in Nat
  BY <1>t DEF LeaseRow
<1>s. SequenceOrder /\ TypeOK
  BY DEF IInv
<1>r. /\ run_sequence \in Nat
      /\ \A i \in 1..Len(records) : records[i].seq <= run_sequence
  BY <1>s, RunSequence
<1>l. lease_expiry \in Nat
  BY <1>t, BoundsAssumption DEF lease_expiry
<1>n. run_sequence \in Nat
  BY <1>r
<1>x. /\ \A e \in Nat : Record(e, NoKey) \in LedgerRecord
      /\ \A e \in Nat, q \in Keys : Record(e, q) \in LedgerRecord
  BY <1>t DEF Record, LedgerRecord
<1>e. \A i \in 1..Len(records) : records[i].epoch \in Nat
  <2>1. \A i \in 1..Len(records) : records[i] \in LedgerRecord
    BY <1>t
  <2> QED BY <2>1 DEF LedgerRecord
<1>o. RecordsOK(records, lease.epoch, run_sequence, next_sequence)
  BY <1>t, <1>r DEF RecordsOK
\* The invariant is restored by a row of the right shape over good records.
<1>q. ASSUME clock' \in Nat, lease' \in LeaseRow, issued' \in Seq(Owners),
             records' \in Seq(LedgerRecord), next_sequence' \in Nat,
             lease'.epoch = Len(issued'),
             RecordsOK(records', lease'.epoch, lease'.observed, next_sequence')
      PROVE  IInv'
  BY <1>q DEF IInv, TypeOK, EpochBound, FencedOrder, SequenceOrder,
     ObservedCoversHolder, UniqueIdentity, RecordsOK
\* One more record for the Run, under the row's epoch or unfenced.
<1>a. ASSUME NEW r \in LedgerRecord, r.seq = next_sequence + 1,
             r.epoch \in {0, lease.epoch},
             r.key # NoKey => \A i \in 1..Len(records) : records[i].key # r.key
      PROVE  /\ Append(records, r) \in Seq(LedgerRecord)
             /\ RecordsOK(Append(records, r), lease.epoch, next_sequence + 1,
                          next_sequence + 1)
             /\ r.epoch = 0 => RecordsOK(Append(records, r), lease.epoch,
                                         lease.observed, next_sequence + 1)
  <2>1. lease.observed <= lease.observed
    BY <1>t
  <2>2. /\ Append(records, r) \in Seq(LedgerRecord)
        /\ RecordsOK(Append(records, r), lease.epoch, next_sequence + 1,
                     next_sequence + 1)
    BY <1>a, <1>t, <1>m, AppendOne, Zenon
  <2>3. ASSUME r.epoch = 0
        PROVE  RecordsOK(Append(records, r), lease.epoch, lease.observed,
                         next_sequence + 1)
    BY <1>a, <1>t, <1>m, <2>1, <2>3, AppendOne
  <2> QED BY <2>2, <2>3
<1>1. ASSUME NEW o \in Owners, acquire(o) PROVE IInv'
  <2>1. lease' = [owner |-> o, epoch |-> lease.epoch + 1, heartbeat |-> clock,
                  expires |-> lease_expiry, observed |-> run_sequence,
                  committed |-> lease.committed]
    BY <1>1 DEF acquire
  <2>2. /\ lease' \in LeaseRow /\ lease'.epoch = lease.epoch + 1
        /\ lease'.observed = run_sequence
    BY <2>1, <1>t, <1>n, <1>l DEF LeaseRow
  <2>3. issued' \in Seq(Owners) /\ Len(issued') = Len(issued) + 1
    BY <1>1, <1>t DEF acquire
  <2>4. RecordsOK(records, lease.epoch + 1, run_sequence, next_sequence)
    BY <1>t, <1>e DEF RecordsOK
  <2> QED BY <1>1, <1>t, <1>q, <2>2, <2>3, <2>4 DEF acquire
<1>2. ASSUME NEW e \in Epochs, renew(e) PROVE IInv'
  <2>1. lease' = [lease EXCEPT !.heartbeat = clock, !.expires = lease_expiry]
    BY <1>2 DEF renew
  <2>2. /\ lease' \in LeaseRow /\ lease'.epoch = lease.epoch
        /\ lease'.observed = lease.observed
    BY <2>1, <1>m, <1>l, Zenon DEF LeaseRow
  <2> QED BY <1>2, <1>t, <1>q, <2>2 DEF renew
<1>3. ASSUME NEW e \in Epochs, release(e) PROVE IInv'
  <2>1. lease' = [lease EXCEPT !.owner = NoOwner, !.heartbeat = 0, !.expires = 0]
    BY <1>3 DEF release
  <2>2. /\ lease' \in LeaseRow /\ lease'.epoch = lease.epoch
        /\ lease'.observed = lease.observed
    BY <2>1, <1>m, Zenon DEF LeaseRow
  <2> QED BY <1>3, <1>t, <1>q, <2>2 DEF release
<1>4. ASSUME NEW e \in Epochs, append_under_workflow_lease(e) PROVE IInv'
  <2>1. e = lease.epoch
    BY <1>4 DEF append_under_workflow_lease, require_current
  <2>2. lease' = [lease EXCEPT !.observed = next_sequence + 1]
    BY <1>4 DEF append_under_workflow_lease
  <2>3. /\ lease' \in LeaseRow /\ lease'.epoch = lease.epoch
        /\ lease'.observed = next_sequence + 1
    BY <2>2, <1>m DEF LeaseRow
  <2>4. /\ records' = Append(records, Record(e, NoKey))
        /\ next_sequence' = next_sequence + 1
        /\ UNCHANGED <<clock, issued>>
    BY <1>4 DEF append_under_workflow_lease
  <2>5. /\ records' \in Seq(LedgerRecord)
        /\ RecordsOK(records', lease.epoch, next_sequence + 1, next_sequence + 1)
    <3> DEFINE r == Record(e, NoKey)
    <3>1. r.seq = next_sequence + 1 /\ r.epoch = lease.epoch /\ r.key = NoKey
      BY <2>1 DEF Record
    <3>2. r \in LedgerRecord
      BY <1>t, <1>x, <2>1
    <3> HIDE DEF r
    <3>3. /\ Append(records, r) \in Seq(LedgerRecord)
          /\ RecordsOK(Append(records, r), lease.epoch, next_sequence + 1,
                       next_sequence + 1)
      BY <3>1, <3>2, <1>a
    <3> QED BY <2>4, <3>3 DEF r
  <2> QED BY <1>t, <1>q, <2>3, <2>4, <2>5
<1>5. ASSUME NEW e \in Epochs, admit_tasks_and_append_under_workflow_lease(e)
      PROVE  IInv'
  <2>1. e = lease.epoch
    BY <1>5 DEF admit_tasks_and_append_under_workflow_lease, require_current
  <2>2. lease' = [lease EXCEPT !.heartbeat = clock, !.expires = lease_expiry,
                               !.observed = next_sequence + 2]
    BY <1>5 DEF admit_tasks_and_append_under_workflow_lease
  <2>3. /\ lease' \in LeaseRow /\ lease'.epoch = lease.epoch
        /\ lease'.observed = next_sequence + 2
    BY <2>2, <1>m, <1>l, Zenon DEF LeaseRow
  <2> DEFINE r == Record(e, NoKey)
             q == [Record(e, NoKey) EXCEPT !.seq = @ + 1]
  <2>4. /\ records' = records \o <<r, q>>
        /\ next_sequence' = next_sequence + 2
        /\ UNCHANGED <<clock, issued>>
    BY <1>5 DEF admit_tasks_and_append_under_workflow_lease
  <2>5. /\ r \in LedgerRecord /\ r.seq = next_sequence + 1
        /\ r.epoch = lease.epoch /\ r.key = NoKey
    BY <1>t, <1>x, <2>1 DEF Record
  <2>a. q = [seq |-> next_sequence + 1 + 1, epoch |-> e, key |-> NoKey]
    BY DEF Record
  <2>b. e \in Nat /\ next_sequence + 1 + 1 \in Nat
    BY <2>1, <1>t
  <2>6. /\ q \in LedgerRecord /\ q.seq = next_sequence + 1 + 1
        /\ q.epoch = lease.epoch /\ q.key = NoKey
    BY <2>a, <2>b, <2>1 DEF LedgerRecord
  <2> HIDE DEF r, q
  <2>7. /\ Append(records, r) \in Seq(LedgerRecord)
        /\ RecordsOK(Append(records, r), lease.epoch, next_sequence + 1,
                     next_sequence + 1)
    BY <2>5, <1>a
  <2>8. /\ Append(Append(records, r), q) \in Seq(LedgerRecord)
        /\ RecordsOK(Append(Append(records, r), q), lease.epoch,
                     next_sequence + 1 + 1, next_sequence + 1 + 1)
    <3> DEFINE s == Append(records, r)
               n == next_sequence + 1
    <3>1. s \in Seq(LedgerRecord) /\ n \in Nat /\ n + 1 \in Nat
      BY <2>7, <1>t
    <3>2. RecordsOK(s, lease.epoch, n, n)
      BY <2>7
    <3>3. q \in LedgerRecord /\ q.seq = n + 1 /\ q.epoch \in {0, lease.epoch}
      BY <2>6
    <3>4. q.key # NoKey => \A i \in 1..Len(s) : s[i].key # q.key
      BY <2>6
    <3>5. lease.epoch \in Nat
      BY <1>t
    <3> HIDE DEF s, n
    <3>6. /\ Append(s, q) \in Seq(LedgerRecord)
          /\ RecordsOK(Append(s, q), lease.epoch, n + 1, n + 1)
      BY <3>1, <3>2, <3>3, <3>4, <3>5, AppendOne
    <3> QED BY <3>6 DEF s, n
  <2>9. records' = Append(Append(records, r), q)
    BY <1>t, <2>4, <2>5, <2>6, AppendTwo
  <2>10. next_sequence + 1 + 1 = next_sequence + 2
    BY <1>t
  <2>11. /\ records' \in Seq(LedgerRecord)
         /\ RecordsOK(records', lease.epoch, next_sequence + 2, next_sequence + 2)
    BY <2>8, <2>9, <2>10
  <2> QED BY <1>t, <1>m, <1>q, <2>3, <2>4, <2>11
<1>6. ASSUME NEW e \in Epochs, NEW x \in 0..MaxSequence,
             commit_workflow_restore(e, x)
      PROVE  IInv'
  <2>1. lease' = [lease EXCEPT !.heartbeat = clock, !.expires = lease_expiry,
                    !.observed = run_sequence,
                    !.committed = IF run_sequence = x THEN x ELSE @]
    BY <1>6 DEF commit_workflow_restore
  <2>2. x \in Nat
    BY BoundsAssumption
  <2>3. /\ lease' \in LeaseRow /\ lease'.epoch = lease.epoch
        /\ lease'.observed = run_sequence
    <3>1. (IF run_sequence = x THEN x ELSE lease.committed) \in Nat
      BY <2>2, <1>m
    <3> QED BY <2>1, <3>1, <1>m, <1>l, <1>n, Zenon DEF LeaseRow
  <2> QED BY <1>6, <1>t, <1>o, <1>q, <2>3 DEF commit_workflow_restore
<1>7. ASSUME NEW e \in Epochs, NEW k \in Keys,
             compare_and_append_under_workflow_lease(e, k)
      PROVE  IInv'
  <2>1. e = lease.epoch
    BY <1>7 DEF compare_and_append_under_workflow_lease, require_current
  <2>2. CASE /\ UNCHANGED <<records, next_sequence>>
             /\ lease' = [lease EXCEPT !.observed = run_sequence]
    <3>1. /\ lease' \in LeaseRow /\ lease'.epoch = lease.epoch
          /\ lease'.observed = run_sequence
      BY <2>2, <1>m, <1>n DEF LeaseRow
    <3> QED BY <1>7, <2>2, <3>1, <1>t, <1>o, <1>q
            DEF compare_and_append_under_workflow_lease
  <2>3. CASE /\ \A i \in 1..Len(records) : records[i].key # k
             /\ records' = Append(records, Record(e, k))
             /\ next_sequence' = next_sequence + 1
             /\ lease' = [lease EXCEPT !.observed = next_sequence + 1]
    <3>1. /\ lease' \in LeaseRow /\ lease'.epoch = lease.epoch
          /\ lease'.observed = next_sequence + 1
      BY <2>3, <1>m DEF LeaseRow
    <3> DEFINE r == Record(e, k)
    <3>2. /\ r \in LedgerRecord /\ r.seq = next_sequence + 1
          /\ r.epoch = lease.epoch /\ r.key = k
      <4>1. e \in Nat
        BY <2>1, <1>t
      <4> QED BY <4>1, <1>x, <2>1 DEF Record
    <3> HIDE DEF r
    <3>3. /\ Append(records, r) \in Seq(LedgerRecord)
          /\ RecordsOK(Append(records, r), lease.epoch, next_sequence + 1,
                       next_sequence + 1)
      BY <2>3, <3>2, <1>a
    <3> QED BY <1>7, <2>3, <3>1, <3>3, <1>t, <1>q
            DEF compare_and_append_under_workflow_lease, r
  <2> QED BY <1>7, <2>2, <2>3 DEF compare_and_append_under_workflow_lease
<1>8. ASSUME NEW k \in Keys \cup {NoKey},
             k # NoKey => \A i \in 1..Len(records) : records[i].key # k,
             records' = Append(records, Record(0, k)),
             next_sequence' = next_sequence + 1,
             UNCHANGED <<clock, lease, issued>>
      PROVE  IInv'
  <2> DEFINE r == Record(0, k)
  <2>1. /\ r \in LedgerRecord /\ r.seq = next_sequence + 1
        /\ r.epoch = 0 /\ r.key = k
    BY <1>m DEF Record, LedgerRecord
  <2> HIDE DEF r
  <2>2. /\ Append(records, r) \in Seq(LedgerRecord)
        /\ RecordsOK(Append(records, r), lease.epoch, lease.observed,
                     next_sequence + 1)
    BY <1>8, <2>1, <1>a
  <2> QED BY <1>8, <1>t, <1>q, <2>2 DEF r
<1>9. CASE append
  BY <1>8, <1>9 DEF append
<1>10. ASSUME NEW k \in Keys, compare_and_append(k) PROVE IInv'
  BY <1>8, <1>10 DEF compare_and_append
<1>11. CASE append_other_run
  <2>1. RecordsOK(records, lease.epoch, lease.observed, next_sequence + 1)
    <3>1. \A i \in 1..Len(records) : records[i].seq \in Nat
      <4>1. \A i \in 1..Len(records) : records[i] \in LedgerRecord
        BY <1>t
      <4> QED BY <4>1 DEF LedgerRecord
    <3>2. \A i \in 1..Len(records) :
            records[i].epoch <= lease.epoch /\ records[i].seq <= next_sequence + 1
      <4>1. \A i \in 1..Len(records) :
              records[i].epoch <= lease.epoch /\ records[i].seq <= next_sequence
        BY <1>t DEF RecordsOK
      <4>2. next_sequence \in Nat
        BY <1>t
      <4> QED BY <3>1, <4>1, <4>2
    <3> QED BY <1>t, <3>2, Zenon DEF RecordsOK
  <2> QED BY <1>11, <1>t, <1>q, <2>1 DEF append_other_run
<1>12. CASE delete_run_exact
  <2>1. records' \in Seq(LedgerRecord)
        /\ RecordsOK(records', lease.epoch, lease.observed, next_sequence)
    BY <1>12, <1>t DEF delete_run_exact, RecordsOK
  <2> QED BY <1>12, <1>t, <1>q, <2>1 DEF delete_run_exact
<1>13. CASE AdvanceClock
  BY <1>13, <1>t, <1>q DEF AdvanceClock
<1>14. CASE RollBackClock
  BY <1>14, <1>t, <1>q DEF RollBackClock
<1>15. CASE UNCHANGED vars
  BY <1>15, <1>t, <1>q DEF vars
<1> QED
  BY <1>1, <1>2, <1>3, <1>4, <1>5, <1>6, <1>7, <1>9, <1>10, <1>11, <1>12,
     <1>13, <1>14, <1>15 DEF Next

\* The invariant holds in every reachable state.
THEOREM Invariance == Spec => []IInv
  BY InitIInv, NextIInv, PTL DEF Spec

\* Every variable of the ledger keeps its type.
THEOREM TypeCorrect == Spec => []TypeOK
<1>1. IInv => TypeOK
  BY DEF IInv
<1> QED BY <1>1, Invariance, PTL

\* No record of an epoch follows one of a later epoch: a controller that lost
\* the Run cannot append after its successor has.
THEOREM Fencing == Spec => []FencedOrder
<1>1. IInv => FencedOrder
  BY DEF IInv
<1> QED BY <1>1, Invariance, PTL

\* observed_sequence covers whatever the lease's holder appended.
THEOREM Observed == Spec => []ObservedCoversHolder
<1>1. IInv => ObservedCoversHolder
  BY DEF IInv
<1> QED BY <1>1, Invariance, PTL

\* A logical identity is bound to one record.
THEOREM OneRecordPerIdentity == Spec => []UniqueIdentity
<1>1. IInv => UniqueIdentity
  BY DEF IInv
<1> QED BY <1>1, Invariance, PTL

\* A Run's records are in sequence order.
THEOREM OrderedRecords == Spec => []SequenceOrder
<1>1. IInv => SequenceOrder
  BY DEF IInv
<1> QED BY <1>1, Invariance, PTL

-----------------------------------------------------------------------------
(* The refinement.                                                           *)

\* The abstract log of a Run's records.
EpochsOf(recs) == [i \in 1..Len(recs) |-> recs[i].epoch]

\* The abstract log is a sequence of epochs, as long as the records.
LEMMA EpochsType ==
  ASSUME NEW recs \in Seq(LedgerRecord)
  PROVE  EpochsOf(recs) \in Seq(Nat) /\ Len(EpochsOf(recs)) = Len(recs)
<1>1. Len(recs) \in Nat /\ \A i \in 1..Len(recs) : recs[i] \in LedgerRecord
  OBVIOUS
<1> QED BY <1>1 DEF EpochsOf, LedgerRecord

\* The abstract log of one more record.
LEMMA EpochsAppend ==
  ASSUME NEW recs \in Seq(LedgerRecord), NEW r \in LedgerRecord
  PROVE  EpochsOf(Append(recs, r)) = Append(EpochsOf(recs), r.epoch)
<1> DEFINE s == Append(recs, r)
           a == EpochsOf(s)
           b == Append(EpochsOf(recs), r.epoch)
           k == Len(recs)
<1>1. /\ k \in Nat /\ Len(s) = k + 1 /\ s[k + 1] = r
      /\ \A i \in 1..k : s[i] = recs[i] /\ recs[i] \in LedgerRecord
  OBVIOUS
<1>2. EpochsOf(recs) \in Seq(Nat) /\ Len(EpochsOf(recs)) = k
  BY EpochsType
<1>3. r.epoch \in Nat
  BY DEF LedgerRecord
<1>4. /\ b \in Seq(Nat) /\ Len(b) = k + 1 /\ b[k + 1] = r.epoch
      /\ \A i \in 1..k : b[i] = EpochsOf(recs)[i]
  BY <1>1, <1>2, <1>3
<1>5. \A i \in 1..k : b[i] = recs[i].epoch
  BY <1>1, <1>4 DEF EpochsOf
<1> HIDE DEF b
<1>6. b = [i \in 1..(k + 1) |-> b[i]]
  BY <1>1, <1>4
<1>7. a = [i \in 1..(k + 1) |-> s[i].epoch]
  BY <1>1 DEF EpochsOf
<1>8. \A i \in 1..(k + 1) : s[i].epoch = b[i]
  BY <1>1, <1>4, <1>5
<1> QED BY <1>6, <1>7, <1>8 DEF b

\* A step of the ledger is a step of FencedLog or leaves its variables alone.
LEMMA StepSimulation ==
  ASSUME IInv, [Next]_vars
  PROVE  [Promise!Next]_<<Len(issued), EpochsOf(records)>>
<1> DEFINE granted == Len(issued)
           log == EpochsOf(records)
<1>t. /\ issued \in Seq(Owners) /\ records \in Seq(LedgerRecord)
      /\ next_sequence \in Nat /\ lease.epoch = Len(issued)
      /\ Len(issued) \in Nat
  BY DEF IInv, TypeOK, EpochBound
<1>r. \A e \in Nat, k \in Keys \cup {NoKey} :
        Record(e, k) \in LedgerRecord /\ Record(e, k).epoch = e
  BY <1>t DEF Record, LedgerRecord
<1>n. Promise!Next <=>
        \/ granted' = granted + 1 /\ log' = log
        \/ /\ granted > 0
           /\ log' = Append(log, granted) \/ log' = log \o <<granted, granted>>
           /\ granted' = granted
        \/ log' = Append(log, 0) /\ granted' = granted
        \/ log' = <<>> /\ granted' = granted
  BY Zenon DEF Promise!Next, Promise!Grant, Promise!Write, Promise!WriteUnfenced,
         Promise!Delete, EpochsOf
<1>i. granted' = Len(issued') /\ log' = EpochsOf(records')
  BY DEF EpochsOf
<1>u. ASSUME issued' = issued, records' = records
      PROVE  <<granted, log>>' = <<granted, log>>
  BY <1>u, <1>i
<1>f. ASSUME NEW e \in Epochs, require_current(e)
      PROVE  e = granted /\ granted > 0
  BY <1>f, <1>t DEF require_current, Epochs
<1>w. ASSUME NEW k \in Keys \cup {NoKey}, granted > 0, issued' = issued,
             records' = Append(records, Record(granted, k))
      PROVE  Promise!Next
  <2>1. log' = Append(log, granted)
    BY <1>w, <1>i, <1>t, <1>r, EpochsAppend
  <2> QED BY <2>1, <1>w, <1>n, <1>i
<1>z. ASSUME NEW k \in Keys \cup {NoKey}, issued' = issued,
             records' = Append(records, Record(0, k))
      PROVE  Promise!Next
  <2>1. log' = Append(log, 0)
    BY <1>z, <1>i, <1>t, <1>r, EpochsAppend, Zenon
  <2> QED BY <2>1, <1>z, <1>n, <1>i
<1>1. CASE \E o \in Owners : acquire(o)
  <2> PICK o \in Owners : acquire(o)
    BY <1>1
  <2>1. issued' = Append(issued, o) /\ records' = records
    BY DEF acquire
  <2>2. granted' = granted + 1 /\ log' = log
    BY <2>1, <1>t, <1>i
  <2> QED BY <2>2, <1>n
<1>2. CASE \E e \in Epochs :
             \/ renew(e) \/ release(e)
             \/ \E s \in 0..MaxSequence : commit_workflow_restore(e, s)
  BY <1>2, <1>u, Zenon DEF renew, release, commit_workflow_restore
<1>3. CASE \E e \in Epochs : append_under_workflow_lease(e)
  <2> PICK e \in Epochs : append_under_workflow_lease(e)
    BY <1>3
  <2>1. /\ require_current(e) /\ issued' = issued
        /\ records' = Append(records, Record(e, NoKey))
    BY DEF append_under_workflow_lease
  <2> QED BY <2>1, <1>f, <1>w
<1>4. CASE \E e \in Epochs : admit_tasks_and_append_under_workflow_lease(e)
  <2> PICK e \in Epochs : admit_tasks_and_append_under_workflow_lease(e)
    BY <1>4
  <2> DEFINE x == Record(e, NoKey)
             y == [x EXCEPT !.seq = @ + 1]
  <2>1. /\ require_current(e) /\ issued' = issued
        /\ records' = records \o <<x, y>>
    BY DEF admit_tasks_and_append_under_workflow_lease
  <2>2. e = granted /\ granted > 0 /\ e \in Nat
    BY <2>1, <1>f, <1>t
  <2>3. /\ x \in LedgerRecord /\ x.epoch = e
        /\ y \in LedgerRecord /\ y.epoch = e
    BY <2>2, <1>t DEF Record, LedgerRecord
  <2> HIDE DEF x, y
  <2>4. /\ records' = Append(Append(records, x), y)
        /\ Append(records, x) \in Seq(LedgerRecord)
    BY <2>1, <2>3, <1>t, AppendTwo
  <2>5. log' = Append(Append(log, e), e)
    BY <2>3, <2>4, <1>i, <1>t, EpochsAppend, Zenon
  <2>6. log \in Seq(Nat)
    BY <1>t, EpochsType
  <2>7. log \o <<e, e>> = Append(Append(log, e), e)
    BY <2>6, <2>2, AppendTwo
  <2> QED BY <2>1, <2>2, <2>5, <2>7, <1>n, <1>i, Zenon
<1>5. CASE \E e \in Epochs, k \in Keys : compare_and_append_under_workflow_lease(e, k)
  <2> PICK e \in Epochs, k \in Keys : compare_and_append_under_workflow_lease(e, k)
    BY <1>5
  <2>1. /\ require_current(e) /\ issued' = issued
        /\ records' = records \/ records' = Append(records, Record(e, k))
    BY DEF compare_and_append_under_workflow_lease
  <2> QED BY <2>1, <1>f, <1>w, <1>u
<1>6. CASE append \/ \E k \in Keys : compare_and_append(k)
  <2>1. PICK k \in Keys \cup {NoKey} :
          issued' = issued /\ records' = Append(records, Record(0, k))
    BY <1>6 DEF append, compare_and_append
  <2> QED BY <2>1, <1>z
<1>7. CASE delete_run_exact
  <2>1. issued' = issued /\ records' = <<>>
    BY <1>7 DEF delete_run_exact
  <2>2. log' = <<>>
    BY <2>1, <1>i DEF EpochsOf
  <2> QED BY <2>1, <2>2, <1>n, <1>i
<1>8. CASE append_other_run \/ AdvanceClock \/ RollBackClock \/ UNCHANGED vars
  BY <1>8, <1>u DEF append_other_run, AdvanceClock, RollBackClock, vars
<1> QED
  BY <1>1, <1>2, <1>3, <1>4, <1>5, <1>6, <1>7, <1>8 DEF Next

\* Whatever the clock does and whichever tokens are presented, the lease is a
\* FencedLog: every fenced record is written under the newest epoch granted.
THEOREM ImplementsFencedLog == Spec => PromiseSpec
<1>1. Init => Promise!Init
  BY DEF Init, Promise!Init
<1>2. IInv /\ [Next]_vars
        => [Promise!Next]_<<Len(issued), [i \in 1..Len(records) |-> records[i].epoch]>>
  BY StepSimulation DEF EpochsOf
<1> QED BY <1>1, <1>2, Invariance, PTL DEF Spec, PromiseSpec, Promise!Spec
=============================================================================
