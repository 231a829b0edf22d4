--------------------------- MODULE HostOutbox_proofs ---------------------------
(* Delivery to the Host, for any number of processes, events, crashes and     *)
(* lost leases.  Whatever the wall clock does no row loses its key or its     *)
(* delivery id, and nothing is displayed twice or acknowledged before it was  *)
(* displayed.  Delivery is in order when the clock is not set back and an     *)
(* owner opens the outbox before it loses its lease.                          *)
EXTENDS HostOutbox, FiniteOrders, TLAPS

\* A leaf that needs arithmetic, sequences or records cites SMT instead.
USE ZenonT(20)

-----------------------------------------------------------------------------
(* The inductive invariant, order aside.                                      *)

Envelopes == [id : Nat, event : Nat, epoch : Nat]
Acknowledgements == [id : Nat, epoch : Nat]
Rows == [id : Nat, epoch : Nat, seq : Nat, created : Nat, acked : BOOLEAN, by : Procs]
Stages == {"new", "leased", "opened", "replay", "emit", "idle", "dead"}
Leases == [owner : Procs \cup {NoProc}, epoch : Nat, live : BOOLEAN]
Sessions == [pc : Stages, held : Nat, epoch : Nat, replay : Seq(Nat)]

Typing ==
  /\ clock \in Nat /\ faults \in Nat
  /\ lease \in Leases
  /\ rows \in Seq(Rows)
  /\ proc \in [Procs -> Sessions]
  /\ wire \in [Procs -> Seq(Envelopes)]
  /\ acks \in [Procs -> Seq(Acknowledgements)]
  /\ recorded \in SUBSET Nat /\ displayed \in Seq(Nat)
  /\ lease.live => lease.owner \in Procs

\* A row keeps its delivery id, and (epoch, sequence) is a key of the table.
Keyed ==
  /\ \A n \in 1..Len(rows) : rows[n].id = n
  /\ \A m, n \in 1..Len(rows) :
       rows[m].epoch = rows[n].epoch /\ rows[m].seq = rows[n].seq => m = n

\* What is on its way is a committed event under its own id, what is
\* acknowledged has been recorded, and what is recorded is what was displayed.
Truthful ==
  /\ \A p \in Procs :
       /\ \A i \in 1..Len(proc[p].replay) : proc[p].replay[i] \in 1..Len(rows)
       /\ \A i \in 1..Len(wire[p]) : /\ wire[p][i].event \in 1..Len(rows)
                                     /\ wire[p][i].id = wire[p][i].event
       /\ \A i \in 1..Len(acks[p]) : acks[p][i].id \in recorded
  /\ recorded = Range(displayed)
  /\ recorded \subseteq 1..Len(rows)

\* Delivery without its order, whatever the clock does.
Once == Typing /\ Keyed /\ Truthful /\ AckedIsRecorded /\ DisplayedOnce

-----------------------------------------------------------------------------
(* Reading and adopting the pending rows.                                     *)

LEMMA RowsAreTyped ==
  ASSUME Typing
  PROVE  /\ rows \in Seq(Rows) /\ Len(rows) \in Nat
         /\ \A n \in 1..Len(rows) :
              /\ rows[n] \in Rows
              /\ rows[n].created \in Nat /\ rows[n].epoch \in Nat
              /\ rows[n].seq \in Nat /\ rows[n].id \in Nat /\ rows[n].acked \in BOOLEAN
<1>1. rows \in Seq(Rows) /\ Len(rows) \in Nat
  BY SMTT(30) DEF Typing
<1>2. \A n \in 1..Len(rows) : rows[n] \in Rows
  BY <1>1, SMTT(30)
<1> QED BY <1>1, <1>2 DEF Rows

\* ORDER BY created_at_ms, run_epoch, sequence is a total order of the rows.
LEMMA BeforeIsTotal ==
  ASSUME Typing, Keyed
  PROVE  /\ \A m \in 1..Len(rows) : ~Before(m, m)
         /\ \A m, n \in 1..Len(rows) : m # n => Before(m, n) \/ Before(n, m)
         /\ \A k, m, n \in 1..Len(rows) : Before(k, m) /\ Before(m, n) => Before(k, n)
<1>1. \A n \in 1..Len(rows) : /\ rows[n].created \in Nat /\ rows[n].epoch \in Nat
                              /\ rows[n].seq \in Nat
  BY RowsAreTyped
<1>2. \A m, n \in 1..Len(rows) : m # n =>
        ~(rows[m].epoch = rows[n].epoch /\ rows[m].seq = rows[n].seq)
  BY DEF Keyed
<1>3. \A m \in 1..Len(rows) : ~Before(m, m)
  BY <1>1, SMTT(30) DEF Before
<1>4. \A m, n \in 1..Len(rows) : m # n => Before(m, n) \/ Before(n, m)
  BY <1>1, <1>2, SMTT(30) DEF Before
<1>5. ASSUME NEW k \in 1..Len(rows), NEW m \in 1..Len(rows), NEW n \in 1..Len(rows),
             Before(k, m), Before(m, n)
      PROVE  Before(k, n)
  <2>1. CASE rows[k].created < rows[m].created \/ rows[m].created < rows[n].created
    BY <2>1, <1>1, <1>5, SMTT(30) DEF Before
  <2>2. CASE rows[k].created = rows[m].created /\ rows[m].created = rows[n].created
    BY <2>2, <1>1, <1>5, SMTT(30) DEF Before
  <2> QED BY <2>1, <2>2, <1>5 DEF Before
<1> QED BY <1>3, <1>4, <1>5

\* query_pending_deliveries lists each of the rows once, in that order.
LEMMA QueryIsSorted ==
  ASSUME Typing, Keyed, NEW S \in SUBSET (1..Len(rows)), NEW s,
         s = query_pending_deliveries(S)
  PROVE  /\ IsFiniteSet(S) /\ Cardinality(S) \in Nat
         /\ s \in [1..Cardinality(S) -> S]
         /\ \A i, j \in 1..Cardinality(S) : i < j => Before(s[i], s[j])
         /\ \A n \in S : \E i \in 1..Cardinality(S) : s[i] = n
         /\ s \in Seq(Nat) /\ Len(s) = Cardinality(S) /\ Range(s) = S
<1> DEFINE N == Cardinality(S)
           R == {pr \in S \X S : Before(pr[1], pr[2])}
<1>1. Len(rows) \in Nat /\ S \subseteq 1..Len(rows)
  BY SMTT(30) DEF Typing
<1>2. IsFiniteSet(S) /\ N \in Nat
  <2>1. IsFiniteSet(1..Len(rows))
    BY <1>1, FS_Interval, SMTT(30)
  <2>2. IsFiniteSet(S)
    BY <2>1, <1>1, FS_Subset
  <2> QED BY <2>2, FS_CardinalityType
<1>3. \A x, y \in S : <<x, y>> \in R <=> Before(x, y)
  OBVIOUS
<1> HIDE DEF R, N
<1>4. \A x, y \in S : x # y => <<x, y>> \in R \/ <<y, x>> \in R
  BY <1>1, <1>3, BeforeIsTotal
<1>5. \A x, y, z \in S : <<x, y>> \in R /\ <<y, z>> \in R => <<x, z>> \in R
  BY <1>1, <1>3, BeforeIsTotal
<1>6. \E t \in [1..N -> S] : \A i, j \in 1..N : i < j => <<t[i], t[j]>> \in R
  BY <1>2, <1>4, <1>5, HasSorted DEF N
<1>7. \E t \in [1..N -> S] : \A i, j \in 1..N : i < j => Before(t[i], t[j])
  <2>1. PICK t \in [1..N -> S] : \A i, j \in 1..N : i < j => <<t[i], t[j]>> \in R
    BY <1>6
  <2>2. \A i, j \in 1..N : i < j => Before(t[i], t[j])
    BY <2>1, <1>3
  <2> QED BY <2>2
<1>8. s \in [1..N -> S] /\ \A i, j \in 1..N : i < j => Before(s[i], s[j])
  BY <1>7 DEF query_pending_deliveries, N
<1>9. \A i, j \in 1..N : s[i] = s[j] => i = j
  <2> SUFFICES ASSUME NEW i \in 1..N, NEW j \in 1..N, i < j PROVE s[i] # s[j]
    BY <1>2, SMTT(30)
  <2>1. s[i] \in 1..Len(rows) /\ Before(s[i], s[j])
    BY <1>1, <1>8
  <2> QED BY <2>1, BeforeIsTotal
<1>10. s \in Surjection(1..N, S)
  <2>1. s \in Injection(1..N, S)
    BY <1>8, <1>9 DEF Injection, IsInjective
  <2>2. IsFiniteSet(1..N) /\ Cardinality(1..N) = N
    BY <1>2, FS_Interval, SMTT(30)
  <2> QED BY <2>1, <2>2, <1>2, FS_Injection DEF N
<1>11. \A n \in S : \E i \in 1..N : s[i] = n
  BY <1>10 DEF Surjection
<1>12. s \in Seq(Nat) /\ Len(s) = N
  <2>1. S \subseteq Nat
    BY <1>1, SMTT(30)
  <2>2. s \in [1..N -> Nat]
    BY <2>1, <1>8
  <2> QED BY <1>2, <2>2, FunctionIsSeq
<1>13. Range(s) = S
  <2>1. DOMAIN s = 1..N /\ \A i \in 1..N : s[i] \in S
    BY <1>8
  <2> QED BY <1>11, <2>1 DEF Range
<1> QED BY <1>2, <1>8, <1>11, <1>12, <1>13 DEF N

\* The next sequence number of an epoch, counted over some of its rows, is past
\* those of all of them.
LEMMA NextIsPast ==
  ASSUME Typing, NEW e \in Nat, NEW K \in SUBSET (1..Len(rows)), NEW b,
         b = After(Sequences(e, K))
  PROVE  b \in Nat /\ \A n \in K : rows[n].epoch = e => rows[n].seq < b
<1> DEFINE L == {k \in K : rows[k].epoch = e}
           Q == Sequences(e, K)
           f == [n \in L |-> rows[n].seq]
<1>1. L \subseteq 1..Len(rows) /\ Len(rows) \in Nat
  BY RowsAreTyped
<1>2. IsFiniteSet(L)
  <2>1. IsFiniteSet(1..Len(rows))
    BY <1>1, FS_Interval, SMTT(30)
  <2> QED BY <2>1, <1>1, FS_Subset
<1>3. f \in Surjection(L, Q)
  BY DEF Surjection, Sequences
<1>4. IsFiniteSet(Q)
  <2> HIDE DEF f, L, Q
  <2> QED BY <1>2, <1>3, FS_Surjection
<1>5. Q \subseteq Nat
  BY RowsAreTyped DEF Sequences
<1>6. \A n \in K : rows[n].epoch = e => rows[n].seq \in Q
  BY DEF Sequences
<1> HIDE DEF Q
<1>7. CASE Q = {}
  BY <1>6, <1>7 DEF Q, After
<1>8. CASE Q # {}
  <2>1. \E q \in Q : \A r \in Q : r <= q
    BY <1>4, <1>5, <1>8, HasMaximum
  <2> DEFINE q == CHOOSE x \in Q : \A r \in Q : r <= x
  <2>2. q \in Q /\ \A r \in Q : r <= q
    BY <2>1
  <2>3. b = 1 + q
    BY <1>8 DEF Q, After
  <2> HIDE DEF q
  <2>4. q \in Nat /\ \A r \in Q : r \in Nat
    BY <1>5, <2>2
  <2>5. \A r \in Q : r < b
    BY <2>2, <2>3, <2>4, SMTT(30)
  <2>6. b \in Nat
    BY <2>3, <2>4, SMTT(30)
  <2> QED BY <2>5, <2>6, <1>6
<1> QED BY <1>7, <1>8

\* Adoption moves every pending row to the epoch and changes nothing else but
\* its number; numbers stay a key, and follow the order the rows are read in.
LEMMA AdoptionKeeps ==
  ASSUME Typing, Keyed, NEW e \in Nat, NEW R, R = adopt_pending_deliveries(e)
  PROVE  /\ R \in Seq(Rows) /\ Len(R) = Len(rows)
         /\ \A n \in 1..Len(rows) :
              /\ R[n].id = rows[n].id /\ R[n].created = rows[n].created
              /\ R[n].acked = rows[n].acked
              /\ R[n].epoch = IF n \in Pending THEN e ELSE rows[n].epoch
         /\ \A m, n \in 1..Len(rows) : R[m].epoch = R[n].epoch /\ R[m].seq = R[n].seq => m = n
         /\ \A m, n \in Pending : Before(m, n) => \/ R = rows
                                                  \/ R[m].seq < R[n].seq
<1> DEFINE order == query_pending_deliveries(Pending)
           place(n) == CHOOSE i \in 1..Len(order) : order[i] = n
           base == After(Sequences(e, 1..Len(rows) \ Pending))
           N == Cardinality(Pending)
<1>1. rows \in Seq(Rows) /\ Len(rows) \in Nat /\ Pending \subseteq 1..Len(rows)
  BY RowsAreTyped DEF Pending
<1>2. /\ N \in Nat /\ order \in [1..N -> Pending] /\ Len(order) = N
      /\ \A i, j \in 1..N : i < j => Before(order[i], order[j])
      /\ \A n \in Pending : \E i \in 1..N : order[i] = n
  <2> HIDE DEF order, N
  <2> QED BY <1>1, QueryIsSorted DEF order, N
<1>3. base \in Nat /\ \A n \in 1..Len(rows) \ Pending :
                        rows[n].epoch = e => rows[n].seq < base
  <2>1. 1..Len(rows) \ Pending \in SUBSET (1..Len(rows))
    OBVIOUS
  <2> HIDE DEF base
  <2> QED BY <2>1, NextIsPast DEF base
<1>4. CASE \A n \in Pending : rows[n].epoch = e
  <2>1. R = rows
    BY <1>4 DEF adopt_pending_deliveries
  <2> QED BY <1>1, <1>4, <2>1 DEF Keyed
<1>5. CASE \E n \in Pending : rows[n].epoch # e
  <2>1. R = [n \in 1..Len(rows) |->
              IF n \in Pending
              THEN [rows[n] EXCEPT !.epoch = e, !.seq = base + place(n) - 1]
              ELSE rows[n]]
    BY <1>5 DEF adopt_pending_deliveries
  <2>2. \A n \in Pending : place(n) \in 1..N /\ order[place(n)] = n
    BY <1>2
  <2> HIDE DEF place, base, order, N
  <2>3. \A n \in Pending : base + place(n) - 1 \in Nat
    BY <1>2, <1>3, <2>2, SMTT(30)
  <2>4. ASSUME NEW n \in 1..Len(rows)
        PROVE  /\ R[n] \in Rows
               /\ R[n].id = rows[n].id /\ R[n].created = rows[n].created
               /\ R[n].acked = rows[n].acked
               /\ R[n].epoch = IF n \in Pending THEN e ELSE rows[n].epoch
               /\ R[n].seq = IF n \in Pending THEN base + place(n) - 1 ELSE rows[n].seq
    <3>1. rows[n] \in Rows
      BY RowsAreTyped
    <3>2. CASE n \in Pending
      <4>1. R[n] = [rows[n] EXCEPT !.epoch = e, !.seq = base + place(n) - 1]
        BY <2>1, <3>2
      <4> QED BY <4>1, <3>1, <3>2, <2>3 DEF Rows
    <3>3. CASE n \notin Pending
      BY <2>1, <3>1, <3>3
    <3> QED BY <3>2, <3>3
  <2>5. R \in Seq(Rows) /\ Len(R) = Len(rows)
    <3>1. R \in [1..Len(rows) -> Rows]
      BY <2>1, <2>4
    <3> QED BY <3>1, <1>1, FunctionIsSeq
  <2>6. \A m, n \in 1..Len(rows) : R[m].epoch = R[n].epoch /\ R[m].seq = R[n].seq => m = n
    <3> SUFFICES ASSUME NEW m \in 1..Len(rows), NEW n \in 1..Len(rows),
                        R[m].epoch = R[n].epoch, R[m].seq = R[n].seq
                 PROVE  m = n
      OBVIOUS
    <3>1. CASE m \in Pending /\ n \in Pending
      <4>1. place(m) \in Int /\ place(n) \in Int /\ base + place(m) - 1 = base + place(n) - 1
        BY <2>2, <2>4, <3>1, <1>2, SMTT(30)
      <4>2. place(m) = place(n)
        BY <4>1, <1>3, SMTT(30)
      <4> QED BY <4>2, <2>2, <3>1
    <3>2. CASE m \notin Pending /\ n \notin Pending
      BY <2>4, <3>2 DEF Keyed
    <3>3. ASSUME NEW i \in Pending, NEW j \in 1..Len(rows), j \notin Pending,
                 R[i].epoch = R[j].epoch
          PROVE  R[i].seq # R[j].seq
      <4>1. i \in 1..Len(rows) /\ rows[j].epoch = e /\ rows[j].seq \in Nat
        BY <1>1, <2>4, <3>3, RowsAreTyped
      <4>2. rows[j].seq < base /\ R[j].seq = rows[j].seq /\ R[i].seq = base + place(i) - 1
        BY <1>3, <2>4, <3>3, <4>1
      <4>3. place(i) \in Int /\ place(i) >= 1
        BY <1>2, <2>2, SMTT(30)
      <4> QED BY <4>1, <4>2, <4>3, <1>3, SMTT(30)
    <3> QED BY <3>1, <3>2, <3>3
  <2>7. \A m, n \in Pending : Before(m, n) => R[m].seq < R[n].seq
    <3> SUFFICES ASSUME NEW m \in Pending, NEW n \in Pending, Before(m, n)
                 PROVE  R[m].seq < R[n].seq
      OBVIOUS
    <3>1. m \in 1..Len(rows) /\ n \in 1..Len(rows) /\ place(m) \in 1..N /\ place(n) \in 1..N
      BY <1>1, <2>2
    <3>2. ~(place(n) < place(m))
      <4>1. place(n) < place(m) => Before(n, m)
        BY <1>2, <2>2, <3>1, SMTT(30)
      <4>2. ~Before(n, m)
        BY <3>1, BeforeIsTotal
      <4> QED BY <4>1, <4>2
    <3>3. place(m) # place(n)
      <4>1. ~Before(m, m)
        BY <3>1, BeforeIsTotal
      <4> QED BY <4>1, <2>2
    <3>4. place(m) < place(n)
      BY <3>1, <3>2, <3>3, <1>2, SMTT(30)
    <3>5. place(m) \in Int /\ place(n) \in Int
      BY <3>1, <1>2, SMTT(30)
    <3>6. base + place(m) - 1 < base + place(n) - 1
      BY <3>4, <3>5, <1>3, SMTT(30)
    <3> QED BY <3>1, <3>6, <2>4
  <2> QED BY <2>4, <2>5, <2>6, <2>7
<1> QED BY <1>4, <1>5

-----------------------------------------------------------------------------
(* What each action of a process leaves behind.                               *)

LEMMA SessionChange ==
  ASSUME Typing, NEW p \in Procs, NEW v \in Sessions, proc' = [proc EXCEPT ![p] = v]
  PROVE  /\ proc' \in [Procs -> Sessions] /\ proc'[p] = v
         /\ \A q \in Procs : q # p => proc'[q] = proc[q]
BY DEF Typing

LEMMA LoadActiveEffect ==
  ASSUME Typing, NEW p \in Procs, load_active(p)
  PROVE  /\ Typing'
         /\ proc'[p].pc = "leased" /\ proc'[p].held = lease.epoch + 1
         /\ proc'[p].epoch = proc[p].epoch /\ proc'[p].replay = proc[p].replay
         /\ \A q \in Procs : q # p => proc'[q] = proc[q]
<1> DEFINE v == [proc[p] EXCEPT !.pc = "leased", !.held = lease.epoch + 1]
<1>1. proc[p] \in Sessions /\ lease \in Leases
  BY DEF Typing
<1>2. lease.epoch + 1 \in Nat /\ "leased" \in Stages
  BY <1>1, SMTT(30) DEF Leases, Stages
<1>3. /\ v \in Sessions /\ v.pc = "leased" /\ v.held = lease.epoch + 1
      /\ v.epoch = proc[p].epoch /\ v.replay = proc[p].replay
  BY <1>1, <1>2 DEF Sessions
<1>4. proc' = [proc EXCEPT ![p] = v]
  BY DEF load_active
<1> HIDE DEF v
<1>5. /\ proc' \in [Procs -> Sessions] /\ proc'[p] = v
      /\ \A q \in Procs : q # p => proc'[q] = proc[q]
  BY <1>3, <1>4, SessionChange
<1>6. lease' \in Leases /\ lease'.owner \in Procs
  BY <1>1, SMTT(30) DEF load_active, Leases
<1>7. Typing'
  BY <1>5, <1>6 DEF Typing, load_active, host
<1> QED BY <1>3, <1>5, <1>7

LEMMA PrepareEffect ==
  ASSUME Typing, Keyed, NEW p \in Procs, prepare_host_outbox(p)
  PROVE  /\ Typing'
         /\ proc'[p].pc = "opened" /\ proc'[p].epoch = lease.epoch
         /\ proc'[p].held = proc[p].held /\ proc'[p].replay = proc[p].replay
         /\ \A q \in Procs : q # p => proc'[q] = proc[q]
<1> DEFINE v == [proc[p] EXCEPT !.pc = "opened", !.epoch = lease.epoch]
<1>1. proc[p] \in Sessions /\ lease \in Leases
  BY DEF Typing
<1>2. lease.epoch \in Nat /\ "opened" \in Stages
  BY <1>1 DEF Leases, Stages
<1>3. /\ v \in Sessions /\ v.pc = "opened" /\ v.epoch = lease.epoch
      /\ v.held = proc[p].held /\ v.replay = proc[p].replay
  BY <1>1, <1>2 DEF Sessions
<1>4. proc' = [proc EXCEPT ![p] = v]
  BY DEF prepare_host_outbox
<1> HIDE DEF v
<1>5. /\ proc' \in [Procs -> Sessions] /\ proc'[p] = v
      /\ \A q \in Procs : q # p => proc'[q] = proc[q]
  BY <1>3, <1>4, SessionChange
<1>6. rows' \in Seq(Rows)
  BY <1>2, AdoptionKeeps DEF prepare_host_outbox
<1>7. Typing'
  BY <1>5, <1>6 DEF Typing, prepare_host_outbox, host
<1> QED BY <1>3, <1>5, <1>7

LEMMA ReplayEffect ==
  ASSUME Typing, Keyed, NEW p \in Procs, pending_host_deliveries(p), NEW S,
         S = {n \in Pending : rows[n].epoch = proc[p].epoch}
  PROVE  /\ Typing'
         /\ proc'[p].pc = "replay" /\ proc'[p].replay = query_pending_deliveries(S)
         /\ proc'[p].held = proc[p].held /\ proc'[p].epoch = proc[p].epoch
         /\ \A q \in Procs : q # p => proc'[q] = proc[q]
<1> DEFINE s == query_pending_deliveries(S)
           v == [proc[p] EXCEPT !.pc = "replay", !.replay = s]
<1>1. proc[p] \in Sessions
  BY DEF Typing
<1>2. s \in Seq(Nat) /\ "replay" \in Stages
  <2>1. S \in SUBSET (1..Len(rows))
    BY DEF Pending
  <2> HIDE DEF s
  <2> QED BY <2>1, QueryIsSorted DEF Stages, s
<1>3. proc' = [proc EXCEPT ![p] = v]
  BY DEF pending_host_deliveries
<1> HIDE DEF s
<1>4. /\ v \in Sessions /\ v.pc = "replay" /\ v.replay = s
      /\ v.held = proc[p].held /\ v.epoch = proc[p].epoch
  BY <1>1, <1>2 DEF Sessions
<1> HIDE DEF v
<1>5. /\ proc' \in [Procs -> Sessions] /\ proc'[p] = v
      /\ \A q \in Procs : q # p => proc'[q] = proc[q]
  BY <1>3, <1>4, SessionChange
<1>6. Typing'
  BY <1>5 DEF Typing, pending_host_deliveries, host
<1> QED BY <1>4, <1>5, <1>6 DEF s

LEMMA EmitEffect ==
  ASSUME Typing, Truthful, NEW p \in Procs, emit_delivery(p), NEW h, h = Head(proc[p].replay)
  PROVE  /\ Typing'
         /\ proc[p].replay \in Seq(Nat) /\ proc[p].replay # <<>>
         /\ h \in 1..Len(rows) /\ h = proc[p].replay[1]
         /\ proc'[p].replay = Tail(proc[p].replay)
         /\ proc'[p].pc = IF proc[p].pc = "emit" THEN "idle" ELSE proc[p].pc
         /\ proc'[p].held = proc[p].held /\ proc'[p].epoch = proc[p].epoch
         /\ wire'[p] = Append(wire[p], Envelope(p, h)) /\ Envelope(p, h) \in Envelopes
         /\ \A q \in Procs : q # p => proc'[q] = proc[q] /\ wire'[q] = wire[q]
<1> DEFINE c == IF proc[p].pc = "emit" THEN "idle" ELSE proc[p].pc
           t == Tail(proc[p].replay)
           v == [proc[p] EXCEPT !.replay = t, !.pc = c]
<1>1. /\ proc[p] \in Sessions /\ proc[p].replay \in Seq(Nat) /\ proc[p].replay # <<>>
      /\ proc[p].pc \in Stages /\ proc[p].epoch \in Nat
  BY DEF Typing, Sessions, emit_delivery
<1>2. t \in Seq(Nat) /\ c \in Stages
  <2>1. t \in Seq(Nat)
    BY <1>1, SMTT(30)
  <2>2. c \in Stages
    BY <1>1 DEF Stages
  <2> QED BY <2>1, <2>2
<1>3. h \in 1..Len(rows) /\ h = proc[p].replay[1]
  <2>1. 1 \in 1..Len(proc[p].replay) /\ h = proc[p].replay[1]
    BY <1>1, SMTT(30)
  <2> QED BY <2>1 DEF Truthful
<1>4. proc' = [proc EXCEPT ![p] = v]
  BY DEF emit_delivery
<1> HIDE DEF c, t
<1>5. /\ v \in Sessions /\ v.pc = c /\ v.replay = t
      /\ v.held = proc[p].held /\ v.epoch = proc[p].epoch
  BY <1>1, <1>2 DEF Sessions
<1> HIDE DEF v
<1>6. /\ proc' \in [Procs -> Sessions] /\ proc'[p] = v
      /\ \A q \in Procs : q # p => proc'[q] = proc[q]
  BY <1>4, <1>5, SessionChange
<1>7. Envelope(p, h) \in Envelopes
  <2>1. h \in Nat /\ rows[h].id \in Nat
    BY <1>3, RowsAreTyped, SMTT(30)
  <2> QED BY <1>1, <2>1 DEF Envelope, Envelopes
<1>8. wire \in [Procs -> Seq(Envelopes)]
      /\ wire' = [wire EXCEPT ![p] = Append(@, Envelope(p, h))]
  BY DEF Typing, emit_delivery
<1>9. /\ wire' \in [Procs -> Seq(Envelopes)] /\ wire'[p] = Append(wire[p], Envelope(p, h))
      /\ \A q \in Procs : q # p => wire'[q] = wire[q]
  BY <1>7, <1>8, SMTT(30)
<1>10. Typing'
  BY <1>6, <1>9 DEF Typing, emit_delivery, host
<1> QED BY <1>1, <1>3, <1>5, <1>6, <1>7, <1>9, <1>10 DEF c, t

LEMMA EnqueueEffect ==
  ASSUME Typing, NEW p \in Procs, enqueue_host_delivery(p), NEW n, n = Len(rows) + 1
  PROVE  /\ Typing' /\ n \in Nat /\ Len(rows) \in Nat
         /\ Len(rows') = n /\ \A m \in 1..Len(rows) : rows'[m] = rows[m]
         /\ rows'[n].id = n /\ rows'[n].epoch = proc[p].epoch /\ rows'[n].created = clock
         /\ rows'[n].seq = next_sequence(proc[p].epoch) /\ ~rows'[n].acked
         /\ proc'[p].pc = "emit" /\ proc'[p].replay = <<n>>
         /\ proc'[p].held = proc[p].held /\ proc'[p].epoch = proc[p].epoch
         /\ \A q \in Procs : q # p => proc'[q] = proc[q]
         /\ \A m \in 1..Len(rows) : rows[m].epoch = proc[p].epoch => rows[m].seq < rows'[n].seq
<1> DEFINE s == next_sequence(proc[p].epoch)
           r == [id |-> n, epoch |-> proc[p].epoch, seq |-> s,
                 created |-> clock, acked |-> FALSE, by |-> p]
           v == [proc[p] EXCEPT !.pc = "emit", !.replay = <<n>>]
<1>1. /\ proc[p] \in Sessions /\ proc[p].epoch \in Nat /\ clock \in Nat
      /\ rows \in Seq(Rows) /\ Len(rows) \in Nat /\ n \in Nat
  BY RowsAreTyped, SMTT(30) DEF Typing, Sessions
<1>2. s \in Nat /\ \A m \in 1..Len(rows) : rows[m].epoch = proc[p].epoch => rows[m].seq < s
  <2>1. 1..Len(rows) \in SUBSET (1..Len(rows))
    OBVIOUS
  <2> HIDE DEF s
  <2> QED BY <1>1, <2>1, NextIsPast DEF s, next_sequence
<1>3. rows' = Append(rows, r) /\ proc' = [proc EXCEPT ![p] = v]
  BY DEF enqueue_host_delivery
<1> HIDE DEF s
<1>4. r \in Rows
  BY <1>1, <1>2 DEF Rows
<1>5. /\ r.id = n /\ r.epoch = proc[p].epoch /\ r.created = clock /\ r.seq = s
      /\ r.acked = FALSE
  OBVIOUS
<1> HIDE DEF r
<1>6. /\ rows' \in Seq(Rows) /\ Len(rows') = n /\ rows'[n] = r
      /\ \A m \in 1..Len(rows) : rows'[m] = rows[m]
  BY <1>1, <1>3, <1>4, SMTT(30)
<1>7. "emit" \in Stages /\ <<n>> \in Seq(Nat)
  BY <1>1, SMTT(30) DEF Stages
<1>8. /\ v \in Sessions /\ v.pc = "emit" /\ v.replay = <<n>>
      /\ v.held = proc[p].held /\ v.epoch = proc[p].epoch
  BY <1>1, <1>7 DEF Sessions
<1> HIDE DEF v
<1>9. /\ proc' \in [Procs -> Sessions] /\ proc'[p] = v
      /\ \A q \in Procs : q # p => proc'[q] = proc[q]
  BY <1>3, <1>8, SessionChange
<1>10. Typing'
  BY <1>6, <1>9 DEF Typing, enqueue_host_delivery, host
<1> QED BY <1>1, <1>2, <1>5, <1>6, <1>8, <1>9, <1>10 DEF s

LEMMA StopEffect ==
  ASSUME Typing, NEW p \in Procs, proc' = [proc EXCEPT ![p] = [@ EXCEPT !.pc = "dead"]]
  PROVE  /\ proc' \in [Procs -> Sessions]
         /\ proc'[p].pc = "dead" /\ proc'[p].replay = proc[p].replay
         /\ proc'[p].held = proc[p].held /\ proc'[p].epoch = proc[p].epoch
         /\ \A q \in Procs : q # p => proc'[q] = proc[q]
<1> DEFINE v == [proc[p] EXCEPT !.pc = "dead"]
<1>1. proc[p] \in Sessions /\ "dead" \in Stages
  BY DEF Typing, Stages
<1>2. /\ v \in Sessions /\ v.pc = "dead" /\ v.replay = proc[p].replay
      /\ v.held = proc[p].held /\ v.epoch = proc[p].epoch
  BY <1>1 DEF Sessions
<1>3. proc' = [proc EXCEPT ![p] = v]
  OBVIOUS
<1> HIDE DEF v
<1> QED BY <1>2, <1>3, SessionChange

LEMMA AcknowledgeEffect ==
  ASSUME Typing, NEW p \in Procs, acknowledge_host_delivery(p)
  PROVE  /\ Typing'
         /\ acks[p] \in Seq(Acknowledgements) /\ acks[p] # <<>>
         /\ Len(rows') = Len(rows)
         /\ \A n \in 1..Len(rows) :
              /\ rows'[n].id = rows[n].id /\ rows'[n].created = rows[n].created
              /\ rows'[n].epoch = rows[n].epoch /\ rows'[n].seq = rows[n].seq
              /\ rows[n].acked => rows'[n].acked
              /\ rows'[n].acked => rows[n].acked \/ rows[n].id = acks[p][1].id
         /\ acks'[p] = Tail(acks[p])
         /\ \A q \in Procs : q # p => acks'[q] = acks[q]
<1> DEFINE a == Head(acks[p])
           accepted == require_host_outbox_epoch(p) /\ a.epoch = proc[p].epoch
<1>1. /\ acks \in [Procs -> Seq(Acknowledgements)] /\ acks[p] \in Seq(Acknowledgements)
      /\ acks[p] # <<>> /\ a = acks[p][1]
  BY SMTT(30) DEF Typing, acknowledge_host_delivery
<1>2. rows' = [n \in 1..Len(rows) |->
                 IF accepted /\ rows[n].id = a.id /\ rows[n].epoch = a.epoch
                 THEN [rows[n] EXCEPT !.acked = TRUE] ELSE rows[n]]
  BY DEF acknowledge_host_delivery
<1> HIDE DEF a, accepted
<1>3. ASSUME NEW n \in 1..Len(rows)
      PROVE  /\ rows'[n] \in Rows
             /\ rows'[n].id = rows[n].id /\ rows'[n].created = rows[n].created
             /\ rows'[n].epoch = rows[n].epoch /\ rows'[n].seq = rows[n].seq
             /\ rows[n].acked => rows'[n].acked
             /\ rows'[n].acked => rows[n].acked \/ rows[n].id = a.id
  <2>1. rows[n] \in Rows
    BY RowsAreTyped
  <2>2. rows'[n] = rows[n] \/ (rows'[n] = [rows[n] EXCEPT !.acked = TRUE] /\ rows[n].id = a.id)
    BY <1>2
  <2>3. CASE rows'[n] = rows[n]
    BY <2>1, <2>3
  <2>4. CASE rows'[n] = [rows[n] EXCEPT !.acked = TRUE] /\ rows[n].id = a.id
    BY <2>1, <2>4 DEF Rows
  <2> QED BY <2>2, <2>3, <2>4
<1>4. rows' \in Seq(Rows) /\ Len(rows') = Len(rows)
  <2>1. rows' \in [1..Len(rows) -> Rows]
    BY <1>2, <1>3
  <2> QED BY <2>1, RowsAreTyped, FunctionIsSeq
<1>5. acks' = [acks EXCEPT ![p] = Tail(@)]
  BY DEF acknowledge_host_delivery
<1>6. /\ acks' \in [Procs -> Seq(Acknowledgements)] /\ acks'[p] = Tail(acks[p])
      /\ \A q \in Procs : q # p => acks'[q] = acks[q]
  <2>1. Tail(acks[p]) \in Seq(Acknowledgements)
    BY <1>1, SMTT(30)
  <2> QED BY <1>1, <1>5, <2>1
<1>7. Typing'
  BY <1>4, <1>6 DEF Typing, acknowledge_host_delivery, host
<1> QED BY <1>1, <1>3, <1>4, <1>6, <1>7

LEMMA ReceiveEffect ==
  ASSUME Typing, NEW p \in Procs, HostReceives(p), NEW m, m = wire[p][1]
  PROVE  /\ Typing'
         /\ wire[p] \in Seq(Envelopes) /\ wire[p] # <<>> /\ m \in Envelopes
         /\ recorded' = recorded \cup {m.id}
         /\ displayed' = IF m.id \in recorded THEN displayed ELSE Append(displayed, m.event)
         /\ wire'[p] = Tail(wire[p])
         /\ acks[p] \in Seq(Acknowledgements) /\ [id |-> m.id, epoch |-> m.epoch] \in Acknowledgements
         /\ acks'[p] = Append(acks[p], [id |-> m.id, epoch |-> m.epoch])
         /\ \A q \in Procs : q # p => wire'[q] = wire[q] /\ acks'[q] = acks[q]
<1> DEFINE k == [id |-> m.id, epoch |-> m.epoch]
<1>1. /\ wire \in [Procs -> Seq(Envelopes)] /\ wire[p] \in Seq(Envelopes) /\ wire[p] # <<>>
      /\ acks \in [Procs -> Seq(Acknowledgements)] /\ acks[p] \in Seq(Acknowledgements)
      /\ recorded \in SUBSET Nat /\ displayed \in Seq(Nat)
  BY DEF Typing, HostReceives
<1>2. m = Head(wire[p]) /\ m \in Envelopes
  BY <1>1, SMTT(30)
<1>3. m.id \in Nat /\ m.event \in Nat /\ m.epoch \in Nat /\ k \in Acknowledgements
  BY <1>2 DEF Envelopes, Acknowledgements
<1>4. /\ recorded' = recorded \cup {m.id}
      /\ displayed' = IF m.id \in recorded THEN displayed ELSE Append(displayed, m.event)
      /\ acks' = [acks EXCEPT ![p] = Append(@, k)]
      /\ wire' = [wire EXCEPT ![p] = Tail(@)]
  BY <1>2 DEF HostReceives
<1> HIDE DEF k
<1>5. /\ acks' \in [Procs -> Seq(Acknowledgements)] /\ acks'[p] = Append(acks[p], k)
      /\ \A q \in Procs : q # p => acks'[q] = acks[q]
  <2>1. Append(acks[p], k) \in Seq(Acknowledgements)
    BY <1>1, <1>3, SMTT(30)
  <2> QED BY <1>1, <1>4, <2>1
<1>6. /\ wire' \in [Procs -> Seq(Envelopes)] /\ wire'[p] = Tail(wire[p])
      /\ \A q \in Procs : q # p => wire'[q] = wire[q]
  <2>1. Tail(wire[p]) \in Seq(Envelopes)
    BY <1>1, SMTT(30)
  <2> QED BY <1>1, <1>4, <2>1
<1>7. recorded' \in SUBSET Nat /\ displayed' \in Seq(Nat)
  <2>1. recorded' \in SUBSET Nat
    BY <1>1, <1>3, <1>4
  <2>2. Append(displayed, m.event) \in Seq(Nat)
    BY <1>1, <1>3, SMTT(30)
  <2> QED BY <1>1, <1>4, <2>1, <2>2
<1>8. Typing'
  BY <1>5, <1>6, <1>7 DEF Typing, HostReceives
<1> QED BY <1>1, <1>2, <1>3, <1>4, <1>5, <1>6, <1>8 DEF k

-----------------------------------------------------------------------------
(* Delivery without its order.                                                *)

LEMMA OnceInit ==
  Init => Once
<1> SUFFICES ASSUME Init PROVE Once
  OBVIOUS
<1>1. Typing
  BY ProcsAssumption, SMTT(30) DEF Init, Typing, New, Stages, Sessions, Leases
<1>2. Keyed /\ AckedIsRecorded /\ DisplayedOnce
  BY SMTT(30) DEF Init, Keyed, AckedIsRecorded, DisplayedOnce
<1>3. Truthful
  BY SMTT(30) DEF Init, Truthful, New, Range
<1> QED BY <1>1, <1>2, <1>3 DEF Once

\* A step that leaves the table and the Host's inbox alone, and sends nothing
\* that was not sent or to be sent, keeps the facts about them.
LEMMA OnceKept ==
  ASSUME Once, Typing', UNCHANGED <<rows, recorded, displayed>>,
         \A p \in Procs :
           /\ \A i \in 1..Len(proc'[p].replay) : proc'[p].replay[i] \in 1..Len(rows)
           /\ \A i \in 1..Len(wire'[p]) : /\ wire'[p][i].event \in 1..Len(rows)
                                          /\ wire'[p][i].id = wire'[p][i].event
           /\ \A i \in 1..Len(acks'[p]) : acks'[p][i].id \in recorded
  PROVE  Once'
<1>1. Keyed' /\ AckedIsRecorded' /\ DisplayedOnce'
  BY DEF Once, Keyed, AckedIsRecorded, DisplayedOnce
<1>2. Truthful'
  BY DEF Once, Truthful
<1> QED BY <1>1, <1>2 DEF Once

\* So does one that renumbers or acknowledges rows the Host has recorded.
LEMMA OnceRewritten ==
  ASSUME Once, Typing', UNCHANGED <<recorded, displayed, wire>>, Len(rows') = Len(rows),
         \A n \in 1..Len(rows) : /\ rows'[n].id = rows[n].id
                                 /\ rows'[n].acked => rows[n].acked \/ n \in recorded,
         \A m, n \in 1..Len(rows) :
           rows'[m].epoch = rows'[n].epoch /\ rows'[m].seq = rows'[n].seq => m = n,
         \A p \in Procs :
           /\ proc'[p].replay = proc[p].replay
           /\ \A i \in 1..Len(acks'[p]) : acks'[p][i].id \in recorded
  PROVE  Once'
<1>1. Keyed'
  BY DEF Once, Keyed
<1>2. AckedIsRecorded' /\ DisplayedOnce'
  BY DEF Once, AckedIsRecorded, DisplayedOnce, Truthful
<1>3. Truthful'
  BY DEF Once, Truthful
<1> QED BY <1>1, <1>2, <1>3 DEF Once

LEMMA OnceLoadActive ==
  ASSUME Once, NEW p \in Procs, load_active(p)
  PROVE  Once'
<1>1. Typing' /\ \A q \in Procs : proc'[q].replay = proc[q].replay
  BY LoadActiveEffect DEF Once
<1>2. UNCHANGED <<rows, wire, acks, recorded, displayed>>
  BY DEF load_active, host
<1> QED BY <1>1, <1>2, OnceKept DEF Once, Truthful

LEMMA OncePrepare ==
  ASSUME Once, NEW p \in Procs, prepare_host_outbox(p)
  PROVE  Once'
<1>1. Typing' /\ \A q \in Procs : proc'[q].replay = proc[q].replay
  BY PrepareEffect DEF Once
<1>2. UNCHANGED <<wire, acks, recorded, displayed>>
  BY DEF prepare_host_outbox, host
<1>3. lease.epoch \in Nat /\ rows' = adopt_pending_deliveries(lease.epoch)
  BY DEF Once, Typing, Leases, prepare_host_outbox
<1>4. /\ Len(rows') = Len(rows)
      /\ \A n \in 1..Len(rows) : rows'[n].id = rows[n].id /\ rows'[n].acked = rows[n].acked
      /\ \A m, n \in 1..Len(rows) :
           rows'[m].epoch = rows'[n].epoch /\ rows'[m].seq = rows'[n].seq => m = n
  <2>1. Typing /\ Keyed
    BY DEF Once
  <2>2. Len(rows') = Len(rows)
    BY <1>3, <2>1, AdoptionKeeps
  <2>3. \A n \in 1..Len(rows) : rows'[n].id = rows[n].id /\ rows'[n].acked = rows[n].acked
    BY <1>3, <2>1, AdoptionKeeps, SMTT(30)
  <2>4. \A m, n \in 1..Len(rows) :
          rows'[m].epoch = rows'[n].epoch /\ rows'[m].seq = rows'[n].seq => m = n
    BY <1>3, <2>1, AdoptionKeeps, SMTT(30)
  <2> QED BY <2>2, <2>3, <2>4
<1> QED BY <1>1, <1>2, <1>4, OnceRewritten DEF Once, Truthful

LEMMA OnceReplay ==
  ASSUME Once, NEW p \in Procs, pending_host_deliveries(p)
  PROVE  Once'
<1> DEFINE S == {n \in Pending : rows[n].epoch = proc[p].epoch}
<1>1. S \in SUBSET (1..Len(rows))
  BY DEF Pending
<1> HIDE DEF S
<1>2. /\ Typing' /\ proc'[p].replay = query_pending_deliveries(S)
      /\ \A q \in Procs : q # p => proc'[q] = proc[q]
  BY ReplayEffect DEF Once, S
<1>3. \A i \in 1..Len(proc'[p].replay) : proc'[p].replay[i] \in 1..Len(rows)
  <2>1. PICK s : s = query_pending_deliveries(S)
    OBVIOUS
  <2>2. Typing /\ Keyed
    BY DEF Once
  <2>3. s \in [1..Cardinality(S) -> S] /\ Len(s) = Cardinality(S)
    BY <1>1, <2>1, <2>2, QueryIsSorted
  <2>4. \A i \in 1..Len(s) : s[i] \in 1..Len(rows)
    BY <1>1, <2>3
  <2> QED BY <1>2, <2>1, <2>4
<1>4. UNCHANGED <<rows, wire, acks, recorded, displayed>>
  BY DEF pending_host_deliveries, host
<1>5. \A q \in Procs :
        \A i \in 1..Len(proc'[q].replay) : proc'[q].replay[i] \in 1..Len(rows)
  BY <1>2, <1>3 DEF Once, Truthful
<1> QED BY <1>2, <1>4, <1>5, OnceKept DEF Once, Truthful

LEMMA OnceEmit ==
  ASSUME Once, NEW p \in Procs, emit_delivery(p)
  PROVE  Once'
<1> DEFINE h == Head(proc[p].replay)
           r == proc[p].replay
<1>1. /\ Typing' /\ r \in Seq(Nat) /\ r # <<>> /\ h \in 1..Len(rows)
      /\ proc'[p].replay = Tail(r)
      /\ wire'[p] = Append(wire[p], Envelope(p, h)) /\ Envelope(p, h) \in Envelopes
      /\ \A q \in Procs : q # p => proc'[q] = proc[q] /\ wire'[q] = wire[q]
  BY EmitEffect DEF Once
<1>2. wire[p] \in Seq(Envelopes)
  BY DEF Once, Typing
<1>3. Envelope(p, h).event = h /\ Envelope(p, h).id = h
  BY <1>1 DEF Envelope, Once, Keyed
<1>4. \A i \in 1..Len(Tail(r)) : Tail(r)[i] \in 1..Len(rows)
  <2>1. \A i \in 1..Len(Tail(r)) : Tail(r)[i] = r[i + 1] /\ i + 1 \in 1..Len(r)
    BY <1>1, SMTT(30)
  <2>2. \A i \in 1..Len(r) : r[i] \in 1..Len(rows)
    BY DEF Once, Truthful
  <2> QED BY <2>1, <2>2
<1>5. \A i \in 1..Len(wire'[p]) : /\ wire'[p][i].event \in 1..Len(rows)
                                  /\ wire'[p][i].id = wire'[p][i].event
  <2>1. \A i \in 1..Len(wire'[p]) :
          \/ i \in 1..Len(wire[p]) /\ wire'[p][i] = wire[p][i]
          \/ wire'[p][i] = Envelope(p, h)
    BY <1>1, <1>2, SMTT(30)
  <2>2. \A i \in 1..Len(wire[p]) : /\ wire[p][i].event \in 1..Len(rows)
                                   /\ wire[p][i].id = wire[p][i].event
    BY DEF Once, Truthful
  <2> QED BY <1>1, <1>3, <2>1, <2>2
<1>6. UNCHANGED <<rows, acks, recorded, displayed>>
  BY DEF emit_delivery, host
<1>7. \A q \in Procs :
        /\ \A i \in 1..Len(proc'[q].replay) : proc'[q].replay[i] \in 1..Len(rows)
        /\ \A i \in 1..Len(wire'[q]) : /\ wire'[q][i].event \in 1..Len(rows)
                                       /\ wire'[q][i].id = wire'[q][i].event
        /\ \A i \in 1..Len(acks'[q]) : acks'[q][i].id \in recorded
  <2> TAKE q \in Procs
  <2>1. \A i \in 1..Len(acks'[q]) : acks'[q][i].id \in recorded
    BY <1>6 DEF Once, Truthful
  <2>2. CASE q = p
    BY <1>1, <1>4, <1>5, <2>1, <2>2
  <2>3. CASE q # p
    BY <1>1, <2>1, <2>3, SMTT(30) DEF Once, Truthful
  <2> QED BY <2>2, <2>3
<1> QED BY <1>1, <1>6, <1>7, OnceKept

LEMMA OnceEnqueue ==
  ASSUME Once, NEW p \in Procs, enqueue_host_delivery(p)
  PROVE  Once'
<1> DEFINE n == Len(rows) + 1
<1>1. /\ Typing' /\ n \in Nat /\ Len(rows) \in Nat /\ Len(rows') = n
      /\ \A m \in 1..Len(rows) : rows'[m] = rows[m]
      /\ rows'[n].id = n /\ rows'[n].epoch = proc[p].epoch /\ ~rows'[n].acked
      /\ proc'[p].replay = <<n>> /\ \A q \in Procs : q # p => proc'[q] = proc[q]
      /\ \A m \in 1..Len(rows) : rows[m].epoch = proc[p].epoch => rows[m].seq < rows'[n].seq
  BY EnqueueEffect DEF Once
<1>2. UNCHANGED <<wire, acks, recorded, displayed>>
  BY DEF enqueue_host_delivery, host
<1>3. \A m \in 1..Len(rows') : m \in 1..Len(rows) \/ m = n
  BY <1>1, SMTT(30)
<1>4. 1..Len(rows) \subseteq 1..Len(rows') /\ n \in 1..Len(rows') /\ n \notin 1..Len(rows)
  BY <1>1, SMTT(30)
<1> HIDE DEF n
<1>5. Keyed'
  <2>1. \A m \in 1..Len(rows') : rows'[m].id = m
    BY <1>1, <1>3, SMTT(30) DEF Once, Keyed
  <2>2. ASSUME NEW m \in 1..Len(rows), rows'[m].epoch = rows'[n].epoch
        PROVE  rows'[m].seq # rows'[n].seq
    <3>1. rows[m].seq < rows'[n].seq /\ rows'[m].seq = rows[m].seq /\ rows[m].seq \in Nat
      BY <1>1, <2>2, RowsAreTyped DEF Once
    <3> QED BY <3>1, SMTT(30)
  <2>3. \A k, m \in 1..Len(rows') :
          rows'[k].epoch = rows'[m].epoch /\ rows'[k].seq = rows'[m].seq => k = m
    BY <1>1, <1>3, <2>2, SMTT(30) DEF Once, Keyed
  <2> QED BY <2>1, <2>3 DEF Keyed
<1>6. AckedIsRecorded' /\ DisplayedOnce'
  BY <1>1, <1>2, <1>3 DEF Once, AckedIsRecorded, DisplayedOnce
<1>7. \A q \in Procs :
        /\ \A i \in 1..Len(proc'[q].replay) : proc'[q].replay[i] \in 1..Len(rows')
        /\ \A i \in 1..Len(wire'[q]) : /\ wire'[q][i].event \in 1..Len(rows')
                                       /\ wire'[q][i].id = wire'[q][i].event
        /\ \A i \in 1..Len(acks'[q]) : acks'[q][i].id \in recorded'
  <2> TAKE q \in Procs
  <2>1. \A i \in 1..Len(proc'[q].replay) : proc'[q].replay[i] \in 1..Len(rows')
    <3>1. CASE q = p
      <4>1. Len(<<n>>) = 1 /\ <<n>>[1] = n
        OBVIOUS
      <4> QED BY <1>1, <1>4, <3>1, <4>1, SMTT(30)
    <3>2. CASE q # p
      BY <1>1, <1>4, <3>2 DEF Once, Truthful
    <3> QED BY <3>1, <3>2
  <2>2. \A i \in 1..Len(wire'[q]) : /\ wire'[q][i].event \in 1..Len(rows')
                                    /\ wire'[q][i].id = wire'[q][i].event
    BY <1>2, <1>4 DEF Once, Truthful
  <2>3. \A i \in 1..Len(acks'[q]) : acks'[q][i].id \in recorded'
    BY <1>2 DEF Once, Truthful
  <2> QED BY <2>1, <2>2, <2>3
<1>8. Truthful'
  BY <1>2, <1>4, <1>7 DEF Once, Truthful
<1> QED BY <1>1, <1>5, <1>6, <1>8 DEF Once

LEMMA OnceAcknowledge ==
  ASSUME Once, NEW p \in Procs, acknowledge_host_delivery(p)
  PROVE  Once'
<1>1. /\ Typing' /\ acks[p] \in Seq(Acknowledgements) /\ acks[p] # <<>>
      /\ Len(rows') = Len(rows)
      /\ \A n \in 1..Len(rows) :
           /\ rows'[n].id = rows[n].id
           /\ rows'[n].epoch = rows[n].epoch /\ rows'[n].seq = rows[n].seq
           /\ rows'[n].acked => rows[n].acked \/ rows[n].id = acks[p][1].id
      /\ acks'[p] = Tail(acks[p])
      /\ \A q \in Procs : q # p => acks'[q] = acks[q]
  BY AcknowledgeEffect, SMTT(30) DEF Once
<1>2. UNCHANGED <<proc, wire, recorded, displayed>>
  BY DEF acknowledge_host_delivery, host
<1>3. \A i \in 1..Len(acks[p]) : acks[p][i].id \in recorded
  BY DEF Once, Truthful
<1>4. acks[p][1].id \in recorded
  BY <1>1, <1>3, SMTT(30)
<1>5. \A i \in 1..Len(acks'[p]) : acks'[p][i].id \in recorded
  <2>1. \A i \in 1..Len(acks'[p]) : acks'[p][i] = acks[p][i + 1] /\ i + 1 \in 1..Len(acks[p])
    BY <1>1, SMTT(30)
  <2> QED BY <1>3, <2>1
<1>6. \A q \in Procs : /\ proc'[q].replay = proc[q].replay
                       /\ \A i \in 1..Len(acks'[q]) : acks'[q][i].id \in recorded
  BY <1>1, <1>2, <1>5 DEF Once, Truthful
<1>7. \A n \in 1..Len(rows) : /\ rows'[n].id = rows[n].id
                              /\ rows'[n].acked => rows[n].acked \/ n \in recorded
  BY <1>1, <1>4, SMTT(30) DEF Once, Keyed
<1>8. \A m, n \in 1..Len(rows) :
        rows'[m].epoch = rows'[n].epoch /\ rows'[m].seq = rows'[n].seq => m = n
  BY <1>1 DEF Once, Keyed
<1> QED BY <1>1, <1>2, <1>6, <1>7, <1>8, OnceRewritten

LEMMA OnceReceives ==
  ASSUME Once, NEW p \in Procs, HostReceives(p)
  PROVE  Once'
<1> DEFINE m == wire[p][1]
           k == [id |-> m.id, epoch |-> m.epoch]
<1>1. /\ Typing' /\ wire[p] \in Seq(Envelopes) /\ wire[p] # <<>> /\ m \in Envelopes
      /\ recorded' = recorded \cup {m.id}
      /\ displayed' = IF m.id \in recorded THEN displayed ELSE Append(displayed, m.event)
      /\ wire'[p] = Tail(wire[p])
      /\ acks[p] \in Seq(Acknowledgements) /\ k \in Acknowledgements
      /\ acks'[p] = Append(acks[p], k)
      /\ \A q \in Procs : q # p => wire'[q] = wire[q] /\ acks'[q] = acks[q]
  BY ReceiveEffect DEF Once
<1>2. UNCHANGED <<rows, proc>>
  BY DEF HostReceives
<1>3. 1 \in 1..Len(wire[p])
  BY <1>1, SMTT(30)
<1>4. m.event \in 1..Len(rows) /\ m.id = m.event /\ k.id = m.id
  BY <1>3 DEF Once, Truthful
<1> HIDE DEF m, k
<1>5. displayed \in Seq(Nat) /\ recorded = Range(displayed) /\ m.event \in Nat
  BY <1>4, SMTT(30) DEF Once, Typing, Truthful
<1>6. /\ recorded' = Range(displayed') /\ DisplayedOnce'
      /\ \A n \in Range(displayed) : n \in Range(displayed')
  <2>1. CASE m.id \in recorded
    BY <1>1, <1>5, <2>1 DEF Once, DisplayedOnce
  <2>2. CASE m.id \notin recorded
    <3>1. displayed' = Append(displayed, m.event)
      BY <1>1, <2>2
    <3>2. /\ Len(displayed') = Len(displayed) + 1 /\ displayed'[Len(displayed) + 1] = m.event
          /\ \A i \in 1..Len(displayed) : displayed'[i] = displayed[i]
          /\ DOMAIN displayed' = 1..Len(displayed') /\ DOMAIN displayed = 1..Len(displayed)
          /\ Len(displayed) \in Nat
      BY <1>5, <3>1, SMTT(30)
    <3>3. \A i \in 1..Len(displayed') : i \in 1..Len(displayed) \/ i = Len(displayed) + 1
      BY <3>2, SMTT(30)
    <3>4. Len(displayed) + 1 \in 1..Len(displayed') /\ 1..Len(displayed) \subseteq 1..Len(displayed')
      BY <3>2, SMTT(30)
    <3>5. Range(displayed') = Range(displayed) \cup {m.event}
      BY <3>2, <3>3, <3>4 DEF Range
    <3>6. \A i \in 1..Len(displayed) : displayed[i] # m.event
      BY <1>4, <1>5, <2>2, <3>2 DEF Range
    <3>7. DisplayedOnce'
      BY <3>2, <3>3, <3>6 DEF Once, DisplayedOnce
    <3> QED BY <1>1, <1>4, <1>5, <3>5, <3>7
  <2> QED BY <2>1, <2>2
<1>7. AckedIsRecorded'
  BY <1>2, <1>6 DEF Once, AckedIsRecorded
<1>8. Keyed'
  BY <1>2 DEF Once, Keyed
<1>9. \A i \in 1..Len(wire'[p]) : wire'[p][i] = wire[p][i + 1] /\ i + 1 \in 1..Len(wire[p])
  BY <1>1, SMTT(30)
<1>10. \A i \in 1..Len(acks'[p]) : \/ i \in 1..Len(acks[p]) /\ acks'[p][i] = acks[p][i]
                                   \/ acks'[p][i] = k
  BY <1>1, SMTT(30)
<1>11. ASSUME NEW q \in Procs
       PROVE  /\ \A i \in 1..Len(wire'[q]) : /\ wire'[q][i].event \in 1..Len(rows)
                                             /\ wire'[q][i].id = wire'[q][i].event
              /\ \A i \in 1..Len(acks'[q]) : acks'[q][i].id \in recorded'
  <2>1. CASE q = p
    <3>1. \A i \in 1..Len(wire[p]) : /\ wire[p][i].event \in 1..Len(rows)
                                     /\ wire[p][i].id = wire[p][i].event
      BY DEF Once, Truthful
    <3>2. \A i \in 1..Len(acks[p]) : acks[p][i].id \in recorded
      BY DEF Once, Truthful
    <3> QED BY <1>1, <1>4, <1>9, <1>10, <2>1, <3>1, <3>2
  <2>2. CASE q # p
    BY <1>1, <2>2 DEF Once, Truthful
  <2> QED BY <2>1, <2>2
<1>12. Truthful'
  BY <1>1, <1>2, <1>4, <1>6, <1>11 DEF Once, Truthful
<1> QED BY <1>1, <1>6, <1>7, <1>8, <1>12 DEF Once

\* remember_failure, release and a crash: the process is dead, and its lease and
\* its pipes may be gone.
LEMMA OnceStops ==
  ASSUME Once, NEW p \in Procs,
         proc' = [proc EXCEPT ![p] = [@ EXCEPT !.pc = "dead"]],
         lease' \in Leases, lease'.live => lease'.owner \in Procs,
         wire' = wire \/ wire' = [wire EXCEPT ![p] = <<>>],
         acks' = acks \/ acks' = [acks EXCEPT ![p] = <<>>],
         clock' \in Nat, faults' \in Nat,
         UNCHANGED <<rows, recorded, displayed>>
  PROVE  Once'
<1>1. /\ proc' \in [Procs -> Sessions]
      /\ \A q \in Procs : proc'[q].replay = proc[q].replay
  BY StopEffect DEF Once
<1>2. /\ wire \in [Procs -> Seq(Envelopes)] /\ acks \in [Procs -> Seq(Acknowledgements)]
  BY DEF Once, Typing
<1>3. /\ wire' \in [Procs -> Seq(Envelopes)] /\ acks' \in [Procs -> Seq(Acknowledgements)]
      /\ \A q \in Procs : wire'[q] \in {wire[q], <<>>} /\ acks'[q] \in {acks[q], <<>>}
  <2>1. <<>> \in Seq(Envelopes) /\ <<>> \in Seq(Acknowledgements)
    BY SMTT(30)
  <2>2. wire' \in [Procs -> Seq(Envelopes)] /\ \A q \in Procs : wire'[q] \in {wire[q], <<>>}
    BY <1>2, <2>1
  <2>3. acks' \in [Procs -> Seq(Acknowledgements)]
        /\ \A q \in Procs : acks'[q] \in {acks[q], <<>>}
    BY <1>2, <2>1
  <2> QED BY <2>2, <2>3
<1>4. Typing'
  BY <1>1, <1>3 DEF Once, Typing
<1>5. ASSUME NEW q \in Procs
      PROVE  /\ \A i \in 1..Len(wire'[q]) : /\ wire'[q][i].event \in 1..Len(rows)
                                            /\ wire'[q][i].id = wire'[q][i].event
             /\ \A i \in 1..Len(acks'[q]) : acks'[q][i].id \in recorded
  <2>1. \A i \in 1..Len(wire[q]) : /\ wire[q][i].event \in 1..Len(rows)
                                   /\ wire[q][i].id = wire[q][i].event
    BY DEF Once, Truthful
  <2>2. \A i \in 1..Len(acks[q]) : acks[q][i].id \in recorded
    BY DEF Once, Truthful
  <2>3. 1..Len(<<>>) = {}
    BY SMTT(30)
  <2> QED BY <1>3, <2>1, <2>2, <2>3
<1>6. \A q \in Procs :
        \A i \in 1..Len(proc'[q].replay) : proc'[q].replay[i] \in 1..Len(rows)
  BY <1>1 DEF Once, Truthful
<1> QED BY <1>4, <1>5, <1>6, OnceKept

\* The clock and the expiry of a lease touch neither the table nor a pipe.
LEMMA OnceElsewhere ==
  ASSUME Once, lease' \in Leases, lease'.live => lease'.owner \in Procs,
         clock' \in Nat, faults' \in Nat,
         UNCHANGED <<rows, proc, wire, acks, recorded, displayed>>
  PROVE  Once'
<1>1. Typing'
  BY DEF Once, Typing
<1> QED BY <1>1, OnceKept DEF Once, Truthful

\* Each step keeps Once, in either scenario.
LEMMA OnceNext ==
  ASSUME Once, [Next]_vars
  PROVE  Once'
<1>1. /\ lease \in Leases /\ clock \in Nat /\ faults \in Nat
      /\ lease.live => lease.owner \in Procs
  BY DEF Once, Typing
<1>2. [lease EXCEPT !.live = FALSE] \in Leases /\ ~[lease EXCEPT !.live = FALSE].live
  BY <1>1 DEF Leases
<1>3. ASSUME NEW p \in Procs, ProcStep(p)
      PROVE  Once'
  <2>1. CASE load_active(p)
    BY <2>1, OnceLoadActive
  <2>2. CASE prepare_host_outbox(p)
    BY <2>2, OncePrepare
  <2>3. CASE pending_host_deliveries(p)
    BY <2>3, OnceReplay
  <2>4. CASE emit_delivery(p)
    BY <2>4, OnceEmit
  <2>5. CASE remember_failure(p)
    BY <1>1, <2>5, OnceStops DEF remember_failure, host
  <2> QED BY <1>3, <2>1, <2>2, <2>3, <2>4, <2>5 DEF ProcStep
<1>4. ASSUME NEW p \in Procs, release(p)
      PROVE  Once'
  <2>1. [lease EXCEPT !.owner = NoProc, !.live = FALSE] \in Leases
        /\ ~[lease EXCEPT !.owner = NoProc, !.live = FALSE].live
    BY <1>1 DEF Leases
  <2> QED BY <1>1, <1>4, <2>1, OnceStops DEF release, host
<1>5. ASSUME NEW p \in Procs, Crash(p)
      PROVE  Once'
  <2>1. faults' \in Nat
    BY <1>1, <1>5, SMTT(30) DEF Crash
  <2> QED BY <1>1, <1>5, <2>1, OnceStops DEF Crash, host
<1>6. CASE ExpireDead
  BY <1>1, <1>2, <1>6, OnceElsewhere DEF ExpireDead, host
<1>7. CASE ExpireSuspended
  <2>1. faults' \in Nat
    BY <1>1, <1>7, SMTT(30) DEF ExpireSuspended
  <2> QED BY <1>1, <1>2, <1>7, <2>1, OnceElsewhere DEF ExpireSuspended, host
<1>8. CASE Tick
  BY <1>1, <1>8, OnceElsewhere DEF Tick, host
<1>9. CASE StepClockBack
  BY <1>1, <1>9, OnceElsewhere DEF StepClockBack, host
<1>10. CASE UNCHANGED vars
  BY <1>1, <1>10, OnceElsewhere DEF vars
<1> QED BY <1>3, <1>4, <1>5, <1>6, <1>7, <1>8, <1>9, <1>10,
           OnceEnqueue, OnceAcknowledge, OnceReceives DEF Next

-----------------------------------------------------------------------------
(* The theorems.                                                              *)

\* In every behaviour, whatever the clock does: no event is acknowledged that
\* the Host has not displayed and none is displayed twice.
THEOREM DeliveryOnce ==
  Spec => []Once
<1>1. Init => Once
  BY OnceInit
<1>2. Once /\ [Next]_vars => Once'
  BY OnceNext
<1> QED BY <1>1, <1>2, PTL DEF Spec

\* The table's key and the delivery ids survive every adoption: two rows never
\* have the same epoch and sequence number, and a row keeps the id it was
\* committed with, whoever adopts it and however the clock runs.
THEOREM KeyIsUnique ==
  Spec => []Keyed
<1>1. Once => Keyed
  BY DEF Once
<1> QED BY <1>1, DeliveryOnce, PTL

-----------------------------------------------------------------------------
(* What order adds to the inductive invariant.                                *)

\* An owner works under the epoch it was given, and no two were given the same.
Working == {"opened", "replay", "emit", "idle"}
OwnEpoch ==
  /\ \A p \in Procs :
       /\ proc[p].held <= lease.epoch /\ proc[p].epoch \in {0, proc[p].held}
       /\ proc[p].pc = "new" => proc[p].held = 0
       /\ proc[p].pc = "leased" => /\ lease.live /\ lease.owner = p
                                   /\ proc[p].held = lease.epoch /\ proc[p].epoch = 0
       /\ proc[p].pc \in {"leased"} \cup Working => proc[p].held # 0
  /\ \A p, q \in Procs : proc[p].held = proc[q].held /\ proc[p].held # 0 => p = q

\* The key by which pending rows are read is in the order of commitment, and
\* once an owner has opened the outbox all of them are of its epoch.
ReplayOrder ==
  /\ \A n \in 1..Len(rows) : rows[n].created <= clock /\ rows[n].epoch <= lease.epoch
  /\ \A m, n \in 1..Len(rows) : m < n => rows[m].created <= rows[n].created
  /\ \A m, n \in Pending : m < n =>
       /\ rows[m].epoch <= rows[n].epoch
       /\ rows[m].epoch = rows[n].epoch => rows[m].seq < rows[n].seq
  /\ \A p \in Procs : proc[p].epoch = lease.epoch /\ proc[p].epoch # 0 =>
       \A n \in Pending : rows[n].epoch = lease.epoch

\* What a process has written and, unless it is dead, is about to write.
Written(p) == {wire[p][i].event : i \in 1..Len(wire[p])}
Unwritten(p) == {n \in Range(proc[p].replay) : proc[p].pc # "dead"}
Outgoing(p) == Written(p) \cup Unwritten(p)

Starting == {"new", "leased", "opened"}
Sending == {"replay", "emit", "idle"}

\* A process writes in order and leaves out nothing that was not displayed; the
\* one that may commit the next event has all of it in hand.
Line(p) ==
  /\ \A i, j \in 1..Len(wire[p]) : i < j => wire[p][i].event < wire[p][j].event
  /\ \A i, j \in 1..Len(proc[p].replay) : i < j => proc[p].replay[i] < proc[p].replay[j]
  /\ \A i \in 1..Len(wire[p]), j \in 1..Len(proc[p].replay) :
       wire[p][i].event < proc[p].replay[j]
  /\ proc[p].pc \in Starting => wire[p] = <<>> /\ proc[p].replay = <<>>
  /\ \A n \in Outgoing(p), m \in 1..Len(rows) :
       m < n /\ m \notin recorded => m \in Outgoing(p)
  /\ proc[p].pc \in Sending /\ proc[p].epoch = lease.epoch =>
       \A m \in 1..Len(rows) : m \notin recorded => m \in Outgoing(p)
Lines == \A p \in Procs : Line(p)

\* What was displayed is everything up to some event.
NoneSkipped == \A n \in recorded : \A m \in 1..n : m \in recorded

InOrder == OwnEpoch /\ ReplayOrder /\ Lines /\ NoneSkipped /\ DisplayOrder

IInv == Once /\ (~ClockSteps /\ ~SlowStart => InOrder)

-----------------------------------------------------------------------------
(* The order of delivery.                                                     *)

LEMMA EpochsAreTyped ==
  ASSUME Typing
  PROVE  /\ lease \in Leases /\ lease.epoch \in Nat
         /\ \A p \in Procs : /\ proc[p].held \in Nat /\ proc[p].epoch \in Nat
                             /\ proc[p].pc \in Stages /\ proc[p].replay \in Seq(Nat)
                             /\ wire[p] \in Seq(Envelopes)
BY DEF Typing, Leases, Sessions

LEMMA OwnEpochInit ==
  Init => OwnEpoch
BY SMTT(30) DEF Init, OwnEpoch, New, Working

\* A step that moves no process, or only stops it, under a lease of the same
\* epoch that an owner about to open the outbox keeps.
LEMMA OwnEpochKept ==
  ASSUME OwnEpoch, lease'.epoch = lease.epoch,
         \A q \in Procs : /\ proc'[q].held = proc[q].held /\ proc'[q].epoch = proc[q].epoch
                          /\ \/ proc'[q].pc = proc[q].pc
                             \/ proc'[q].pc = "dead"
                             \/ proc[q].pc \in Working /\ proc'[q].pc \in Working
                          /\ proc'[q].pc = "leased" => lease' = lease
  PROVE  OwnEpoch'
BY SMTT(30) DEF OwnEpoch, Working

LEMMA OwnEpochNext ==
  ASSUME Once, OwnEpoch, ~SlowStart, [Next]_vars
  PROVE  OwnEpoch'
<1> USE EpochsAreTyped DEF Once
<1>1. ASSUME NEW p \in Procs, load_active(p)
      PROVE  OwnEpoch'
  <2>1. /\ proc'[p].pc = "leased" /\ proc'[p].held = lease.epoch + 1
        /\ proc'[p].epoch = proc[p].epoch
        /\ \A q \in Procs : q # p => proc'[q] = proc[q]
    BY <1>1, LoadActiveEffect
  <2>2. /\ proc[p].pc = "new" /\ ~lease.live
        /\ lease'.owner = p /\ lease'.epoch = lease.epoch + 1 /\ lease'.live
    BY <1>1 DEF load_active
  <2>3. proc[p].epoch = 0
    BY <2>2 DEF OwnEpoch
  <2>4. ASSUME NEW q \in Procs
        PROVE  /\ proc'[q].held <= lease'.epoch /\ proc'[q].epoch \in {0, proc'[q].held}
               /\ proc'[q].pc = "new" => proc'[q].held = 0
               /\ proc'[q].pc = "leased" =>
                    /\ lease'.live /\ lease'.owner = q
                    /\ proc'[q].held = lease'.epoch /\ proc'[q].epoch = 0
               /\ proc'[q].pc \in {"leased"} \cup Working => proc'[q].held # 0
    <3>1. CASE q = p
      BY <2>1, <2>2, <2>3, <3>1, SMTT(30) DEF Working
    <3>2. CASE q # p
      BY <2>1, <2>2, <3>2, SMTT(30) DEF OwnEpoch
    <3> QED BY <3>1, <3>2
  <2>5. \A q, r \in Procs : proc'[q].held = proc'[r].held /\ proc'[q].held # 0 => q = r
    <3>1. \A q \in Procs : q # p => proc'[q].held # proc'[p].held
      BY <2>1, SMTT(30) DEF OwnEpoch
    <3> QED BY <2>1, <3>1, SMTT(30) DEF OwnEpoch
  <2> QED BY <2>4, <2>5 DEF OwnEpoch
<1>2. ASSUME NEW p \in Procs, prepare_host_outbox(p)
      PROVE  OwnEpoch'
  <2>1. /\ proc'[p].pc = "opened" /\ proc'[p].epoch = lease.epoch
        /\ proc'[p].held = proc[p].held
        /\ \A q \in Procs : q # p => proc'[q] = proc[q]
    BY <1>2, PrepareEffect
  <2>2. lease' = lease /\ proc[p].pc = "leased"
    BY <1>2 DEF prepare_host_outbox
  <2>3. proc[p].held = lease.epoch /\ proc[p].held # 0
    BY <2>2 DEF OwnEpoch
  <2>4. ASSUME NEW q \in Procs
        PROVE  /\ proc'[q].held <= lease'.epoch /\ proc'[q].epoch \in {0, proc'[q].held}
               /\ proc'[q].pc = "new" => proc'[q].held = 0
               /\ proc'[q].pc = "leased" =>
                    /\ lease'.live /\ lease'.owner = q
                    /\ proc'[q].held = lease'.epoch /\ proc'[q].epoch = 0
               /\ proc'[q].pc \in {"leased"} \cup Working => proc'[q].held # 0
    <3>1. CASE q = p
      BY <2>1, <2>2, <2>3, <3>1, SMTT(30) DEF Working
    <3>2. CASE q # p
      BY <2>1, <2>2, <3>2, SMTT(30) DEF OwnEpoch
    <3> QED BY <3>1, <3>2
  <2>5. \A q, r \in Procs : proc'[q].held = proc'[r].held /\ proc'[q].held # 0 => q = r
    <3>1. \A q \in Procs : proc'[q].held = proc[q].held
      BY <2>1
    <3> QED BY <3>1, SMTT(30) DEF OwnEpoch
  <2> QED BY <2>4, <2>5 DEF OwnEpoch
<1>3. ASSUME NEW p \in Procs,
             proc' = [proc EXCEPT ![p] = [@ EXCEPT !.pc = "dead"]],
             lease' = lease \/ (proc[p].pc = "idle" /\ release(p))
      PROVE  OwnEpoch'
  <2>1. /\ proc'[p].pc = "dead"
        /\ proc'[p].held = proc[p].held /\ proc'[p].epoch = proc[p].epoch
        /\ \A q \in Procs : q # p => proc'[q] = proc[q]
    BY <1>3, StopEffect
  <2>2. lease'.epoch = lease.epoch
    BY <1>3 DEF release, Leases
  <2>3. lease' # lease => lease.owner = p
    BY <1>3 DEF release
  <2>4. \A q \in Procs : proc'[q].pc = "leased" => lease' = lease
    BY <2>1, <2>3, SMTT(30) DEF OwnEpoch
  <2> QED BY <2>1, <2>2, <2>4, OwnEpochKept
<1>4. ASSUME NEW p \in Procs,
             \/ pending_host_deliveries(p) \/ emit_delivery(p)
             \/ enqueue_host_delivery(p)
      PROVE  OwnEpoch'
  <2>1. lease' = lease /\ proc[p].pc \in Working
    BY <1>4 DEF pending_host_deliveries, emit_delivery, enqueue_host_delivery, Working
  <2>2. /\ proc'[p].held = proc[p].held /\ proc'[p].epoch = proc[p].epoch
        /\ proc'[p].pc \in Working
        /\ \A q \in Procs : q # p => proc'[q] = proc[q]
    <3>1. CASE pending_host_deliveries(p)
      BY <3>1, ReplayEffect DEF Working
    <3>2. CASE emit_delivery(p)
      BY <3>2, <2>1, EmitEffect DEF Working
    <3>3. CASE enqueue_host_delivery(p)
      BY <3>3, EnqueueEffect DEF Working
    <3> QED BY <1>4, <3>1, <3>2, <3>3
  <2> QED BY <2>1, <2>2, OwnEpochKept
<1>5. CASE ExpireDead \/ ExpireSuspended
  <2>1. /\ proc' = proc /\ lease' = [lease EXCEPT !.live = FALSE] /\ lease.live
        /\ proc[lease.owner].pc # "leased"
    BY <1>5 DEF ExpireDead, ExpireSuspended
  <2>2. lease'.epoch = lease.epoch
    BY <2>1 DEF Leases
  <2>3. \A q \in Procs : proc'[q].pc # "leased"
    BY <2>1 DEF OwnEpoch
  <2> QED BY <2>1, <2>2, <2>3, OwnEpochKept
<1>6. CASE UNCHANGED <<proc, lease>>
  BY <1>6, OwnEpochKept
<1> QED BY <1>1, <1>2, <1>3, <1>4, <1>5, <1>6
    DEF Next, ProcStep, remember_failure, release, Crash, acknowledge_host_delivery,
        HostReceives, Tick, StepClockBack, vars

LEMMA ReplayOrderInit ==
  Init => ReplayOrder
BY SMTT(30) DEF Init, ReplayOrder, Pending, New

\* Pending rows are read in the order of commitment.
LEMMA ReadInOrder ==
  ASSUME Typing, ReplayOrder, NEW m \in Pending, NEW n \in Pending
  PROVE  Before(m, n) <=> m < n
<1>1. m \in 1..Len(rows) /\ n \in 1..Len(rows) /\ m \in Nat /\ n \in Nat
  BY RowsAreTyped, SMTT(30) DEF Pending
<1>2. /\ rows[m].created \in Nat /\ rows[m].epoch \in Nat /\ rows[m].seq \in Nat
      /\ rows[n].created \in Nat /\ rows[n].epoch \in Nat /\ rows[n].seq \in Nat
  BY <1>1, RowsAreTyped
<1>3. CASE m < n
  BY <1>1, <1>2, <1>3, SMTT(30) DEF ReplayOrder, Before
<1>4. CASE n < m
  <2>1. /\ rows[n].created <= rows[m].created /\ rows[n].epoch <= rows[m].epoch
        /\ rows[n].epoch = rows[m].epoch => rows[n].seq < rows[m].seq
    BY <1>1, <1>4 DEF ReplayOrder
  <2> QED BY <1>1, <1>2, <1>4, <2>1, SMTT(30) DEF Before
<1>5. CASE m = n
  BY <1>1, <1>2, <1>5, SMTT(30) DEF Before
<1> QED BY <1>1, <1>3, <1>4, <1>5, SMTT(30)

\* A step that commits and renumbers nothing, under the same lease or a newer
\* one; the epoch of a process is one it was given before.
LEMMA ReplayOrderKept ==
  ASSUME Once, Typing', OwnEpoch, ReplayOrder, Len(rows') = Len(rows),
         \A n \in 1..Len(rows) :
           /\ rows'[n].created = rows[n].created /\ rows'[n].epoch = rows[n].epoch
           /\ rows'[n].seq = rows[n].seq /\ (rows[n].acked => rows'[n].acked),
         clock <= clock', lease'.epoch \in {lease.epoch, lease.epoch + 1},
         \A q \in Procs : proc'[q].epoch = proc[q].epoch
  PROVE  ReplayOrder'
<1>1. /\ clock \in Nat /\ clock' \in Nat /\ lease.epoch \in Nat
      /\ \A q \in Procs : proc[q].epoch \in Nat /\ proc[q].held \in Nat
      /\ \A n \in 1..Len(rows) : rows[n].created \in Nat /\ rows[n].epoch \in Nat
  BY EpochsAreTyped, RowsAreTyped DEF Once, Typing
<1>2. \A n \in Pending' : n \in Pending
  BY DEF Pending
<1>3. \A n \in Pending : n \in 1..Len(rows)
  BY DEF Pending
<1>4. \A n \in 1..Len(rows') : rows'[n].created <= clock' /\ rows'[n].epoch <= lease'.epoch
  BY <1>1, SMTT(30) DEF ReplayOrder
<1>5. \A m, n \in 1..Len(rows') : m < n => rows'[m].created <= rows'[n].created
  BY DEF ReplayOrder
<1>6. \A m, n \in Pending' : m < n =>
        /\ rows'[m].epoch <= rows'[n].epoch
        /\ rows'[m].epoch = rows'[n].epoch => rows'[m].seq < rows'[n].seq
  BY <1>2, <1>3 DEF ReplayOrder
<1>7. \A q \in Procs : proc'[q].epoch = lease'.epoch /\ proc'[q].epoch # 0 =>
        \A n \in Pending' : rows'[n].epoch = lease'.epoch
  <2>1. \A q \in Procs : proc[q].epoch <= lease.epoch
    BY <1>1, SMTT(30) DEF OwnEpoch
  <2> QED BY <1>1, <1>2, <1>3, <2>1, SMTT(30) DEF ReplayOrder
<1> QED BY <1>4, <1>5, <1>6, <1>7 DEF ReplayOrder

LEMMA ReplayOrderPrepare ==
  ASSUME Once, ReplayOrder, NEW p \in Procs, prepare_host_outbox(p)
  PROVE  ReplayOrder'
<1> DEFINE e == lease.epoch
<1>1. e \in Nat /\ rows' = adopt_pending_deliveries(e) /\ Typing /\ Keyed
  BY EpochsAreTyped DEF Once, prepare_host_outbox
<1>2. lease' = lease /\ clock' = clock
  BY DEF prepare_host_outbox
<1> HIDE DEF e
<1>3. rows' \in Seq(Rows) /\ Len(rows') = Len(rows)
  BY <1>1, AdoptionKeeps
<1>4. \A n \in 1..Len(rows) : /\ rows'[n].created = rows[n].created
                              /\ rows'[n].acked = rows[n].acked
                              /\ rows'[n].epoch = IF n \in Pending THEN e ELSE rows[n].epoch
  BY <1>1, AdoptionKeeps, SMTT(30)
<1>5. \A m, n \in Pending : Before(m, n) => rows' = rows \/ rows'[m].seq < rows'[n].seq
  BY <1>1, AdoptionKeeps
<1>6. Pending' = Pending /\ Pending \subseteq 1..Len(rows)
  BY <1>3, <1>4 DEF Pending
<1>7. \A n \in 1..Len(rows) : rows[n].epoch \in Nat
  BY <1>1, RowsAreTyped
<1>8. \A n \in 1..Len(rows') : rows'[n].created <= clock' /\ rows'[n].epoch <= lease'.epoch
  BY <1>1, <1>2, <1>3, <1>4, <1>7, SMTT(30) DEF ReplayOrder, e
<1>9. \A m, n \in 1..Len(rows') : m < n => rows'[m].created <= rows'[n].created
  BY <1>3, <1>4 DEF ReplayOrder
<1>10. \A n \in Pending' : rows'[n].epoch = e
  BY <1>4, <1>6
<1>11. ASSUME NEW m \in Pending, NEW n \in Pending, m < n
       PROVE  rows'[m].seq < rows'[n].seq
  <2>1. Before(m, n)
    BY <1>1, <1>11, ReadInOrder
  <2>2. CASE rows' = rows
    BY <1>6, <1>10, <1>11, <2>2 DEF ReplayOrder
  <2> QED BY <1>5, <2>1, <2>2
<1> QED BY <1>1, <1>2, <1>6, <1>8, <1>9, <1>10, <1>11, SMTT(30) DEF ReplayOrder, e

LEMMA ReplayOrderEnqueue ==
  ASSUME Once, OwnEpoch, ReplayOrder, NEW p \in Procs, enqueue_host_delivery(p)
  PROVE  ReplayOrder'
<1> DEFINE n == Len(rows) + 1
           e == proc[p].epoch
<1>1. /\ n \in Nat /\ Len(rows) \in Nat /\ Len(rows') = n
      /\ \A m \in 1..Len(rows) : rows'[m] = rows[m]
      /\ rows'[n].epoch = e /\ rows'[n].created = clock /\ ~rows'[n].acked
      /\ \A q \in Procs : proc'[q].epoch = proc[q].epoch
      /\ \A m \in 1..Len(rows) : rows[m].epoch = e => rows[m].seq < rows'[n].seq
  BY EnqueueEffect DEF Once
<1>2. clock' = clock /\ lease' = lease /\ lease.epoch = e /\ clock \in Nat /\ e \in Nat
  BY EpochsAreTyped DEF Once, Typing, enqueue_host_delivery, require_host_outbox_epoch
<1>3. \A m \in 1..Len(rows') : m \in 1..Len(rows) \/ m = n
  BY <1>1, SMTT(30)
<1>4. \A m \in 1..Len(rows) : m < n /\ m \in Nat
  BY <1>1, SMTT(30)
<1>5. \A m \in Pending' : m \in Pending \/ m = n
  BY <1>1, <1>3 DEF Pending
<1>6. \A m \in Pending : m \in 1..Len(rows)
  BY DEF Pending
<1>7. proc[p].pc \in Working
  BY DEF enqueue_host_delivery, Working
<1>8. e # 0
  BY <1>2, <1>7, EpochsAreTyped, SMTT(30) DEF OwnEpoch, Once
<1> HIDE DEF n, e
<1>9. \A m \in 1..Len(rows') : rows'[m].created <= clock' /\ rows'[m].epoch <= lease'.epoch
  BY <1>1, <1>2, <1>3, SMTT(30) DEF ReplayOrder
<1>10. \A k, m \in 1..Len(rows') : k < m => rows'[k].created <= rows'[m].created
  BY <1>1, <1>2, <1>3, <1>4, SMTT(30) DEF ReplayOrder
<1>11. \A k, m \in Pending' : k < m =>
         /\ rows'[k].epoch <= rows'[m].epoch
         /\ rows'[k].epoch = rows'[m].epoch => rows'[k].seq < rows'[m].seq
  BY <1>1, <1>2, <1>4, <1>5, <1>6, SMTT(30) DEF ReplayOrder
<1>12. \A m \in Pending' : rows'[m].epoch = lease'.epoch
  BY <1>1, <1>2, <1>5, <1>6, <1>8 DEF ReplayOrder, e
<1> QED BY <1>9, <1>10, <1>11, <1>12 DEF ReplayOrder

LEMMA ReplayOrderNext ==
  ASSUME Once, Once', OwnEpoch, ReplayOrder, ~ClockSteps, [Next]_vars
  PROVE  ReplayOrder'
<1>1. clock \in Nat /\ clock <= clock /\ Typing' /\ lease \in Leases
  BY SMTT(30) DEF Once, Typing
<1>2. ASSUME rows' = rows, clock' = clock \/ Tick,
             lease'.epoch \in {lease.epoch, lease.epoch + 1},
             \A q \in Procs : proc'[q].epoch = proc[q].epoch
      PROVE  ReplayOrder'
  <2>1. clock <= clock'
    BY <1>1, <1>2, SMTT(30) DEF Tick
  <2> QED BY <1>1, <1>2, <2>1, ReplayOrderKept
<1>3. ASSUME NEW p \in Procs, ProcStep(p)
      PROVE  ReplayOrder'
  <2>1. CASE load_active(p)
    <3>1. \A q \in Procs : proc'[q].epoch = proc[q].epoch
      BY <2>1, LoadActiveEffect DEF Once
    <3> QED BY <1>2, <2>1, <3>1 DEF load_active
  <2>2. CASE prepare_host_outbox(p)
    BY <2>2, ReplayOrderPrepare
  <2>3. CASE pending_host_deliveries(p)
    <3>1. \A q \in Procs : proc'[q].epoch = proc[q].epoch
      BY <2>3, ReplayEffect DEF Once
    <3> QED BY <1>2, <2>3, <3>1 DEF pending_host_deliveries
  <2>4. CASE emit_delivery(p)
    <3>1. \A q \in Procs : proc'[q].epoch = proc[q].epoch
      BY <2>4, EmitEffect DEF Once
    <3> QED BY <1>2, <2>4, <3>1 DEF emit_delivery
  <2>5. CASE remember_failure(p)
    <3>1. \A q \in Procs : proc'[q].epoch = proc[q].epoch
      BY <2>5, StopEffect DEF Once, remember_failure
    <3> QED BY <1>2, <2>5, <3>1 DEF remember_failure
  <2> QED BY <1>3, <2>1, <2>2, <2>3, <2>4, <2>5 DEF ProcStep
<1>4. ASSUME NEW p \in Procs, release(p)
      PROVE  ReplayOrder'
  <2>1. \A q \in Procs : proc'[q].epoch = proc[q].epoch
    BY <1>4, StopEffect DEF Once, release
  <2>2. lease'.epoch = lease.epoch
    BY <1>1, <1>4 DEF release, Leases
  <2> QED BY <1>2, <1>4, <2>1, <2>2 DEF release
<1>5. ASSUME NEW p \in Procs, Crash(p)
      PROVE  ReplayOrder'
  <2>1. \A q \in Procs : proc'[q].epoch = proc[q].epoch
    BY <1>5, StopEffect DEF Once, Crash
  <2> QED BY <1>2, <1>5, <2>1 DEF Crash
<1>6. ASSUME NEW p \in Procs, acknowledge_host_delivery(p)
      PROVE  ReplayOrder'
  <2>1. /\ Len(rows') = Len(rows)
        /\ \A n \in 1..Len(rows) :
             /\ rows'[n].created = rows[n].created /\ rows'[n].epoch = rows[n].epoch
             /\ rows'[n].seq = rows[n].seq /\ (rows[n].acked => rows'[n].acked)
    BY <1>6, AcknowledgeEffect DEF Once
  <2>2. UNCHANGED <<clock, lease, proc>>
    BY <1>6 DEF acknowledge_host_delivery
  <2> QED BY <1>1, <2>1, <2>2, ReplayOrderKept
<1>7. CASE ExpireDead \/ ExpireSuspended
  <2>1. lease'.epoch = lease.epoch
    BY <1>1, <1>7 DEF ExpireDead, ExpireSuspended, Leases
  <2> QED BY <1>2, <1>7, <2>1 DEF ExpireDead, ExpireSuspended
<1>8. CASE Tick
  BY <1>2, <1>8 DEF Tick
<1>9. CASE \E p \in Procs : HostReceives(p)
  BY <1>2, <1>9 DEF HostReceives
<1>10. CASE UNCHANGED vars
  BY <1>2, <1>10 DEF vars
<1>11. ASSUME NEW p \in Procs, enqueue_host_delivery(p)
       PROVE  ReplayOrder'
  BY <1>11, ReplayOrderEnqueue
<1> QED BY <1>3, <1>4, <1>5, <1>6, <1>7, <1>8, <1>9, <1>10, <1>11
    DEF Next, StepClockBack

LEMMA LinesInit ==
  Init => Lines
BY SMTT(30) DEF Init, Lines, Line, Outgoing, Written, Unwritten, New, Starting, Sending, Range

\* A process that neither writes nor reads, while nothing is committed.
LEMMA LineKept ==
  ASSUME NEW q \in Procs, Line(q),
         wire'[q] = wire[q], proc'[q].replay = proc[q].replay,
         proc'[q].pc = "dead" <=> proc[q].pc = "dead",
         proc'[q].pc \in Starting => proc[q].pc \in Starting,
         recorded \subseteq recorded', Len(rows') = Len(rows),
         proc'[q].pc \in Sending /\ proc'[q].epoch = lease'.epoch =>
           proc[q].pc \in Sending /\ proc[q].epoch = lease.epoch
  PROVE  Line(q)'
<1>1. Outgoing(q)' = Outgoing(q)
  BY DEF Outgoing, Written, Unwritten
<1> QED BY <1>1 DEF Line

LEMMA LineStops ==
  ASSUME Once, NEW q \in Procs, Line(q),
         wire'[q] \in {wire[q], <<>>}, proc'[q].replay = proc[q].replay,
         proc'[q].pc = "dead", recorded' = recorded, Len(rows') = Len(rows)
  PROVE  Line(q)'
<1>1. "dead" \notin Starting /\ "dead" \notin Sending
  BY DEF Starting, Sending
<1>2. Outgoing(q)' = Written(q)'
  BY DEF Outgoing, Unwritten
<1>3. CASE wire'[q] = <<>>
  <2>1. Written(q)' = {} /\ 1..Len(wire'[q]) = {}
    BY <1>3, SMTT(30) DEF Written
  <2> QED BY <1>1, <1>2, <2>1 DEF Line
<1>4. CASE wire'[q] = wire[q]
  <2>1. Written(q)' = Written(q)
    BY <1>4 DEF Written
  <2>2. ASSUME NEW n \in Written(q), NEW m \in 1..Len(rows), m < n, m \notin recorded
        PROVE  m \in Written(q)
    <3>1. m \in Outgoing(q)
      BY <2>2 DEF Line, Outgoing
    <3>2. ASSUME m \in Range(proc[q].replay) PROVE FALSE
      <4>1. PICK i \in 1..Len(wire[q]) : n = wire[q][i].event
        BY DEF Written
      <4>2. PICK j \in 1..Len(proc[q].replay) : m = proc[q].replay[j]
        BY <3>2, EpochsAreTyped, SMTT(30) DEF Range, Once
      <4>3. n < m
        BY <4>1, <4>2 DEF Line
      <4>4. n \in Nat /\ m \in Nat
        BY <4>1, RowsAreTyped, SMTT(30) DEF Once, Truthful
      <4> QED BY <2>2, <4>3, <4>4, SMTT(30)
    <3> QED BY <3>1, <3>2 DEF Outgoing, Unwritten
  <2> QED BY <1>1, <1>2, <1>4, <2>1, <2>2 DEF Line
<1> QED BY <1>3, <1>4

LEMMA LineReplay ==
  ASSUME Once, OwnEpoch, ReplayOrder, Lines, NEW p \in Procs, pending_host_deliveries(p)
  PROVE  Line(p)'
<1> DEFINE S == {n \in Pending : rows[n].epoch = proc[p].epoch}
           s == proc'[p].replay
           N == Cardinality(S)
<1>1. proc'[p].pc = "replay" /\ s = query_pending_deliveries(S)
  BY ReplayEffect DEF Once
<1>2. UNCHANGED <<rows, lease, wire, recorded>>
  BY DEF pending_host_deliveries, host
<1>3. proc[p].pc = "opened" /\ proc[p].epoch = lease.epoch
  BY DEF pending_host_deliveries, require_host_outbox_epoch
<1>4. wire[p] = <<>> /\ 1..Len(wire[p]) = {}
  BY <1>3, SMTT(30) DEF Lines, Line, Starting
<1>5. S = Pending /\ Pending \subseteq 1..Len(rows)
  <2>1. proc[p].epoch # 0
    BY <1>3, EpochsAreTyped, SMTT(30) DEF Once, OwnEpoch, Working
  <2>2. \A n \in Pending : rows[n].epoch = proc[p].epoch
    BY <1>3, <2>1 DEF ReplayOrder
  <2> QED BY <2>2 DEF Pending
<1> HIDE DEF S, s
<1>6. /\ N \in Nat /\ s \in [1..N -> S] /\ Len(s) = N /\ Range(s) = S
      /\ \A i, j \in 1..N : i < j => Before(s[i], s[j])
  <2>1. S \in SUBSET (1..Len(rows)) /\ Typing /\ Keyed
    BY <1>5 DEF Once
  <2> QED BY <1>1, <2>1, QueryIsSorted
<1> HIDE DEF N
<1>7. \A i, j \in 1..Len(s) : i < j => s[i] < s[j]
  BY <1>5, <1>6, ReadInOrder DEF Once
<1>8. Outgoing(p)' = Pending
  <2>1. Written(p)' = {}
    BY <1>2, <1>4 DEF Written
  <2>2. Unwritten(p)' = Pending
    BY <1>1, <1>5, <1>6 DEF Unwritten, s
  <2> QED BY <2>1, <2>2 DEF Outgoing
<1>9. \A m \in 1..Len(rows) : m \notin recorded => m \in Pending
  BY DEF Pending, Once, AckedIsRecorded, Truthful
<1> QED BY <1>1, <1>2, <1>4, <1>7, <1>8, <1>9 DEF Line, Starting, s

LEMMA LineEmit ==
  ASSUME Once, NEW p \in Procs, Line(p), emit_delivery(p)
  PROVE  Line(p)'
<1> DEFINE h == Head(proc[p].replay)
           r == proc[p].replay
           w == wire[p]
           v == Envelope(p, h)
<1>1. /\ r \in Seq(Nat) /\ r # <<>> /\ h \in 1..Len(rows) /\ h = r[1]
      /\ proc'[p].replay = Tail(r) /\ proc'[p].epoch = proc[p].epoch
      /\ proc'[p].pc = IF proc[p].pc = "emit" THEN "idle" ELSE proc[p].pc
      /\ wire'[p] = Append(w, v) /\ v \in Envelopes
  BY EmitEffect DEF Once
<1>2. v.event = h /\ w \in Seq(Envelopes)
  BY EpochsAreTyped DEF Envelope, Once
<1>3. UNCHANGED <<rows, lease, recorded>> /\ proc[p].pc \in {"replay", "emit"}
  BY DEF emit_delivery, host
<1> HIDE DEF h, r, w, v
<1>4. /\ Len(wire'[p]) = Len(w) + 1 /\ Len(w) \in Nat /\ wire'[p][Len(w) + 1] = v
      /\ \A i \in 1..Len(w) : wire'[p][i] = w[i]
  BY <1>1, <1>2, SMTT(30)
<1>5. \A i \in 1..Len(wire'[p]) : i \in 1..Len(w) \/ i = Len(w) + 1
  BY <1>4, SMTT(30)
<1>6. /\ Len(r) \in Nat /\ Len(r) >= 1 /\ Len(Tail(r)) = Len(r) - 1
      /\ \A i \in 1..Len(Tail(r)) : Tail(r)[i] = r[i + 1] /\ i + 1 \in 1..Len(r)
  BY <1>1, SMTT(30)
<1>7. 1 \in 1..Len(r)
  BY <1>6, SMTT(30)
<1>8. \A i, j \in 1..Len(r) : i < j => r[i] < r[j]
  BY DEF Line, r
<1>9. \A i, j \in 1..Len(w) : i < j => w[i].event < w[j].event
  BY DEF Line, w
<1>10. \A i \in 1..Len(w), j \in 1..Len(r) : w[i].event < r[j]
  BY DEF Line, w, r
<1>11. \A i, j \in 1..Len(wire'[p]) : i < j => wire'[p][i].event < wire'[p][j].event
  <2>1. \A i \in 1..Len(w) : w[i].event < h /\ i # Len(w) + 1 /\ ~(Len(w) + 1 < i)
    BY <1>1, <1>4, <1>7, <1>10, SMTT(30)
  <2>2. ~(Len(w) + 1 < Len(w) + 1)
    BY <1>4, SMTT(30)
  <2> QED BY <1>2, <1>4, <1>5, <1>9, <2>1, <2>2
<1>12. \A i, j \in 1..Len(Tail(r)) : i < j => Tail(r)[i] < Tail(r)[j]
  BY <1>6, <1>8, SMTT(30)
<1>13. \A i \in 1..Len(wire'[p]), j \in 1..Len(Tail(r)) : wire'[p][i].event < Tail(r)[j]
  <2>1. \A j \in 1..Len(Tail(r)) : h < Tail(r)[j]
    <3>1. \A j \in 1..Len(Tail(r)) : 1 < j + 1
      BY <1>6, SMTT(30)
    <3> QED BY <1>1, <1>6, <1>7, <1>8, <3>1
  <2> QED BY <1>2, <1>4, <1>5, <1>6, <1>10, <2>1
<1>14. Outgoing(p)' = Outgoing(p)
  <2>1. Written(p)' = Written(p) \cup {h}
    <3>1. Written(p) = {w[i].event : i \in 1..Len(w)}
      BY DEF Written, w
    <3>2. Written(p)' = {wire'[p][i].event : i \in 1..Len(wire'[p])}
      BY DEF Written
    <3>3. 1..Len(wire'[p]) = 1..Len(w) \cup {Len(w) + 1}
      BY <1>4, SMTT(30)
    <3> QED BY <1>2, <1>4, <3>1, <3>2, <3>3, SMTT(30)
  <2>2. Range(r) = Range(Tail(r)) \cup {h}
    <3>1. Tail(r) \in Seq(Nat) /\ DOMAIN r = 1..Len(r) /\ DOMAIN Tail(r) = 1..Len(Tail(r))
      BY <1>1, SMTT(30)
    <3>2. \A i \in 1..Len(r) : i = 1 \/ (i - 1 \in 1..Len(Tail(r)) /\ r[i] = Tail(r)[i - 1])
      BY <1>1, <1>6, SMTT(30)
    <3>3. Range(r) \subseteq Range(Tail(r)) \cup {h}
      BY <1>1, <3>1, <3>2 DEF Range
    <3>4. Range(Tail(r)) \cup {h} \subseteq Range(r)
      BY <1>1, <1>6, <1>7, <3>1 DEF Range
    <3> QED BY <3>3, <3>4
  <2>3. Unwritten(p) = Range(r) /\ Unwritten(p)' = Range(Tail(r))
    BY <1>1, <1>3 DEF Unwritten, r
  <2> QED BY <2>1, <2>2, <2>3 DEF Outgoing
<1>15. proc'[p].pc \notin Starting /\ proc[p].pc \in Sending
  BY <1>1, <1>3 DEF Starting, Sending
<1> QED BY <1>1, <1>3, <1>11, <1>12, <1>13, <1>14, <1>15 DEF Line

LEMMA LineEnqueue ==
  ASSUME Once, OwnEpoch, Lines, NEW p \in Procs, enqueue_host_delivery(p), NEW q \in Procs
  PROVE  Line(q)'
<1> DEFINE n == Len(rows) + 1
<1>1. /\ n \in Nat /\ Len(rows) \in Nat /\ Len(rows') = n
      /\ proc'[p].replay = <<n>> /\ proc'[p].pc = "emit"
      /\ proc'[p].held = proc[p].held /\ proc'[p].epoch = proc[p].epoch
      /\ \A r \in Procs : r # p => proc'[r] = proc[r]
  BY EnqueueEffect DEF Once
<1>2. UNCHANGED <<lease, wire, recorded>>
  BY DEF enqueue_host_delivery, host
<1>3. /\ proc[p].pc \in Sending /\ proc[p].replay = <<>> /\ proc[p].epoch = lease.epoch
      /\ lease.epoch \in Nat
  BY EpochsAreTyped DEF enqueue_host_delivery, require_host_outbox_epoch, Sending, Once
<1>4. Line(q) /\ Line(p)
  BY DEF Lines
<1>5. \A m \in 1..Len(rows') : m \in 1..Len(rows) \/ m = n
  BY <1>1, SMTT(30)
<1>6. \A i \in 1..Len(wire[q]) : wire[q][i].event \in 1..Len(rows)
  BY DEF Once, Truthful
<1>7. Written(q)' = Written(q) /\ \A m \in Written(q) : m \in Nat /\ m < n
  <2>1. \A m \in 1..Len(rows) : m \in Nat /\ m < n
    BY <1>1, SMTT(30)
  <2> QED BY <1>2, <1>6, <2>1 DEF Written
<1> HIDE DEF n
<1>8. CASE q = p
  <2>1. Len(<<n>>) = 1 /\ <<n>>[1] = n /\ Range(<<n>>) = {n}
    BY SMTT(30) DEF Range
  <2>2. Unwritten(q) = {} /\ Unwritten(q)' = {n}
    BY <1>1, <1>3, <1>8, <2>1, SMTT(30) DEF Unwritten, Range
  <2>3. \A m \in 1..Len(rows) : m \notin recorded => m \in Written(q)
    BY <1>3, <1>4, <1>8, <2>2 DEF Line, Outgoing
  <2>4. \A k \in Outgoing(q)', m \in 1..Len(rows') :
          m < k /\ m \notin recorded => m \in Outgoing(q)'
    BY <1>5, <1>7, <2>2, <2>3 DEF Outgoing
  <2>5. \A m \in 1..Len(rows') : m \notin recorded => m \in Outgoing(q)'
    BY <1>5, <1>7, <2>2, <2>3 DEF Outgoing
  <2>6. \A i \in 1..Len(wire[q]) : wire[q][i].event < n
    BY <1>7 DEF Written
  <2>7. \A i, j \in 1..Len(proc'[q].replay) : i < j => proc'[q].replay[i] < proc'[q].replay[j]
    BY <1>1, <1>8, <2>1, SMTT(30)
  <2>8. \A i \in 1..Len(wire'[q]), j \in 1..Len(proc'[q].replay) :
          wire'[q][i].event < proc'[q].replay[j]
    BY <1>1, <1>2, <1>8, <2>1, <2>6, SMTT(30)
  <2>9. proc'[q].pc \notin Starting
    BY <1>1, <1>8 DEF Starting
  <2> QED BY <1>2, <1>4, <2>4, <2>5, <2>7, <2>8, <2>9 DEF Line
<1>9. CASE q # p
  <2>1. proc'[q] = proc[q]
    BY <1>1, <1>9
  <2>2. Outgoing(q)' = Outgoing(q)
    BY <1>7, <2>1 DEF Outgoing, Unwritten
  <2>3. \A m \in Outgoing(q) : m \in 1..Len(rows)
    <3>1. \A m \in Written(q) : m \in 1..Len(rows)
      BY <1>6 DEF Written
    <3>2. DOMAIN proc[q].replay = 1..Len(proc[q].replay)
      BY EpochsAreTyped, SMTT(30) DEF Once
    <3>3. \A m \in Range(proc[q].replay) : m \in 1..Len(rows)
      BY <3>2, SMTT(30) DEF Range, Once, Truthful
    <3> QED BY <3>1, <3>3 DEF Outgoing, Unwritten
  <2>4. \A k \in Outgoing(q)', m \in 1..Len(rows') :
          m < k /\ m \notin recorded => m \in Outgoing(q)'
    <3>1. \A k \in Outgoing(q) : ~(n < k)
      BY <1>1, <2>3, SMTT(30) DEF n
    <3> QED BY <1>4, <1>5, <2>2, <3>1 DEF Line
  <2>5. ~(proc[q].pc \in Sending /\ proc[q].epoch = lease.epoch)
    <3>1. proc[p].held # 0 /\ proc[p].epoch \in {0, proc[p].held} /\ proc[p].held <= lease.epoch
      BY <1>3 DEF OwnEpoch, Sending, Working
    <3>2. proc[p].held = lease.epoch
      BY <1>3, <3>1, EpochsAreTyped, SMTT(30) DEF Once
    <3>3. proc[q].epoch = lease.epoch => proc[q].held = lease.epoch
      BY <3>1, <3>2 DEF OwnEpoch
    <3> QED BY <1>9, <3>1, <3>2, <3>3 DEF OwnEpoch
  <2> QED BY <1>2, <1>4, <2>1, <2>4, <2>5 DEF Line
<1> QED BY <1>8, <1>9

\* The envelope at the head of a pipe is the first of what its process has in
\* hand, so that everything before it has been displayed.
LEMMA HeadIsFirst ==
  ASSUME Once, NEW p \in Procs, Line(p), wire[p] # <<>>, NEW e, e = wire[p][1].event
  PROVE  /\ e \in 1..Len(rows) /\ e \in Nat /\ e \in Written(p)
         /\ \A n \in Outgoing(p) : n \in Nat /\ e <= n
         /\ \A m \in 1..Len(rows) : m < e => m \in recorded
<1>1. wire[p] \in Seq(Envelopes) /\ proc[p].replay \in Seq(Nat) /\ Len(rows) \in Nat
  BY EpochsAreTyped, RowsAreTyped DEF Once
<1>2. 1 \in 1..Len(wire[p])
  BY <1>1, SMTT(30)
<1>3. e \in 1..Len(rows) /\ e \in Written(p) /\ e \in Nat
  BY <1>1, <1>2, SMTT(30) DEF Once, Truthful, Written
<1>4. \A n \in Written(p) : n \in Nat /\ e <= n
  <2>1. \A i \in 1..Len(wire[p]) : wire[p][i].event \in Nat
    BY <1>1, SMTT(30) DEF Once, Truthful
  <2>2. \A i \in 1..Len(wire[p]) : i # 1 => e < wire[p][i].event
    <3>1. \A i \in 1..Len(wire[p]) : i # 1 => 1 < i
      BY <1>1, SMTT(30)
    <3> QED BY <1>2, <3>1 DEF Line
  <2> QED BY <1>3, <2>1, <2>2, SMTT(30) DEF Written
<1>5. \A n \in Unwritten(p) : n \in Nat /\ e <= n
  <2>1. \A j \in 1..Len(proc[p].replay) : proc[p].replay[j] \in Nat /\ e < proc[p].replay[j]
    <3>1. \A j \in 1..Len(proc[p].replay) : proc[p].replay[j] \in Nat
      BY <1>1, SMTT(30)
    <3>2. \A j \in 1..Len(proc[p].replay) : e < proc[p].replay[j]
      BY <1>2 DEF Line
    <3> QED BY <3>1, <3>2
  <2>2. DOMAIN proc[p].replay = 1..Len(proc[p].replay)
    BY <1>1, SMTT(30)
  <2> QED BY <1>3, <2>1, <2>2, SMTT(30) DEF Unwritten, Range
<1>6. \A n \in Outgoing(p) : n \in Nat /\ e <= n
  BY <1>4, <1>5 DEF Outgoing
<1>7. ASSUME NEW m \in 1..Len(rows), m < e, m \notin recorded
      PROVE  FALSE
  <2>1. m \in Outgoing(p)
    BY <1>3, <1>7 DEF Line, Outgoing
  <2> QED BY <1>3, <1>6, <1>7, <2>1, SMTT(30)
<1> QED BY <1>3, <1>6, <1>7

LEMMA LineReceives ==
  ASSUME Once, NEW p \in Procs, Line(p), HostReceives(p)
  PROVE  Line(p)'
<1> DEFINE w == wire[p]
           e == w[1].event
<1>1. /\ w \in Seq(Envelopes) /\ w # <<>> /\ wire'[p] = Tail(w)
      /\ recorded' = recorded \cup {w[1].id}
  BY ReceiveEffect DEF Once
<1>2. UNCHANGED <<rows, proc, lease>>
  BY DEF HostReceives
<1>3. 1 \in 1..Len(w) /\ w[1].id = e
  BY <1>1, SMTT(30) DEF Once, Truthful
<1> HIDE DEF e, w
<1>4. /\ Len(w) \in Nat /\ Len(Tail(w)) = Len(w) - 1
      /\ \A i \in 1..Len(Tail(w)) : Tail(w)[i] = w[i + 1] /\ i + 1 \in 1..Len(w)
  BY <1>1, SMTT(30)
<1>5. \A i, j \in 1..Len(w) : i < j => w[i].event < w[j].event
  BY DEF Line, w
<1>6. \A i \in 1..Len(w), j \in 1..Len(proc[p].replay) : w[i].event < proc[p].replay[j]
  BY DEF Line, w
<1>7. \A i, j \in 1..Len(Tail(w)) : i < j => Tail(w)[i].event < Tail(w)[j].event
  BY <1>4, <1>5, SMTT(30)
<1>8. \A i \in 1..Len(Tail(w)), j \in 1..Len(proc[p].replay) :
        Tail(w)[i].event < proc[p].replay[j]
  BY <1>4, <1>6
<1>9. Outgoing(p)' \subseteq Outgoing(p) /\ Outgoing(p) \subseteq Outgoing(p)' \cup {e}
  <2>1. Written(p) = {w[i].event : i \in 1..Len(w)}
    BY DEF Written, w
  <2>2. Written(p)' = {Tail(w)[i].event : i \in 1..Len(Tail(w))}
    BY <1>1 DEF Written
  <2>3. Unwritten(p)' = Unwritten(p)
    BY <1>2 DEF Unwritten
  <2>4. \A i \in 1..Len(w) : i = 1 \/ (i - 1 \in 1..Len(Tail(w)) /\ w[i] = Tail(w)[i - 1])
    BY <1>1, <1>4, SMTT(30)
  <2>5. Written(p)' \subseteq Written(p)
    BY <1>4, <2>1, <2>2
  <2>6. Written(p) \subseteq Written(p)' \cup {e}
    BY <2>1, <2>2, <2>4 DEF e
  <2> QED BY <2>3, <2>5, <2>6 DEF Outgoing
<1>10. proc[p].pc \notin Starting
  BY <1>1 DEF Line, w
<1>11. \A n \in Outgoing(p)', m \in 1..Len(rows) :
         m < n /\ m \notin recorded' => m \in Outgoing(p)'
  BY <1>1, <1>3, <1>9 DEF Line
<1>12. proc[p].pc \in Sending /\ proc[p].epoch = lease.epoch =>
         \A m \in 1..Len(rows) : m \notin recorded' => m \in Outgoing(p)'
  BY <1>1, <1>3, <1>9 DEF Line
<1> QED BY <1>1, <1>2, <1>7, <1>8, <1>10, <1>11, <1>12 DEF Line

LEMMA LinesNext ==
  ASSUME Once, OwnEpoch, ReplayOrder, Lines, [Next]_vars
  PROVE  Lines'
<1> SUFFICES ASSUME NEW q \in Procs PROVE Line(q)'
  BY DEF Lines
<1>1. Line(q) /\ lease \in Leases /\ lease.epoch \in Nat
  BY EpochsAreTyped DEF Lines, Once
<1>2. ASSUME rows' = rows, recorded' = recorded, lease'.epoch = lease.epoch,
             wire'[q] = wire[q], proc'[q] = proc[q]
      PROVE  Line(q)'
  BY <1>1, <1>2, LineKept
<1>3. ASSUME NEW p \in Procs, ProcStep(p)
      PROVE  Line(q)'
  <2>1. CASE load_active(p)
    <3>1. /\ proc'[p].pc = "leased" /\ proc'[p].replay = proc[p].replay
          /\ proc'[p].epoch = proc[p].epoch
          /\ \A r \in Procs : r # p => proc'[r] = proc[r]
      BY <2>1, LoadActiveEffect DEF Once
    <3>2. /\ UNCHANGED <<rows, recorded, wire>> /\ proc[p].pc = "new"
          /\ lease'.epoch = lease.epoch + 1
      BY <2>1 DEF load_active, host
    <3>3. proc'[q].epoch # lease'.epoch
      <4>1. proc[q].epoch <= lease.epoch /\ proc[q].epoch \in Nat
        BY <1>1, EpochsAreTyped, SMTT(30) DEF OwnEpoch, Once
      <4> QED BY <1>1, <3>1, <3>2, <4>1, SMTT(30)
    <3> QED BY <1>1, <3>1, <3>2, <3>3, LineKept DEF Starting
  <2>2. CASE prepare_host_outbox(p)
    <3>1. /\ proc'[p].pc = "opened" /\ proc'[p].replay = proc[p].replay
          /\ \A r \in Procs : r # p => proc'[r] = proc[r]
      BY <2>2, PrepareEffect DEF Once
    <3>2. /\ UNCHANGED <<lease, recorded, wire>> /\ proc[p].pc = "leased"
          /\ rows' = adopt_pending_deliveries(lease.epoch)
      BY <2>2 DEF prepare_host_outbox, host
    <3>3. Len(rows') = Len(rows)
      BY <1>1, <3>2, AdoptionKeeps DEF Once
    <3> QED BY <1>1, <3>1, <3>2, <3>3, LineKept DEF Starting, Sending
  <2>3. CASE pending_host_deliveries(p)
    <3>1. \A r \in Procs : r # p => proc'[r] = proc[r]
      BY <2>3, ReplayEffect DEF Once
    <3>2. UNCHANGED <<rows, lease, recorded, wire>>
      BY <2>3 DEF pending_host_deliveries, host
    <3> QED BY <1>2, <2>3, <3>1, <3>2, LineReplay
  <2>4. CASE emit_delivery(p)
    <3>1. \A r \in Procs : r # p => proc'[r] = proc[r] /\ wire'[r] = wire[r]
      BY <2>4, EmitEffect DEF Once
    <3>2. UNCHANGED <<rows, lease, recorded>>
      BY <2>4 DEF emit_delivery, host
    <3> QED BY <1>1, <1>2, <2>4, <3>1, <3>2, LineEmit
  <2>5. CASE remember_failure(p)
    <3>1. /\ proc'[p].pc = "dead" /\ proc'[p].replay = proc[p].replay
          /\ \A r \in Procs : r # p => proc'[r] = proc[r]
      BY <2>5, StopEffect DEF Once, remember_failure
    <3>2. UNCHANGED <<rows, lease, recorded, wire>>
      BY <2>5 DEF remember_failure, host
    <3> QED BY <1>1, <1>2, <3>1, <3>2, LineStops
  <2> QED BY <1>3, <2>1, <2>2, <2>3, <2>4, <2>5 DEF ProcStep
<1>4. ASSUME NEW p \in Procs, release(p) \/ Crash(p)
      PROVE  Line(q)'
  <2>1. /\ proc'[p].pc = "dead" /\ proc'[p].replay = proc[p].replay
        /\ \A r \in Procs : r # p => proc'[r] = proc[r]
    BY <1>4, StopEffect DEF Once, release, Crash
  <2>2. UNCHANGED <<rows, recorded>>
    BY <1>4 DEF release, Crash, host
  <2>3. lease'.epoch = lease.epoch
    BY <1>1, <1>4 DEF release, Crash, Leases
  <2>4. wire \in [Procs -> Seq(Envelopes)]
    BY DEF Once, Typing
  <2>5. wire' = wire \/ wire' = [wire EXCEPT ![p] = <<>>]
    BY <1>4 DEF release, Crash
  <2>6. wire'[p] \in {wire[p], <<>>} /\ \A r \in Procs : r # p => wire'[r] = wire[r]
    BY <2>4, <2>5
  <2> QED BY <1>1, <1>2, <2>1, <2>2, <2>3, <2>6, LineStops
<1>5. ASSUME NEW p \in Procs, HostReceives(p)
      PROVE  Line(q)'
  <2>1. /\ \A r \in Procs : r # p => wire'[r] = wire[r]
        /\ recorded \subseteq recorded'
    BY <1>5, ReceiveEffect DEF Once
  <2>2. UNCHANGED <<rows, lease, proc>>
    BY <1>5 DEF HostReceives
  <2> QED BY <1>1, <1>5, <2>1, <2>2, LineReceives, LineKept
<1>6. ASSUME NEW p \in Procs, acknowledge_host_delivery(p)
      PROVE  Line(q)'
  <2>1. Len(rows') = Len(rows)
    BY <1>6, AcknowledgeEffect DEF Once
  <2>2. UNCHANGED <<lease, proc, wire, recorded>>
    BY <1>6 DEF acknowledge_host_delivery, host
  <2> QED BY <1>1, <2>1, <2>2, LineKept
<1>7. CASE ExpireDead \/ ExpireSuspended
  <2>1. lease'.epoch = lease.epoch
    BY <1>1, <1>7 DEF ExpireDead, ExpireSuspended, Leases
  <2> QED BY <1>2, <1>7, <2>1 DEF ExpireDead, ExpireSuspended, host
<1>8. CASE Tick \/ StepClockBack \/ UNCHANGED vars
  BY <1>2, <1>8 DEF Tick, StepClockBack, vars, host
<1> QED BY <1>3, <1>4, <1>5, <1>6, <1>7, <1>8, LineEnqueue DEF Next

LEMMA ShownNext ==
  ASSUME Once, Once', Lines, NoneSkipped, DisplayOrder, [Next]_vars
  PROVE  NoneSkipped' /\ DisplayOrder'
<1>1. CASE UNCHANGED <<recorded, displayed>>
  BY <1>1 DEF NoneSkipped, DisplayOrder
<1>2. ASSUME NEW p \in Procs, HostReceives(p)
      PROVE  NoneSkipped' /\ DisplayOrder'
  <2> DEFINE m == wire[p][1]
             e == m.event
  <2>1. /\ wire[p] \in Seq(Envelopes) /\ wire[p] # <<>>
        /\ recorded' = recorded \cup {m.id}
        /\ displayed' = IF m.id \in recorded THEN displayed ELSE Append(displayed, e)
    BY <1>2, ReceiveEffect DEF Once
  <2>2. m.id = e
    BY <2>1, SMTT(30) DEF Once, Truthful
  <2> HIDE DEF m
  <2>3. /\ e \in 1..Len(rows) /\ e \in Nat
        /\ \A k \in 1..Len(rows) : k < e => k \in recorded
    BY <2>1, HeadIsFirst DEF Lines, m
  <2>4. /\ displayed \in Seq(Nat) /\ recorded = Range(displayed)
        /\ recorded \subseteq 1..Len(rows) /\ Len(rows) \in Nat
    BY RowsAreTyped DEF Once, Typing, Truthful
  <2> HIDE DEF e
  <2>5. NoneSkipped'
    <3>1. \A k \in 1..e : k = e \/ (k \in 1..Len(rows) /\ k < e)
      BY <2>3, <2>4, SMTT(30)
    <3> QED BY <2>1, <2>2, <2>3, <3>1 DEF NoneSkipped
  <2>6. CASE e \in recorded
    BY <2>1, <2>2, <2>5, <2>6 DEF DisplayOrder
  <2>7. CASE e \notin recorded
    <3>1. displayed' = Append(displayed, e) /\ Len(displayed) \in Nat
      BY <2>1, <2>2, <2>4, <2>7, SMTT(30)
    <3>2. /\ Len(displayed') = Len(displayed) + 1 /\ displayed'[Len(displayed) + 1] = e
          /\ \A i \in 1..Len(displayed) : displayed'[i] = displayed[i]
      BY <2>3, <2>4, <3>1, SMTT(30)
    <3>3. \A i \in 1..Len(displayed') : i \in 1..Len(displayed) \/ i = Len(displayed) + 1
      BY <3>1, <3>2, SMTT(30)
    <3>4. ASSUME NEW i \in 1..Len(displayed) PROVE displayed[i] < e
      <4>1. displayed[i] \in recorded /\ displayed[i] \in Nat
        BY <2>4, SMTT(30) DEF Range
      <4>2. ~(e <= displayed[i])
        <5>1. e <= displayed[i] => e \in 1..displayed[i]
          BY <2>3, <2>4, <4>1, SMTT(30)
        <5> QED BY <2>7, <4>1, <5>1 DEF NoneSkipped
      <4> QED BY <2>3, <4>1, <4>2, SMTT(30)
    <3>5. \A i \in 1..Len(displayed) : i # Len(displayed) + 1 /\ ~(Len(displayed) + 1 < i)
      BY <3>1, SMTT(30)
    <3>6. ~(Len(displayed) + 1 < Len(displayed) + 1)
      BY <3>1, SMTT(30)
    <3>7. DisplayOrder'
      BY <3>2, <3>3, <3>4, <3>5, <3>6 DEF DisplayOrder
    <3> QED BY <2>5, <3>7
  <2> QED BY <2>6, <2>7
<1> QED BY <1>1, <1>2
    DEF Next, ProcStep, load_active, prepare_host_outbox, pending_host_deliveries,
        emit_delivery, remember_failure, enqueue_host_delivery, acknowledge_host_delivery,
        release, Crash, ExpireDead, ExpireSuspended, Tick, StepClockBack, vars, host

-----------------------------------------------------------------------------
(* The theorems.                                                              *)

\* The inductive invariant holds of every behaviour.
THEOREM OutboxInvariant ==
  Spec => []IInv
<1>1. Init => IInv
  <2>1. Init => NoneSkipped /\ DisplayOrder
    BY SMTT(30) DEF Init, NoneSkipped, DisplayOrder
  <2> QED BY <2>1, OnceInit, OwnEpochInit, ReplayOrderInit, LinesInit DEF IInv, InOrder
<1>2. IInv /\ [Next]_vars => IInv'
  <2> SUFFICES ASSUME IInv, [Next]_vars PROVE IInv'
    OBVIOUS
  <2>1. Once /\ Once'
    BY OnceNext DEF IInv
  <2>2. ASSUME ~ClockSteps, ~SlowStart PROVE InOrder'
    <3>1. InOrder
      BY <2>2 DEF IInv
    <3> QED BY <2>1, <2>2, <3>1, OwnEpochNext, ReplayOrderNext, LinesNext, ShownNext
        DEF InOrder
  <2> QED BY <2>1, <2>2 DEF IInv
<1> QED BY <1>1, <1>2, PTL DEF Spec

\* For any number of processes, committed events, crashes and lost leases: no
\* event is acknowledged that the Host has not displayed, none is displayed
\* twice, and unless the wall clock is set back or an owner loses its lease
\* before it opens the outbox, events are displayed in the order in which they
\* were committed.  This is what adopting pending rows under the new epoch with
\* their delivery ids, and replaying them before anything new, is for.
THEOREM DeliveryInOrder ==
  Spec => []DeliveredInOrder
<1>1. IInv => DeliveredInOrder
  BY DEF IInv, Once, InOrder, DeliveredInOrder
<1> QED BY <1>1, OutboxInvariant, PTL


\* An owner that opens the outbox in time commits under the epoch of its own
\* lease.
THEOREM OneWriter ==
  Spec => [](~ClockSteps /\ ~SlowStart => EpochHasOneWriter)
<1>1. IInv => (~ClockSteps /\ ~SlowStart => EpochHasOneWriter)
  BY DEF IInv, InOrder, OwnEpoch, EpochHasOneWriter
<1> QED BY <1>1, OutboxInvariant, PTL

=============================================================================
