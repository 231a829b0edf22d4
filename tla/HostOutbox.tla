------------------------------ MODULE HostOutbox ------------------------------
(* Durable delivery of one session's events to its Host: the outbox table     *)
(* (solaris-agent, session/store_outbox.rs, host_outbox.rs), the emitter that *)
(* writes envelopes to standard output (solaris-cli, json_stream/outbox.rs)   *)
(* and the Host's durable inbox, which the protocol document describes.       *)
(* Every Solaris process of the session is started once, takes the session's  *)
(* lease, opens the outbox and has a pipe of its own to the Host and back; a  *)
(* process that died is replaced by the next one.                             *)
(*                                                                            *)
(* An event is its number in the order of commitment.  The emitter's delivery *)
(* lock makes enqueue and write one step to other events, not to a crash.     *)
EXTENDS Integers, Sequences, FiniteSets, Functions

CONSTANTS Procs,       \* processes, numbered in the order they start
          NoProc,
          MaxEvents,   \* bound on committed events, each Ready included
          MaxFaults,   \* bound on crashes and lost leases
          ClockSteps,  \* the wall clock may be set back
          SlowStart    \* a lease may be lost before the outbox is opened

ASSUME ProcsAssumption == Procs \subseteq Nat /\ NoProc \notin Procs
ASSUME BoundsAssumption == MaxEvents \in Nat /\ MaxFaults \in Nat
ASSUME ScenarioAssumption == ClockSteps \in BOOLEAN /\ SlowStart \in BOOLEAN

VARIABLES clock,      \* wall-clock time of the next commit
          lease,      \* owner, epoch and whether it is unexpired
          rows,       \* event -> its row of host_outbox
          proc,       \* process -> where it is in the JSON stream session
          wire,       \* process -> envelopes written and not yet read
          acks,       \* process -> acknowledgements sent and not yet read
          recorded,   \* delivery ids in the Host's durable inbox
          displayed,  \* events the Host displayed, in order
          faults

vars == <<clock, lease, rows, proc, wire, acks, recorded, displayed, faults>>
host == <<recorded, displayed>>

New == [pc |-> "new", held |-> 0, epoch |-> 0, replay |-> <<>>]

Init ==
  /\ clock = 0
  /\ lease = [owner |-> NoProc, epoch |-> 0, live |-> FALSE]
  /\ rows = <<>>
  /\ proc = [p \in Procs |-> New]
  /\ wire = [p \in Procs |-> <<>>]
  /\ acks = [p \in Procs |-> <<>>]
  /\ recorded = {} /\ displayed = <<>>
  /\ faults = 0

-----------------------------------------------------------------------------
\* The session lease: load_active_with_clock takes a free or expired lease.
load_active(p) ==
  /\ proc[p].pc = "new" /\ \A q \in Procs : q < p => proc[q].pc # "new"
  /\ ~lease.live
  /\ lease' = [owner |-> p, epoch |-> lease.epoch + 1, live |-> TRUE]
  /\ proc' = [proc EXCEPT ![p] = [@ EXCEPT !.pc = "leased", !.held = lease.epoch + 1]]
  /\ UNCHANGED <<clock, rows, wire, acks, host, faults>>

\* The session must have an unexpired lease of the outbox's epoch; whose it is
\* is not compared.
require_host_outbox_epoch(p) == lease.live /\ lease.epoch = proc[p].epoch

\* Rows the Host has not acknowledged, of any epoch.
Pending == {n \in 1..Len(rows) : ~rows[n].acked}

\* ORDER BY created_at_ms, run_epoch, sequence.
Before(m, n) ==
  \/ rows[m].created < rows[n].created
  \/ rows[m].created = rows[n].created /\ rows[m].epoch < rows[n].epoch
  \/ rows[m].created = rows[n].created /\ rows[m].epoch = rows[n].epoch
     /\ rows[m].seq < rows[n].seq

query_pending_deliveries(S) ==
  CHOOSE s \in [1..Cardinality(S) -> S] :
    \A i, j \in 1..Cardinality(S) : i < j => Before(s[i], s[j])

Sequences(e, S) == {rows[n].seq : n \in {k \in S : rows[k].epoch = e}}
After(Q) == IF Q = {} THEN 0 ELSE 1 + CHOOSE q \in Q : \A r \in Q : r <= q
next_sequence(e) == After(Sequences(e, 1..Len(rows)))

\* Mutant: adoption draws new delivery ids.
adopt_with_new_ids(e) ==
  LET order == query_pending_deliveries(Pending)
      place(n) == CHOOSE i \in 1..Len(order) : order[i] = n
  IN  [n \in 1..Len(rows) |->
         IF n \in Pending THEN [rows[n] EXCEPT !.epoch = e, !.seq = place(n) - 1,
                                               !.id = MaxEvents * e + n]
         ELSE rows[n]]

\* Unless every pending row has the epoch already, all of them are numbered
\* afresh under it, after the acknowledged rows of that epoch.
adopt_pending_deliveries(e) ==
  LET order == query_pending_deliveries(Pending)
      place(n) == CHOOSE i \in 1..Len(order) : order[i] = n
      base == After(Sequences(e, 1..Len(rows) \ Pending))
  IN  IF \A n \in Pending : rows[n].epoch = e THEN rows
      ELSE [n \in 1..Len(rows) |->
              IF n \in Pending
              THEN [rows[n] EXCEPT !.epoch = e, !.seq = base + place(n) - 1]
              ELSE rows[n]]

\* open_host_outbox is given the session and the Run, not the lease: it works
\* under whatever epoch is current.
prepare_host_outbox(p) ==
  /\ proc[p].pc = "leased"
  /\ lease.live
  /\ rows' = adopt_pending_deliveries(lease.epoch)
  /\ proc' = [proc EXCEPT ![p] = [@ EXCEPT !.pc = "opened", !.epoch = lease.epoch]]
  /\ UNCHANGED <<clock, lease, wire, acks, host, faults>>

\* Mutant: the pending rows are not sent again.
start_without_replay(p) ==
  /\ proc[p].pc = "opened"
  /\ require_host_outbox_epoch(p)
  /\ proc' = [proc EXCEPT ![p].pc = "replay"]
  /\ UNCHANGED <<clock, lease, rows, wire, acks, host, faults>>

\* Mutant: the newest pending row is sent first.
replay_newest_first(p) ==
  LET order == query_pending_deliveries({n \in Pending : rows[n].epoch = proc[p].epoch})
  IN  /\ proc[p].pc = "opened"
      /\ require_host_outbox_epoch(p)
      /\ proc' = [proc EXCEPT ![p] = [@ EXCEPT !.pc = "replay",
                    !.replay = [i \in 1..Len(order) |-> order[Len(order) + 1 - i]]]]
      /\ UNCHANGED <<clock, lease, rows, wire, acks, host, faults>>

\* activate_and_start_session: the transport-only Ready, then the pending rows.
pending_host_deliveries(p) ==
  /\ proc[p].pc = "opened"
  /\ require_host_outbox_epoch(p)
  /\ proc' = [proc EXCEPT ![p] = [@ EXCEPT !.pc = "replay",
                !.replay = query_pending_deliveries(
                  {n \in Pending : rows[n].epoch = proc[p].epoch})]]
  /\ UNCHANGED <<clock, lease, rows, wire, acks, host, faults>>

\* The delivery as it was read, under the process's own epoch.
Envelope(p, n) == [id |-> rows[n].id, event |-> n, epoch |-> proc[p].epoch]

\* emit_delivery of the next row to replay, or of the row just committed.
emit_delivery(p) ==
  /\ proc[p].pc \in {"replay", "emit"}
  /\ proc[p].replay # <<>>
  /\ wire' = [wire EXCEPT ![p] = Append(@, Envelope(p, Head(proc[p].replay)))]
  /\ proc' = [proc EXCEPT ![p] = [@ EXCEPT !.replay = Tail(proc[p].replay),
                 !.pc = IF proc[p].pc = "emit" THEN "idle" ELSE proc[p].pc]]
  /\ UNCHANGED <<clock, lease, rows, acks, host, faults>>

\* Ready once the replay is done, any other event afterwards.
enqueue_host_delivery(p) ==
  /\ proc[p].pc \in {"replay", "idle"} /\ proc[p].replay = <<>>
  /\ Len(rows) < MaxEvents
  /\ require_host_outbox_epoch(p)
  /\ rows' = Append(rows, [id |-> Len(rows) + 1, epoch |-> proc[p].epoch,
                           seq |-> next_sequence(proc[p].epoch),
                           created |-> clock, acked |-> FALSE, by |-> p])
  /\ proc' = [proc EXCEPT ![p] = [@ EXCEPT !.pc = "emit", !.replay = <<Len(rows) + 1>>]]
  /\ UNCHANGED <<clock, lease, wire, acks, host, faults>>

\* A store error is remembered and ends the session at the next safe point.
remember_failure(p) ==
  /\ proc[p].pc \in {"opened", "replay", "idle"}
  /\ ~require_host_outbox_epoch(p)
  /\ proc' = [proc EXCEPT ![p] = [@ EXCEPT !.pc = "dead"]]
  /\ UNCHANGED <<clock, lease, rows, wire, acks, host, faults>>

\* Accepted for the current epoch and a row of it, once; a stale or unknown
\* one is rejected and changes nothing.
acknowledge_host_delivery(p) ==
  /\ proc[p].pc \in {"idle", "emit"} /\ acks[p] # <<>>
  /\ LET a == Head(acks[p])
         accepted == require_host_outbox_epoch(p) /\ a.epoch = proc[p].epoch
     IN  rows' = [n \in 1..Len(rows) |->
                    IF accepted /\ rows[n].id = a.id /\ rows[n].epoch = a.epoch
                    THEN [rows[n] EXCEPT !.acked = TRUE] ELSE rows[n]]
  /\ acks' = [acks EXCEPT ![p] = Tail(@)]
  /\ UNCHANGED <<clock, lease, proc, wire, host, faults>>

\* A clean end releases the lease.
release(p) ==
  /\ proc[p].pc = "idle"
  /\ lease.owner = p /\ lease.live
  /\ lease' = [lease EXCEPT !.owner = NoProc, !.live = FALSE]
  /\ proc' = [proc EXCEPT ![p] = [@ EXCEPT !.pc = "dead"]]
  /\ UNCHANGED <<clock, rows, wire, acks, host, faults>>

-----------------------------------------------------------------------------
\* The Host records the delivery id before it displays the event, suppresses a
\* recorded one and acknowledges either (json-stream-protocol.md).
HostReceives(p) ==
  /\ wire[p] # <<>>
  /\ LET m == Head(wire[p])
     IN  /\ recorded' = recorded \cup {m.id}
         /\ displayed' = IF m.id \in recorded THEN displayed
                         ELSE Append(displayed, m.event)
         /\ acks' = [acks EXCEPT ![p] = Append(@, [id |-> m.id, epoch |-> m.epoch])]
  /\ wire' = [wire EXCEPT ![p] = Tail(@)]
  /\ UNCHANGED <<clock, lease, rows, proc, faults>>

\* The process dies; what it wrote may still be read or may be gone.
Crash(p) ==
  /\ proc[p].pc \notin {"new", "dead"} /\ faults < MaxFaults
  /\ faults' = faults + 1
  /\ proc' = [proc EXCEPT ![p] = [@ EXCEPT !.pc = "dead"]]
  /\ acks' = [acks EXCEPT ![p] = <<>>]
  /\ \/ wire' = [wire EXCEPT ![p] = <<>>]
     \/ UNCHANGED wire
  /\ UNCHANGED <<clock, lease, rows, host>>

ExpireDead ==
  /\ lease.live /\ proc[lease.owner].pc = "dead"
  /\ lease' = [lease EXCEPT !.live = FALSE]
  /\ UNCHANGED <<clock, rows, proc, wire, acks, host, faults>>

\* A suspended process misses its heartbeats and goes on afterwards.
ExpireSuspended ==
  /\ lease.live /\ proc[lease.owner].pc # "dead"
  /\ proc[lease.owner].pc = "leased" => SlowStart
  /\ faults < MaxFaults
  /\ faults' = faults + 1
  /\ lease' = [lease EXCEPT !.live = FALSE]
  /\ UNCHANGED <<clock, rows, proc, wire, acks, host>>

Tick ==
  /\ clock < 1
  /\ clock' = 1
  /\ UNCHANGED <<lease, rows, proc, wire, acks, host, faults>>

StepClockBack ==
  /\ ClockSteps /\ clock = 1
  /\ clock' = 0
  /\ UNCHANGED <<lease, rows, proc, wire, acks, host, faults>>

ProcStep(p) ==
  \/ load_active(p) \/ prepare_host_outbox(p) \/ pending_host_deliveries(p)
  \/ emit_delivery(p) \/ remember_failure(p)

Next ==
  \/ \E p \in Procs :
       \/ ProcStep(p) \/ enqueue_host_delivery(p)
       \/ acknowledge_host_delivery(p)
       \/ release(p) \/ HostReceives(p) \/ Crash(p)
  \/ ExpireDead \/ ExpireSuspended \/ Tick \/ StepClockBack

Spec == Init /\ [][Next]_vars

-----------------------------------------------------------------------------
TypeOK ==
  /\ lease.owner \in Procs \cup {NoProc} /\ lease.epoch \in 0..Cardinality(Procs)
  /\ Len(rows) \in 0..MaxEvents
  /\ \A n \in 1..Len(rows) : /\ rows[n].epoch \in 1..lease.epoch
                             /\ rows[n].seq \in 0..MaxEvents
  /\ \A p \in Procs :
       /\ proc[p].pc \in {"new", "leased", "opened", "replay", "emit", "idle", "dead"}
       /\ proc[p].epoch \in 0..lease.epoch
  /\ faults \in 0..MaxFaults

\* A delivery is acknowledged only after the Host has recorded it: whatever is
\* lost, delayed or repeated, no committed event is given up undisplayed.
AckedIsRecorded ==
  \A n \in 1..Len(rows) : rows[n].acked => n \in Range(displayed)

\* An event is displayed once, however often it is sent again: adoption by the
\* next owner keeps its delivery id.
DisplayedOnce ==
  \A i, j \in 1..Len(displayed) : displayed[i] = displayed[j] => i = j

\* The Host displays events in the order they were committed, across crashes,
\* replays and takeovers: Mesh then replays pending envelopes in committed
\* sequence order.
DisplayOrder ==
  \A i, j \in 1..Len(displayed) : i < j => displayed[i] < displayed[j]

\* Delivery is exactly once to the display: an event is acknowledged only after
\* the Host has recorded and displayed it, and none is displayed twice, whatever
\* is lost, late, sent again or adopted by the next owner of the session.  Events
\* are displayed in the order they were committed, as long as the wall clock that
\* orders the replay is not set back and an owner opens the outbox before it
\* loses its lease.
DeliveredInOrder ==
  /\ AckedIsRecorded /\ DisplayedOnce
  /\ ~ClockSteps /\ ~SlowStart => DisplayOrder

\* An epoch has one writer: the new owner adopts pending events into the current
\* run epoch, and an event committed under an epoch comes from the process that
\* was given that epoch.
EpochHasOneWriter ==
  \A p \in Procs : proc[p].epoch # 0 => proc[p].epoch = proc[p].held

\* A committed event is displayed in the end, as long as a process of the
\* session is left to be started after the last fault.
Committed(n) == Len(rows) >= n
CanStart == \E p \in Procs : proc[p].pc # "dead"
EventuallyDisplayed ==
  [](\A n \in 1..MaxEvents :
       Committed(n) => <>(n \in Range(displayed) \/ ~CanStart))
=============================================================================
