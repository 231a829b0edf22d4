------------------------------ MODULE MessageBus ------------------------------
(* The durable mailboxes of a Run's Agents (solaris-agent, message_bus.rs,   *)
(* with the senders in collaboration_runtime.rs and messages.rs): direct     *)
(* messages and Team broadcasts under a stable id, claims by readers,        *)
(* acknowledgements, draining, the repair of a retried send, and the restore *)
(* from the ledger.  Every operation holds the Run's mutation line.          *)
(*                                                                           *)
(* A message is named by its id and its recipient: a broadcast has one       *)
(* message per recipient under its id.  An append of a type in Faults may    *)
(* report an error after the record became durable (the fault the tests of   *)
(* the bus inject): the record is there and the mailboxes are not changed.   *)
EXTENDS Integers, Sequences, FiniteSets, SequencesExt, TLC

CONSTANTS Agents, Coordinator,
          PeerMessaging,     \* Team.direct_peer_messaging
          DirectIds, BroadcastIds, ClaimIds,
          NoClaim,
          MaxPending,        \* max_pending_messages
          Faults,            \* record types whose append may fail after commit
          MaxRecords         \* bound on the Run's ledger

Messages == [id : DirectIds \cup BroadcastIds, to : Agents]

VARIABLES ledger,
          inboxes,   \* per Agent, its messages in order: [id, acked]
          claims,    \* the claim of each message
          members,   \* the Team's members
          answered   \* ids of the sends and broadcasts that returned Ok

vars == <<ledger, inboxes, claims, members, answered>>

Booted == [inboxes |-> [a \in Agents |-> <<>>], claims |-> [m \in Messages |-> NoClaim]]

Init ==
  /\ ledger = <<>>
  /\ inboxes = Booted.inboxes
  /\ claims = Booted.claims
  /\ members = Agents
  /\ answered = {}

append(r) ==
  /\ Len(ledger) < MaxRecords
  /\ ledger' = Append(ledger, r)

\* The record became durable and the caller got an error.
fault(r) ==
  /\ r.type \in Faults
  /\ append(r)
  /\ UNCHANGED <<inboxes, claims, members, answered>>

Record(type, id, from, to) == [type |-> type, id |-> id, from |-> from, to |-> to]

\* The messages of a record that are for Agent a.
of_agent(r, a) == {m \in r.to : m.to = a}
ids(messages) == {messages[i].id : i \in DOMAIN messages}
unacknowledged(box) == {i \in DOMAIN box : ~box[i].acked}
pending(a) == Cardinality(unacknowledged(inboxes[a]))

push(boxes, a, id) == [boxes EXCEPT ![a] = Append(@, [id |-> id, acked |-> FALSE])]

push_all(boxes, messages) ==
  [a \in Agents |-> IF \E m \in messages : m.to = a
                    THEN Append(boxes[a], [id |-> (CHOOSE m \in messages : m.to = a).id,
                                           acked |-> FALSE])
                    ELSE boxes[a]]

remove(box, gone) == SelectSeq(box, LAMBDA e : e.id \notin gone)

-----------------------------------------------------------------------------
delivery(id) == {i \in DOMAIN ledger : /\ ledger[i].type \in {"delivered", "broadcast"}
                                       /\ ledger[i].id = id}

later(i, type, m) == {j \in DOMAIN ledger : j > i /\ ledger[j].type = type /\ m \in ledger[j].to}

\* Mutant: a repair only looks for the message in the mailbox.
repaired_box_blind(box, i, m) ==
  IF m.id \in ids(box) THEN box ELSE Append(box, [id |-> m.id, acked |-> FALSE])

\* repair_durable_messages for message m of record i: the later acknowledgement,
\* claim and dequeue records decide what the mailbox should hold.
repaired_box(box, i, m) ==
  LET acked == later(i, "acknowledged", m) # {} IN
  IF later(i, "dequeued", m) # {} THEN remove(box, {m.id})
  ELSE IF m.id \in ids(box)
  THEN [k \in DOMAIN box |-> IF box[k].id = m.id THEN [box[k] EXCEPT !.acked = acked] ELSE box[k]]
  ELSE Append(box, [id |-> m.id, acked |-> acked])

repaired_claim(i, m) ==
  LET c == later(i, "claimed", m) IN
  IF c = {} THEN claims[m] ELSE ledger[CHOOSE j \in c : \A k \in c : k <= j].id

\* A repeated id with the same content repairs and returns the durable message.
replay(id, from, to) ==
  \E i \in delivery(id) :
    /\ ledger[i].from = from
    /\ to # {} => ledger[i].to = to
    /\ inboxes' = [a \in Agents |->
         IF of_agent(ledger[i], a) = {} THEN inboxes[a]
         ELSE repaired_box(inboxes[a], i, CHOOSE m \in of_agent(ledger[i], a) : TRUE)]
    /\ claims' = [m \in Messages |-> IF m \in ledger[i].to THEN repaired_claim(i, m) ELSE claims[m]]
    /\ answered' = answered \cup {id}
    /\ UNCHANGED <<ledger, members>>

Sendable(from, to) ==
  /\ {from, to} \subseteq members
  /\ PeerMessaging \/ Coordinator \in {from, to}

\* send_message_with_id
send(id, from, to) ==
  LET r == Record("delivered", id, from, {[id |-> id, to |-> to]}) IN
  \/ replay(id, from, r.to)
  \/ /\ delivery(id) = {} /\ Sendable(from, to) /\ pending(to) < MaxPending
     /\ \/ /\ append(r)
           /\ inboxes' = push(inboxes, to, id)
           /\ answered' = answered \cup {id}
           /\ UNCHANGED <<claims, members>>
        \/ fault(r)

\* broadcast_message_with_id: all the recipients or none.
broadcast(id, from) ==
  LET recipients == members \ {from}
      r == Record("broadcast", id, from, {[id |-> id, to |-> a] : a \in recipients})
  IN
  \/ replay(id, from, {})
  \/ /\ delivery(id) = {} /\ from \in members
     /\ \A a \in recipients : pending(a) + 1 <= MaxPending
     /\ \/ /\ append(r)
           /\ inboxes' = push_all(inboxes, r.to)
           /\ answered' = answered \cup {id}
           /\ UNCHANGED <<claims, members>>
        \/ fault(r)

unclaimed(a) == {[id |-> inboxes[a][i].id, to |-> a] : i \in unacknowledged(inboxes[a])}
                  \ {m \in Messages : claims[m] # NoClaim}

\* Mutant: messages another reader has claimed are claimed again.
claim_everything(a, c) ==
  LET mine == {[id |-> inboxes[a][i].id, to |-> a] : i \in unacknowledged(inboxes[a])} IN
  /\ ~\E i \in DOMAIN ledger : ledger[i].type = "claimed" /\ ledger[i].id = c /\ ledger[i].from = a
  /\ mine # {}
  /\ append(Record("claimed", c, a, mine))
  /\ claims' = [m \in Messages |-> IF m \in mine THEN c ELSE claims[m]]
  /\ UNCHANGED <<inboxes, members, answered>>

\* A repeated claim id returns the messages of its record and changes nothing.
claim(a, c) ==
  LET r == Record("claimed", c, a, unclaimed(a)) IN
  /\ ~\E i \in DOMAIN ledger : ledger[i].type = "claimed" /\ ledger[i].id = c /\ ledger[i].from = a
  /\ r.to # {}
  /\ \/ /\ append(r)
        /\ claims' = [m \in Messages |-> IF m \in r.to THEN c ELSE claims[m]]
        /\ UNCHANGED <<inboxes, members, answered>>
     \/ fault(r)

acknowledge_box(box, id) ==
  [i \in DOMAIN box |-> IF box[i].id = id THEN [box[i] EXCEPT !.acked = TRUE] ELSE box[i]]

acknowledge(a, id) ==
  LET r == Record("acknowledged", id, a, {[id |-> id, to |-> a]}) IN
  /\ \E i \in unacknowledged(inboxes[a]) : inboxes[a][i].id = id
  /\ \/ /\ append(r)
        /\ inboxes' = [inboxes EXCEPT ![a] = acknowledge_box(@, id)]
        /\ UNCHANGED <<claims, members, answered>>
     \/ fault(r)

\* drain takes the claimed and the acknowledged messages too.
drain(a) ==
  LET r == Record("dequeued", NoClaim, a, {[id |-> i, to |-> a] : i \in ids(inboxes[a])}) IN
  /\ r.to # {}
  /\ \/ /\ append(r)
        /\ inboxes' = [inboxes EXCEPT ![a] = <<>>]
        /\ UNCHANGED <<claims, members, answered>>
     \/ fault(r)

\* An Agent leaves the Team (its spawn is cancelled).
leave(a) ==
  /\ a \in members \ {Coordinator}
  /\ members' = members \ {a}
  /\ UNCHANGED <<ledger, inboxes, claims, answered>>

-----------------------------------------------------------------------------
restore_message(box, id) ==
  IF id \in ids(box) THEN box ELSE Append(box, [id |-> id, acked |-> FALSE])

restore_boxes(p, r) ==
  [a \in Agents |->
     IF of_agent(r, a) = {} THEN p.inboxes[a]
     ELSE CASE r.type \in {"delivered", "broadcast"} -> restore_message(p.inboxes[a], r.id)
            [] r.type = "acknowledged" -> acknowledge_box(p.inboxes[a], r.id)
            [] r.type = "dequeued" -> remove(p.inboxes[a], {m.id : m \in of_agent(r, a)})
            [] r.type = "claimed" -> p.inboxes[a]]

\* Mutant: dequeue records are not replayed.
restore_record_keeping_dequeued(p, r) ==
  IF r.type = "dequeued" THEN p
  ELSE [inboxes |-> restore_boxes(p, r),
        claims |-> IF r.type = "claimed"
                   THEN [m \in Messages |-> IF m \in r.to THEN r.id ELSE p.claims[m]]
                   ELSE p.claims]

restore_record(p, r) ==
  [inboxes |-> restore_boxes(p, r),
   claims |-> IF r.type = "claimed"
              THEN [m \in Messages |-> IF m \in r.to THEN r.id ELSE p.claims[m]]
              ELSE p.claims]

restore_projection_from(p) == FoldLeft(restore_record, p, ledger)

Restore(p) ==
  LET q == restore_projection_from(p) IN
  /\ inboxes' = q.inboxes
  /\ claims' = q.claims
  /\ UNCHANGED <<ledger, members, answered>>

Restart == Restore(Booted)

\* Over the live mailboxes.
restore_projection == Restore([inboxes |-> inboxes, claims |-> claims])

Next ==
  \/ \E d \in DirectIds, from \in Agents, to \in Agents : send(d, from, to)
  \/ \E b \in BroadcastIds, from \in Agents : broadcast(b, from)
  \/ \E a \in Agents : \/ drain(a) \/ leave(a)
                       \/ \E c \in ClaimIds : claim(a, c)
                       \/ \E id \in DirectIds \cup BroadcastIds : acknowledge(a, id)
  \/ Restart \/ restore_projection

Spec == Init /\ [][Next]_vars

-----------------------------------------------------------------------------
\* No mailbox holds a message twice.
TypeOK ==
  /\ Len(ledger) <= MaxRecords
  /\ \A a \in Agents : /\ ids(inboxes[a]) \subseteq DirectIds \cup BroadcastIds
                       /\ Cardinality(ids(inboxes[a])) = Len(inboxes[a])
  /\ claims \in [Messages -> ClaimIds \cup {NoClaim}]
  /\ members \subseteq Agents /\ Coordinator \in members
  /\ answered \subseteq DirectIds \cup BroadcastIds

\* What a restart rebuilds from the records is what was live, the order of each
\* mailbox and the claims included, as long as no append failed half way.
RestoreMatchesLive ==
  Faults = {} => restore_projection_from(Booted) = [inboxes |-> inboxes, claims |-> claims]

Consumed(m) == \E i \in DOMAIN ledger : /\ ledger[i].type \in {"acknowledged", "dequeued"}
                                        /\ m \in ledger[i].to
Pending(m) == \E i \in unacknowledged(inboxes[m.to]) : inboxes[m.to][i].id = m.id

\* No retry, repair, restart or live restore delivers a message again that its
\* recipient has acknowledged or taken out.
NoRedelivery == \A m \in Messages : Consumed(m) => ~Pending(m)

\* "durable_send_and_broadcast_replay_repair_missing_projection": when a send
\* or broadcast has returned Ok, if need be at its second attempt, each of its
\* mailboxes holds what a restart would give, acknowledgement and claim too.
AnsweredIsDelivered ==
  LET p == restore_projection_from(Booted)
      entries(boxes, m) == {boxes[m.to][i] : i \in {k \in DOMAIN boxes[m.to] : boxes[m.to][k].id = m.id}}
  IN \A m \in Messages : m.id \in answered =>
       /\ entries(inboxes, m) = entries(p.inboxes, m)
       /\ claims[m] = p.claims[m]

\* "concurrent_claims_deliver_each_message_to_only_one_operation": no message
\* is in the durable claims of two readers.
ClaimedByOne ==
  \A i, j \in DOMAIN ledger :
    ledger[i].type = "claimed" /\ ledger[j].type = "claimed" /\ i # j
      => ledger[i].to \cap ledger[j].to = {}

\* ReadAgentMessages reads the mailbox "without consuming messages": what is
\* in it unacknowledged is there for the next read.
ReadKeepsMessages == \A m \in Messages : Pending(m) => claims[m] = NoClaim
=============================================================================
