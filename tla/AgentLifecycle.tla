--------------------------- MODULE AgentLifecycle ---------------------------
(* The durable life cycle of child Agents and their Team membership          *)
(* (solaris-agent, collaboration_runtime.rs and collaboration_runtime/).     *)
(* Every operation takes the Run's mutation line, appends one ledger record  *)
(* and then changes the in-memory registries, so it is one action.  A crash  *)
(* loses the registries; restore_projection rebuilds them from the records.  *)
(*                                                                           *)
(* A child Agent is named by its stable key (role and task key); a spawn     *)
(* operation of that child is an attempt number.  held is the set of         *)
(* AgentSpawnReservations some caller still owns: any of them may be used at *)
(* any time and in any order by joins, guards, cancellations and retries.    *)
EXTENDS Integers, Sequences, FiniteSets, SequencesExt

CONSTANTS Children,    \* stable child identities
          Root,        \* the parent and coordinator Agent, always registered
          Teams, NoTeam,
          Attempts,    \* spawn operation ids of one child
          MaxRecords   \* bound on the Run's ledger

NoAttempt == 0
Agents == Children \cup {Root}
States == {"Reserved", "Active", "Idle", "Completed", "Failed", "Cancelled"}

VARIABLES ledger,     \* the Run's records, oldest first
          agents,     \* AgentRegistry: state and Team of every Agent
          relation,   \* AgentRelationshipStore: the operation bound to a child
          teams,      \* TeamRegistry: the Teams created so far
          members,    \* TeamRegistry: the members of each Team
          held        \* reservations in the hands of callers

projection == <<agents, relation, teams, members>>
vars == <<ledger, agents, relation, teams, members, held>>

agent_state_is_terminal(s) == s \in {"Completed", "Failed", "Cancelled"}

Missing == [state |-> "Missing", team |-> NoTeam]
known(c) == agents[c].state # "Missing"

Booted == [agents |-> [a \in Agents |-> IF a = Root
                         THEN [state |-> "Active", team |-> NoTeam] ELSE Missing],
           relation |-> [c \in Children |-> NoAttempt],
           teams |-> {},
           members |-> [t \in Teams |-> {}],
           ok |-> TRUE]

Init ==
  /\ ledger = <<>>
  /\ agents = Booted.agents
  /\ relation = Booted.relation
  /\ teams = Booted.teams
  /\ members = Booted.members
  /\ held = {}

-----------------------------------------------------------------------------
\* Ledger records: what the replay reads of each payload.
Record(type, c, n, t, s) ==
  [type |-> type, child |-> c, op |-> n, team |-> t, state |-> s, who |-> {}]
JoinRecord(type, t, who) ==
  [type |-> type, child |-> Root, op |-> NoAttempt, team |-> t,
   state |-> "Active", who |-> who]

append(r) ==
  /\ Len(ledger) < MaxRecords
  /\ ledger' = Append(ledger, r)

recorded(type, c, n) ==
  \E i \in DOMAIN ledger : /\ ledger[i].type = type
                           /\ ledger[i].child = c /\ ledger[i].op = n

Reservation(c, n, re) == [child |-> c, op |-> n, reattached |-> re]

\* The relationship is looked up without the operation id; a failed child may
\* be bound to a new operation, any other state refuses it.
reserve_retry(c, n) ==
  /\ relation[c] \notin {NoAttempt, n}
  /\ agents[c].state = "Failed"
  /\ append(Record("retry_started", c, n, NoTeam, "Active"))
  /\ relation' = [relation EXCEPT ![c] = n]
  /\ agents' = [agents EXCEPT ![c].state = "Active"]
  /\ held' = held \cup {Reservation(c, n, TRUE)}
  /\ UNCHANGED <<teams, members>>

reserve_existing(c, n) ==
  /\ known(c)
  /\ relation[c] \in {NoAttempt, n}
  /\ held' = held \cup {Reservation(c, n, relation[c] = n)}
  /\ UNCHANGED <<ledger, projection>>

reserve_fresh(c, n) ==
  /\ relation[c] = NoAttempt /\ ~known(c)
  /\ append(Record("intent", c, n, NoTeam, "Reserved"))
  /\ agents' = [agents EXCEPT ![c] = [state |-> "Reserved", team |-> NoTeam]]
  /\ held' = held \cup {Reservation(c, n, FALSE)}
  /\ UNCHANGED <<relation, teams, members>>

reserve_spawn_typed(c, n) ==
  reserve_retry(c, n) \/ reserve_existing(c, n) \/ reserve_fresh(c, n)

commit_spawn(r) ==
  /\ ~r.reattached
  /\ relation[r.child] = NoAttempt
  /\ agents[r.child].state = "Reserved"
  /\ append(Record("committed", r.child, r.op, NoTeam, "Active"))
  /\ relation' = [relation EXCEPT ![r.child] = r.op]
  /\ agents' = [agents EXCEPT ![r.child].state = "Active"]
  /\ UNCHANGED <<teams, members, held>>

\* Mutant: the outcome recorded before is not looked for.
record_agent_outcome_again(r, s) ==
  /\ known(r.child)
  /\ agent_state_is_terminal(agents[r.child].state) => agents[r.child].state = s
  /\ append(Record("outcome", r.child, r.op, NoTeam, s))
  /\ agents' = [agents EXCEPT ![r.child].state = s]
  /\ UNCHANGED <<relation, teams, members, held>>

\* s is outcome_agent_state of the result.
record_agent_outcome(r, s) ==
  /\ ~recorded("outcome", r.child, r.op)
  /\ known(r.child)
  /\ agent_state_is_terminal(agents[r.child].state) => agents[r.child].state = s
  /\ append(Record("outcome", r.child, r.op, NoTeam, s))
  /\ agents' = [agents EXCEPT ![r.child].state = s]
  /\ UNCHANGED <<relation, teams, members, held>>

\* Called for the Agents of conversations, once their spawn is committed.
set_agent_state(c, s) ==
  /\ known(c) /\ relation[c] # NoAttempt
  /\ agents[c].state # s
  /\ ~agent_state_is_terminal(agents[c].state)
  /\ append(Record("state_changed", c, NoAttempt, NoTeam, s))
  /\ agents' = [agents EXCEPT ![c].state = s]
  /\ UNCHANGED <<relation, teams, members, held>>

leave(t, c) == IF t = NoTeam THEN members
               ELSE [members EXCEPT ![t] = @ \ {c}]

cancel_spawn_within_mutation(r) ==
  /\ known(r.child)
  /\ ~agent_state_is_terminal(agents[r.child].state)
  /\ append(Record("cancelled", r.child, r.op, agents[r.child].team, "Cancelled"))
  /\ members' = leave(agents[r.child].team, r.child)
  /\ agents' = [agents EXCEPT ![r.child] = [state |-> "Cancelled", team |-> NoTeam]]
  /\ UNCHANGED <<relation, teams, held>>

\* A child without a relationship is removed whatever its state is.
abort_reserved(r) ==
  /\ relation[r.child] = NoAttempt
  /\ known(r.child)
  /\ append(Record("aborted", r.child, r.op, agents[r.child].team, "Missing"))
  /\ members' = leave(agents[r.child].team, r.child)
  /\ agents' = [agents EXCEPT ![r.child] = Missing]
  /\ UNCHANGED <<relation, teams, held>>

\* A failed reattachment is recorded once and changes nothing else; an abort
\* that finds the spawn committed cancels it.
abort_spawn(r) ==
  \/ /\ r.reattached
     /\ ~recorded("reattach_failed", r.child, r.op)
     /\ append(Record("reattach_failed", r.child, r.op, NoTeam, "Active"))
     /\ UNCHANGED <<projection, held>>
  \/ /\ ~r.reattached
     /\ relation[r.child] # NoAttempt
     /\ cancel_spawn_within_mutation(r)
  \/ /\ ~r.reattached
     /\ abort_reserved(r)

cancel_spawn(r) == cancel_spawn_within_mutation(r)

-----------------------------------------------------------------------------
\* Teams.  No Agent of another Team may join through these two.
free_for(t, who) == \A a \in who : agents[a].team \in {NoTeam, t}

join_all(t, who) ==
  /\ members' = [members EXCEPT ![t] = @ \cup who]
  /\ agents' = [a \in Agents |-> IF a \in who THEN [agents[a] EXCEPT !.team = t]
                                              ELSE agents[a]]

prepare_collaboration_team(t) ==
  /\ free_for(t, {Root})
  /\ ~(t \in teams /\ Root \in members[t])
  /\ append(JoinRecord("team_prepared", t, {Root}))
  /\ teams' = teams \cup {t}
  /\ join_all(t, {Root})
  /\ UNCHANGED <<relation, held>>

\* The admission drops a batch record whose payload the Run already holds.
append_batch(t, who) ==
  LET r == JoinRecord("batch_prepared", t, who) IN
  IF \E i \in DOMAIN ledger : ledger[i] = r THEN UNCHANGED ledger ELSE append(r)

prepare_collaboration_membership(c, t) ==
  /\ known(c) /\ free_for(t, {Root, c})
  /\ ~(t \in teams /\ {Root, c} \subseteq members[t])
  /\ append_batch(t, {Root, c})
  /\ teams' = teams \cup {t}
  /\ join_all(t, {Root, c})
  /\ UNCHANGED <<relation, held>>

\* The batch of several handles does not look at the Agents' present Team.
prepare_spawn_batch(who, t) ==
  /\ \A c \in who : known(c)
  /\ append_batch(t, who \cup {Root})
  /\ teams' = teams \cup {t}
  /\ join_all(t, who \cup {Root})
  /\ UNCHANGED <<relation, held>>

create_collaboration_team(t) ==
  /\ t \notin teams
  /\ append(JoinRecord("team_created", t, {}))
  /\ teams' = teams \cup {t}
  /\ UNCHANGED <<agents, relation, members, held>>

join_team(a, t) ==
  /\ t \in teams /\ known(a) /\ a \notin members[t]
  /\ append(JoinRecord("member_joined", t, {a}))
  /\ join_all(t, {a})
  /\ UNCHANGED <<relation, teams, held>>

-----------------------------------------------------------------------------
\* restore_projection: one record applied to a projection p.
set_state(p, c, s) ==
  IF p.agents[c].state = "Missing" THEN p ELSE [p EXCEPT !.agents[c].state = s]

restore_leave(p, r) ==
  IF r.team = NoTeam THEN p ELSE [p EXCEPT !.members[r.team] = @ \ {r.child}]

restore_committed(p, r) ==
  LET q == [p EXCEPT !.relation[r.child] = r.op] IN
  IF q.agents[r.child].state = "Missing"
  THEN [q EXCEPT !.agents[r.child] = [state |-> "Active", team |-> NoTeam]]
  ELSE IF agent_state_is_terminal(q.agents[r.child].state) THEN q
  ELSE set_state(q, r.child, "Active")

restore_cancelled(p, r) ==
  LET q == restore_leave(p, r) IN
  IF q.agents[r.child].state = "Missing" THEN q
  ELSE [q EXCEPT !.agents[r.child] =
          [state |-> "Cancelled",
           team |-> IF r.team = NoTeam THEN @.team ELSE NoTeam]]

\* Memberships of an Agent the replay does not know fail the restore.
restore_batch(p, r) ==
  IF \E a \in r.who : p.agents[a].state = "Missing"
  THEN [p EXCEPT !.ok = FALSE]
  ELSE [p EXCEPT !.teams = @ \cup {r.team}, !.members[r.team] = @ \cup r.who,
                 !.agents = [a \in Agents |-> IF a \in r.who
                              THEN [@[a] EXCEPT !.team = r.team] ELSE @[a]]]

\* The Team shell takes the same checks and joins as the full batch.
restore_team_prepared(p, r) == restore_batch(p, r)

restore_joined(p, r) ==
  LET a == CHOOSE x \in r.who : TRUE IN
  [p EXCEPT !.members[r.team] = IF r.team \in p.teams THEN @ \cup {a} ELSE @,
            !.agents[a].team = IF p.agents[a].state = "Missing" THEN @ ELSE r.team]

\* Mutant: an aborted spawn stays in the Agent registry.
restore_record_keeps_aborted(p, r) ==
  CASE r.type = "intent" ->
         [p EXCEPT !.agents[r.child] = [state |-> "Reserved", team |-> NoTeam]]
    [] r.type = "committed" -> restore_committed(p, r)
    [] r.type = "retry_started" ->
         set_state([p EXCEPT !.relation[r.child] = r.op], r.child, "Active")
    [] r.type \in {"outcome", "state_changed"} -> set_state(p, r.child, r.state)
    [] r.type = "cancelled" -> restore_cancelled(p, r)
    [] r.type = "aborted" -> restore_leave(p, r)
    [] r.type = "team_prepared" -> restore_team_prepared(p, r)
    [] r.type = "batch_prepared" -> restore_batch(p, r)
    [] r.type = "team_created" -> [p EXCEPT !.teams = @ \cup {r.team}]
    [] r.type = "member_joined" -> restore_joined(p, r)
    [] OTHER -> p

restore_record(p, r) ==
  CASE r.type = "intent" ->
         [p EXCEPT !.agents[r.child] = [state |-> "Reserved", team |-> NoTeam]]
    [] r.type = "committed" -> restore_committed(p, r)
    [] r.type = "retry_started" ->
         set_state([p EXCEPT !.relation[r.child] = r.op], r.child, "Active")
    [] r.type \in {"outcome", "state_changed"} -> set_state(p, r.child, r.state)
    [] r.type = "cancelled" -> restore_cancelled(p, r)
    [] r.type = "aborted" -> restore_leave([p EXCEPT !.agents[r.child] = Missing], r)
    [] r.type = "team_prepared" -> restore_team_prepared(p, r)
    [] r.type = "batch_prepared" -> restore_batch(p, r)
    [] r.type = "team_created" -> [p EXCEPT !.teams = @ \cup {r.team}]
    [] r.type = "member_joined" -> restore_joined(p, r)
    [] OTHER -> p  \* agent_reattach_failed is not replayed

\* The first error ends the restore.
restore_projection_from(p) ==
  LET step(q, r) == IF q.ok THEN restore_record(q, r) ELSE q
  IN FoldLeft(step, p, ledger)

Published(p) ==
  /\ agents' = p.agents /\ relation' = p.relation
  /\ teams' = p.teams /\ members' = p.members

\* A restart: the registries are lost, and so is every reservation that a later
\* cancellation cannot rebuild from a durable AgentHandle.
Restart ==
  /\ Published(restore_projection_from(Booted))
  /\ held' = {r \in held : ~r.reattached}
  /\ UNCHANGED ledger

\* A conversation or a spawn recovery restores over the live registries.
restore_projection ==
  /\ Published(restore_projection_from(
       [agents |-> agents, relation |-> relation, teams |-> teams,
        members |-> members, ok |-> TRUE]))
  /\ UNCHANGED <<ledger, held>>

\* Callers record an outcome after the commit, or after their cancel_spawn.
Next ==
  \/ \E c \in Children, n \in Attempts : reserve_spawn_typed(c, n)
  \/ \E r \in held :
       \/ commit_spawn(r) \/ abort_spawn(r) \/ cancel_spawn(r)
       \/ \E s \in {"Completed", "Failed", "Cancelled"} :
            /\ relation[r.child] # NoAttempt \/ agents[r.child].state = "Cancelled"
            /\ record_agent_outcome(r, s)
  \/ \E c \in Children, s \in States \ {"Reserved"} : set_agent_state(c, s)
  \/ \E t \in Teams :
       \/ prepare_collaboration_team(t) \/ create_collaboration_team(t)
       \/ \E a \in Agents : join_team(a, t)
       \/ \E c \in Children : prepare_collaboration_membership(c, t)
       \/ \E who \in SUBSET Children \ {{}} : prepare_spawn_batch(who, t)
  \/ Restart \/ restore_projection

Spec == Init /\ [][Next]_vars

-----------------------------------------------------------------------------
TypeOK ==
  /\ Len(ledger) <= MaxRecords
  /\ agents \in [Agents -> [state : States \cup {"Missing"}, team : Teams \cup {NoTeam}]]
  /\ relation \in [Children -> Attempts \cup {NoAttempt}]
  /\ teams \subseteq Teams
  /\ members \in [Teams -> SUBSET Agents]
  /\ held \subseteq [child : Children, op : Attempts, reattached : BOOLEAN]

Restored == restore_projection_from(Booted)

HasLeft(a) ==
  \E i \in DOMAIN ledger : /\ ledger[i].type \in {"cancelled", "aborted"}
                           /\ ledger[i].child = a /\ ledger[i].team # NoTeam

\* A restart rebuilds what the live registries hold, after every interleaving
\* of spawns, aborts, cancellations, retries and restores: the restore succeeds,
\* every Agent's state and relationship and every Team agree, and so does the
\* membership of every Agent that has not left its Team.
RestoreMatchesLive ==
  LET p == Restored IN
  /\ p.ok
  /\ p.relation = relation /\ p.teams = teams
  /\ \A a \in Agents :
       /\ p.agents[a].state = agents[a].state
       /\ HasLeft(a) \/ /\ p.agents[a].team = agents[a].team
                        /\ \A t \in Teams : a \in p.members[t] <=> a \in members[t]

\* docs/advanced.md: "only after the durable commit succeeds are Task, Team, and
\* membership projections published".  Every published membership of a child
\* that may still run is one that the ledger gives back.
MembershipIsDurable ==
  \A c \in Children, t \in Teams :
    c \in members[t] /\ agents[c].state # "Cancelled" => c \in Restored.members[t]

\* Late joins, guards and cancellations record one outcome of an operation.
OneOutcomePerOperation ==
  \A i, j \in DOMAIN ledger :
    ( /\ ledger[i].type = "outcome" /\ ledger[j].type = "outcome"
      /\ ledger[i].child = ledger[j].child /\ ledger[i].op = ledger[j].op ) => i = j

=============================================================================
