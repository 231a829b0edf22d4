--------------------------- MODULE MCCollaboration ---------------------------
(* Agents, Tasks, messages and children of one Run.  They keep separate       *)
(* state, so their product would only multiply states: the constant variable  *)
(* part picks the component a behaviour is about, the others stand still.     *)
(*                                                                            *)
(*   spawns        one child with two spawn operations and one Team           *)
(*   tasks         one Team Task, three operation ids, one worker             *)
(*   workflow      the same for a Task that belongs to a workflow             *)
(*   mail          a message, a broadcast, two readers; every append succeeds *)
(*   retries       the same with one reader; appends may fail after commit    *)
(*   conversation  two services that drive a child of two turns               *)
(*   children      two Tasks of a spawned graph and a reviewer                *)
EXTENDS TaskCas, TLC

CONSTANTS child, root, team, noteam,
          hub, x, y, d1, b1, k1, k2, none

\* The two readers of messages, and the two services, are interchangeable.
Symmetry == Permutations({x, y})

\* Dependencies of two Tasks: none, a chain and a cycle.
TaskGraphs == {[t \in {"a", "b"} |-> {}],
               [t \in {"a", "b"} |-> IF t = "b" THEN {"a"} ELSE {}],
               [t \in {"a", "b"} |-> {"a", "b"} \ {t}]}

-----------------------------------------------------------------------------
\* x1 to x17 are the state of the component a behaviour is about, in the order
\* its INSTANCE gives; those it has no use for are 0.
VARIABLES part, x1, x2, x3, x4, x5, x6, x7, x8, x9, x10, x11, x12, x13, x14, x15,
          x16, x17

pool == <<x1, x2, x3, x4, x5, x6, x7, x8, x9, x10, x11, x12, x13, x14, x15,
          x16, x17>>
above5 == <<x6, x7, x8, x9, x10, x11, x12, x13, x14, x15, x16, x17>>
above6 == <<x7, x8, x9, x10, x11, x12, x13, x14, x15, x16, x17>>
above8 == <<x9, x10, x11, x12, x13, x14, x15, x16, x17>>
idle8 == x9 = 0 /\ x10 = 0 /\ x11 = 0 /\ x12 = 0 /\ x13 = 0 /\ x14 = 0
         /\ x15 = 0 /\ x16 = 0 /\ x17 = 0
idle6 == x7 = 0 /\ x8 = 0 /\ idle8
idle5 == x6 = 0 /\ idle6
idle == x1 = 0 /\ x2 = 0 /\ x3 = 0 /\ x4 = 0 /\ x5 = 0 /\ idle5

Flow == INSTANCE TaskCas WITH
  WorkflowTasks <- Tasks, MaxRecords <- 3
Spawn == INSTANCE AgentLifecycle WITH
  Children <- {child}, Root <- root, Teams <- {team}, NoTeam <- noteam,
  Attempts <- {1, 2}, MaxRecords <- 5, ledger <- x1, agents <- x2,
  relation <- x3, teams <- x4, members <- x5, held <- x6
Mail == INSTANCE MessageBus WITH
  Agents <- {hub, x, y}, Coordinator <- hub, PeerMessaging <- FALSE,
  DirectIds <- {d1}, BroadcastIds <- {b1}, ClaimIds <- {k1, k2},
  NoClaim <- none, MaxPending <- 1, Faults <- {}, MaxRecords <- 4,
  ledger <- x1, inboxes <- x2, claims <- x3, members <- x4, answered <- x5
Retry == INSTANCE MessageBus WITH
  Agents <- {hub, x, y}, Coordinator <- hub, PeerMessaging <- FALSE,
  DirectIds <- {d1}, BroadcastIds <- {b1}, ClaimIds <- {k1}, NoClaim <- none,
  MaxPending <- 2, Faults <- {"delivered", "broadcast"}, MaxRecords <- 3,
  ledger <- x1, inboxes <- x2, claims <- x3, members <- x4, answered <- x5
Conv == INSTANCE Conversation WITH
  Services <- {x, y}, Turns <- {"t", "u"}, NoOne <- none, MaxClaims <- 2,
  conv <- x1, rows <- x2, log <- x3, agent <- x4, lease <- x5, op <- x6,
  cl <- x7, ran <- x8
Graph == INSTANCE Spawner WITH
  Tasks <- {"a", "b"}, Reviewer <- "r", Graphs <- TaskGraphs,
  Selections <- {"Auto", "Single", "IndependentReviewer"}, MaxCrashes <- 1,
  MaxCancels <- 2,
  graph <- x1, selection <- x2, task <- x3, agent <- x4, effect <- x5,
  outcome <- x6, ran <- x7, pc <- x8, pending <- x9, summary <- x10,
  attempt <- x11, call <- x12, cancelled <- x13, active <- x14,
  notified <- x15, canceller <- x16, faults <- x17

RunInit ==
  \/ part = "tasks" /\ Init /\ idle
  \/ part = "workflow" /\ Init /\ Flow!Init /\ idle
  \/ part = "spawns" /\ Init /\ Spawn!Init /\ idle6
  \/ part = "mail" /\ Init /\ Mail!Init /\ idle5
  \/ part = "retries" /\ Init /\ Retry!Init /\ idle5
  \/ part = "conversation" /\ Init /\ Conv!Init /\ idle8
  \/ part = "children" /\ Init /\ Graph!Init

\* A graph that ends with a review is cancelled once, the others twice.
OneCancelIfReviewed == x2 = "IndependentReviewer" => x17'.cancels <= 1

RunNext ==
  /\ UNCHANGED part
  /\ \/ part = "tasks" /\ Next /\ UNCHANGED pool
     \/ part = "workflow" /\ Flow!Next /\ UNCHANGED pool
     \/ part = "spawns" /\ Spawn!Next /\ UNCHANGED <<vars, above6>>
     \/ part = "mail" /\ Mail!Next /\ UNCHANGED <<vars, above5>>
     \/ part = "retries" /\ Retry!Next /\ UNCHANGED <<vars, above5>>
     \/ part = "conversation" /\ Conv!Next /\ UNCHANGED <<vars, above8>>
     \/ part = "children" /\ Graph!Next /\ OneCancelIfReviewed /\ UNCHANGED vars

RunSpec == RunInit /\ [][RunNext]_<<part, vars, pool>>
-----------------------------------------------------------------------------
\* The types of the component a behaviour is about.
RunTypeOK ==
  /\ TypeOK
  /\ CASE part \in {"tasks", "workflow"} -> TRUE [] part = "spawns" -> Spawn!TypeOK
       [] part = "mail" -> Mail!TypeOK [] part = "retries" -> Retry!TypeOK
       [] part = "conversation" -> Conv!TypeOK [] part = "children" -> Graph!TypeOK

\* A restart rebuilds the Agents, relationships and Teams that were live, after
\* every interleaving of spawns, aborts, cancellations, retries and restores;
\* and it rebuilds the mailboxes, their order and the claims, when no append
\* failed half way (collaboration_runtime/restore.rs, message_bus.rs).
RegistriesRestored ==
  /\ part = "spawns" => Spawn!RestoreMatchesLive
  /\ part = "mail" => Mail!RestoreMatchesLive

\* One outcome is recorded of a spawn operation, however late joins, guards and
\* cancellations record it; a send or broadcast that has returned Ok, if need be
\* at its second attempt, is in every mailbox as a restart would give it, and
\* nothing delivers again what its recipient has consumed; and no message is in
\* the durable claims of two readers, unless an append of a claim fails
\* ("concurrent_claims_deliver_each_message_to_only_one_operation").
DoneOnce ==
  /\ part = "spawns" => Spawn!OneOutcomePerOperation
  /\ part = "mail" =>
       Mail!AnsweredIsDelivered /\ Mail!NoRedelivery /\ Mail!ClaimedByOne
  /\ part = "retries" =>
       Retry!AnsweredIsDelivered /\ Retry!NoRedelivery /\ Retry!ClaimedByOne

\* Services that retry a child's turns, take over each other's expired claims
\* and close it between them run each turn once, in order and only under the
\* claim they hold, and what they record of the close is true of every turn
\* (spawner/conversation.rs, session/store_conversation_support.rs).
ConversationKept ==
  part = "conversation" =>
    Conv!TurnsRunOnceInOrder /\ Conv!RunsItsOwnClaim /\ Conv!ClosedIsSettled

\* A spawned graph runs each child once per attempt and after its dependencies,
\* a cancellation that was confirmed is what every later answer says, wherever
\* the process dies in between, and no cancelled child runs on
\* (spawner/service.rs).
ChildrenKept ==
  part = "children" => 
    Graph!ChildrenRunOnceInOrder /\ Graph!CancelIsFinal /\ Graph!CancelledIsDropped
=============================================================================
