------------------------------- MODULE MCAgents -------------------------------
(* What an Agent is made of, on small instances.  The components keep         *)
(* separate state, so their product would only multiply states: the constant  *)
(* variable part picks the component a behaviour is about, the others stand   *)
(* still.                                                                     *)
(*                                                                            *)
(*   task    a message of two tool calls, the first one replay-safe, and two  *)
(*           processes that run it                                            *)
(*   tools   rounds of an Agent under a policy that changes, with a fault     *)
(*   pairs   rounds of two Agents side by side, with call ids of their own or *)
(*           the same ones, and a change of policy or a fault                 *)
(*   files   the file tools of two Agents on two files, one of them confined  *)
(*           to its scope, with a cache of one entry that a long text does    *)
(*           not fit, and another program that changes a file once            *)
(*   edits   the same on one file, with forced reads and a call more instead  *)
(*           of the program                                                   *)
(*   window  compaction of a history that grows to its limit                  *)
(*   config  Host updates, presets and plan mode of one engine, with a change *)
(*           and a fault or with two faults                                   *)
EXTENDS DurableTask, TLC

CONSTANTS p1, p2, none

\* The processes are interchangeable.
Symmetry == Permutations({p1, p2})

-----------------------------------------------------------------------------
ToolCall(tool, class, resource) ==
  [id |-> "", tool |-> tool, class |-> class, resources |-> {resource}, external |-> FALSE,
   safe |-> FALSE, low_risk |-> FALSE, hooked |-> FALSE, history |-> "none"]
reads(r) == [ToolCall("Read", "ReadOnly", r) EXCEPT !.safe = TRUE]
writes(r) == ToolCall("Write", "WorkspaceMutation", r)
executes(r) == ToolCall("Bash", "Process", r)
fetches(r) == [ToolCall("Fetch", "Network", r) EXCEPT !.safe = TRUE, !.hooked = TRUE]
posts(r) == [ToolCall("Post", "ExternalSideEffect", r) EXCEPT !.external = TRUE]
\* The provider numbers the calls of a round, from n on.
WithIds(x, n) == [i \in DOMAIN x |-> [x[i] EXCEPT !.id = n + i]]
RoundOf(x, y) == ("main" :> WithIds(x, 0)) @@ ("sub" :> WithIds(y, 4))
SameIds(x, y) == ("main" :> WithIds(x, 0)) @@ ("sub" :> WithIds(y, 0))
ToolRounds ==
  {RoundOf(<<reads("in"), fetches("out")>>, <<>>),
   RoundOf(<<reads("out"), [executes("in") EXCEPT !.low_risk = TRUE]>>, <<>>),
   RoundOf(<<>>, <<posts("out")>>),
   RoundOf(<<posts("out"), [writes("in") EXCEPT !.history = "done"]>>, <<>>),
   RoundOf(<<[writes("in") EXCEPT !.history = "intent"], writes("in")>>, <<>>),
   RoundOf(<<reads("prot"), [writes("in") EXCEPT !.hooked = TRUE]>>, <<>>)}
PairRounds ==
  {RoundOf(<<executes("out")>>, <<writes("out")>>), SameIds(<<executes("in")>>, <<writes("out")>>)}
Denials == {<<>>, <<[tool |-> "any", resources |-> {"out"}, decision |-> "Deny"]>>}
PolicyRules == Denials \cup {<<[tool |-> "Write", resources |-> {}, decision |-> "Ask"]>>}

PlainReads == {[range |-> "full", force |-> FALSE], [range |-> "part", force |-> FALSE]}
FileReads == PlainReads \cup {[range |-> "full", force |-> TRUE]}
\* Y is longer than a tool's result may be.
LongResults == ("X" :> "X") @@ ("Y" :> "Y cut") @@ ("H" :> "H")

Unchanged == [model |-> none, thinking |-> none, budget |-> none, effort |-> none,
              compaction |-> none, policy |-> none, agents |-> none]
ConfigUpdates ==
  {Unchanged, [Unchanged EXCEPT !.model = "n"],
   [Unchanged EXCEPT !.thinking = "enabled", !.model = "n"],
   [Unchanged EXCEPT !.thinking = "disabled", !.budget = 5],
   [Unchanged EXCEPT !.budget = 5],
   [Unchanged EXCEPT !.effort = "high", !.agents = 2],
   [Unchanged EXCEPT !.effort = "", !.agents = 9],
   [Unchanged EXCEPT !.compaction = "safe", !.policy = "Disabled"],
   [Unchanged EXCEPT !.thinking = "enabled", !.budget = 0]}
ConfigProviders == {[thinking |-> TRUE, effort |-> TRUE, levels |-> <<"low", "high">>],
                    [thinking |-> FALSE, effort |-> FALSE, levels |-> <<>>]}
PlanCall(tool, arg) == [tool |-> tool, arg |-> arg]
PlanRounds ==
  {<<PlanCall("Enter", "none")>>, <<PlanCall("Exit", "p")>>,
   <<PlanCall("Exit", "p"), PlanCall("Exit", "q")>>, <<PlanCall("Skill", "t")>>,
   <<PlanCall("Skill", "t"), PlanCall("Enter", "none")>>,
   <<PlanCall("Exit", "invalid")>>, <<PlanCall("Model", "n")>>}

-----------------------------------------------------------------------------
\* x1 to x13 are the state of the component a behaviour is about, in the order
\* its INSTANCE gives; those it has no use for are 0.
VARIABLES part, x1, x2, x3, x4, x5, x6, x7, x8, x9, x10, x11, x12, x13

pool == <<x1, x2, x3, x4, x5, x6, x7, x8, x9, x10, x11, x12, x13>>
above9 == <<x10, x11, x12, x13>>
above10 == <<x11, x12, x13>>
above11 == <<x12, x13>>
idle11 == x12 = 0 /\ x13 = 0
idle10 == x11 = 0 /\ idle11
idle9 == x10 = 0 /\ idle10
idle == x1 = 0 /\ x2 = 0 /\ x3 = 0 /\ x4 = 0 /\ x5 = 0 /\ x6 = 0
        /\ x7 = 0 /\ x8 = 0 /\ x9 = 0 /\ idle9

Gate == INSTANCE ToolGate WITH
  Agents <- {"main", "sub"}, Rounds <- ToolRounds, RuleSets <- PolicyRules,
  Boundaries <- {{"in"}, {"in", "out"}},
  ChildBoundary <- ("main" :> {"in", "out", "hook"}) @@ ("sub" :> {"out"}),
  Protected <- {"prot"}, Listed <- {"Post"}, AnyTool <- "any",
  MaxChanges <- 1, MaxFaults <- 1, policy <- x1, leases <- x2, session <- x3,
  waiting <- x4, env <- x5, calls <- x6, round <- x7, call <- x8,
  faults <- x9, changes <- x10
Pairs == INSTANCE ToolGate WITH
  Agents <- {"main", "sub"}, Rounds <- PairRounds, RuleSets <- Denials,
  Boundaries <- {{"in"}, {"in", "out"}},
  ChildBoundary <- ("main" :> {"in", "out", "hook"}) @@ ("sub" :> {"out"}),
  Protected <- {"prot"}, Listed <- {"Post"}, AnyTool <- "any",
  MaxChanges <- 1, MaxFaults <- 1, policy <- x1, leases <- x2, session <- x3,
  waiting <- x4, env <- x5, calls <- x6, round <- x7, call <- x8,
  faults <- x9, changes <- x10
FileOps == INSTANCE FileTools WITH
  Agents <- {"main", "sub"}, Scoped <- {"main"}, Files <- {"f", "g"},
  Texts <- {"x", "y"},
  Numbered <- ("x" :> "X") @@ ("x_crlf" :> "X") @@ ("y" :> "Y"),
  Reads <- PlainReads,
  Portion <- ("x" :> "H") @@ ("x_crlf" :> "H") @@ ("y" :> "H"),
  Size <- ("X" :> 1) @@ ("Y" :> 3) @@ ("H" :> 1), Shortened <- LongResults,
  NoText <- "none", MaxEntries <- 1, MaxSize <- 2, MaxEvidence <- 2, MicroKeep <- 1,
  MaxCalls <- 2, MaxTrouble <- 1, dir <- x1, obj <- x2, cache <- x3,
  index <- x4, history <- x5, call <- x6, temps <- x7, forgotten <- x8,
  blind <- x9, stranded <- x10, spent <- x11
Edits == INSTANCE FileTools WITH
  Agents <- {"main", "sub"}, Scoped <- {"main"}, Files <- {"f"},
  Texts <- {"x", "y"},
  Numbered <- ("x" :> "X") @@ ("x_crlf" :> "X") @@ ("y" :> "Y"),
  Reads <- FileReads,
  Portion <- ("x" :> "H") @@ ("x_crlf" :> "H") @@ ("y" :> "H"),
  Size <- ("X" :> 1) @@ ("Y" :> 2) @@ ("H" :> 1), Shortened <- LongResults,
  NoText <- "none", MaxEntries <- 1, MaxSize <- 2, MaxEvidence <- 2, MicroKeep <- 1,
  MaxCalls <- 3, MaxTrouble <- 0, dir <- x1, obj <- x2, cache <- x3,
  index <- x4, history <- x5, call <- x6, temps <- x7, forgotten <- x8,
  blind <- x9, stranded <- x10, spent <- x11
Window == INSTANCE ContextWindow WITH
  Threshold <- 1, Limit <- 3, Reports <- {0, 3}, MaxFailures <- 1,
  MaxMessages <- 5, MaxEvents <- 2, enabled <- x1, engine <- x2, saved <- x3,
  effects <- x4, next <- x5, lost <- x6, tries <- x7, relieved <- x8,
  events <- x9
Config == INSTANCE EngineConfig WITH
  Updates <- ConfigUpdates, Absent <- none, Providers <- ConfigProviders,
  Intensities <- {"Low", "Ultracode"}, Modes <- {"Auto", "Plan"},
  Tools <- {"t"}, Rounds <- PlanRounds, MinAgents <- 1, MaxAgents <- 4,
  MaxChanges <- 1, MaxRounds <- 3, MaxFaults <- 2, compat <- x1, engine <- x2,
  view <- x3, flag <- x4, stored <- x5, budget <- x6, artifacts <- x7,
  round <- x8, pending <- x9, left <- x10, changes <- x11, rounds <- x12,
  faults <- x13

RunInit ==
  \/ part = "task" /\ Init /\ idle
  \/ part = "tools" /\ Init /\ Gate!Init /\ idle10
  \/ part = "pairs" /\ Init /\ Pairs!Init /\ idle10
  \/ part = "files" /\ Init /\ FileOps!Init /\ idle11
  \/ part = "edits" /\ Init /\ Edits!Init /\ idle11
  \/ part = "window" /\ Init /\ Window!Init /\ idle9
  \/ part = "config" /\ Init /\ Config!Init

RunNext ==
  /\ UNCHANGED part
  /\ \/ part = "task" /\ Next /\ UNCHANGED pool
     \/ part = "tools" /\ Gate!Next /\ UNCHANGED <<vars, above10>>
     \/ part = "pairs" /\ Pairs!Next /\ x9' + x10' <= 1 /\ UNCHANGED <<vars, above10>>
     \/ part = "files" /\ FileOps!Next /\ UNCHANGED <<vars, above11>>
     \/ part = "edits" /\ Edits!Next /\ UNCHANGED <<vars, above11>>
     \/ part = "window" /\ Window!Next /\ UNCHANGED <<vars, above9>>
     \/ part = "config" /\ Config!Next /\ x11' + x13' <= 2 /\ UNCHANGED vars

RunSpec == RunInit /\ [][RunNext]_<<part, vars, pool>>
-----------------------------------------------------------------------------
\* The types of the component a behaviour is about.
RunTypeOK ==
  /\ TypeOK
  /\ CASE part = "task" -> TRUE [] part = "tools" -> Gate!TypeOK
       [] part = "pairs" -> Pairs!TypeOK
       [] part = "files" -> FileOps!TypeOK [] part = "edits" -> Edits!TypeOK
       [] part = "window" -> Window!TypeOK
       [] part = "config" -> Config!TypeOK

\* A round's results come back one per call and in order, nothing unsafe starts
\* after an unknown outcome, and an effect starts only under the policy that is
\* in force when it starts (orchestration.rs, process_authorization.rs).
ToolsMediated ==
  /\ [](part = "tools" => Gate!RoundInOrder)
  /\ [](part = "pairs" => Pairs!RoundInOrder)
  /\ [][part = "tools" => Gate!StartsAuthorised]_pool
  /\ [][part = "pairs" => Pairs!StartsAuthorised]_pool

\* The file tools edit only what the model has seen of the file as it is, keep
\* their caches within limits and leave no temporary behind.
FilesTruthful ==
  /\ part = "files" => FileOps!FilesTruthful
  /\ part = "edits" => Edits!FilesTruthful

\* Compaction calls are made and billed once, the breaker bounds them, nothing
\* said is forgotten and every request starts with the user.
CompactionSafe == part = "window" => Window!CompactionSafe

\* The Host sees the configuration the engine uses, the session keeps its plan
\* state, allow-list and effort up to what the Host set since the last save, a
\* submitted plan is durable before plan mode is left, and leaving it takes back
\* what the allow-list got in it (engine.rs, engine/session_state.rs).
ConfigTruthful == part = "config" => Config!ConfigTruthful
=============================================================================
