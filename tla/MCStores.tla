------------------------------- MODULE MCStores -------------------------------
(* What outlives a process: the leased ledger of a workflow Run, the ledger's *)
(* two file formats, Memory and the plugin registry.  They keep separate      *)
(* state, so their product would only multiply states: the constant variable  *)
(* part picks the component a behaviour is about, the others stand still.     *)
(*                                                                            *)
(*   lease    two controllers of a Run, three epochs and four records         *)
(*   ledger   two processes on one ledger, which begins empty, with a JSONL   *)
(*            file, or with a database that imported the file                 *)
(*   memory   two processes on one Memory store                               *)
(*   review   the same with writes that wait for a review and with a clock    *)
(*   plugins  one plugin, one that requires it and one that conflicts         *)
EXTENDS WorkflowLease, TLC

CONSTANTS o1, o2, none

\* Controllers and processes are interchangeable.
Symmetry == Permutations({o1, o2})

EmptyDb == [version |-> 0, next |-> 0, rows |-> <<>>, logical |-> {},
            imports |-> {}, source |-> FALSE]
OldLine == [tok |-> 1, seq |-> 1, run |-> "r", id |-> "i", val |-> "v", good |-> TRUE]
OldRow == [run |-> "r", kind |-> "task", id |-> "i", val |-> "v", rev |-> 0,
           from |-> 1, sync |-> TRUE]
OldLedgers ==
  {[db |-> EmptyDb, lines |-> <<>>], [db |-> EmptyDb, lines |-> <<OldLine>>],
   [db |-> [EmptyDb EXCEPT !.version = 1, !.next = 1, !.rows = <<OldRow>>,
                           !.imports = {<<<<0, 0, 1>>, 1>>}],
    lines |-> <<OldLine>>]}

TextSize == ("x" :> 2) @@ ("y" :> 1) @@ ("blank" :> 0)

\* b requires what a provides; c provides what b does and the workflow a does.
PluginNames == {"a", "b", "c"}
PluginProvides == ("a" :> {"k1"}) @@ ("b" :> {"k2"}) @@ ("c" :> {"k2"})
PluginRequires == ("a" :> {}) @@ ("b" :> {"k1"}) @@ ("c" :> {})
PluginContributes == ("a" :> <<"u">>) @@ ("b" :> <<"v">>) @@ ("c" :> <<"u">>)
PluginRefs == ("u" :> {}) @@ ("v" :> {"u"})
PluginVariant == [p \in PluginNames |-> [w \in {"u", "v"} |-> 1]]

-----------------------------------------------------------------------------
\* x1 to x14 are the state of the component a behaviour is about, in the order
\* its INSTANCE gives; those it has no use for are 0.
VARIABLES part, x1, x2, x3, x4, x5, x6, x7, x8, x9, x10, x11, x12, x13, x14

pool == <<x1, x2, x3, x4, x5, x6, x7, x8, x9, x10, x11, x12, x13, x14>>
above12 == <<x13, x14>>
idle12 == x13 = 0 /\ x14 = 0
idle == x1 = 0 /\ x2 = 0 /\ x3 = 0 /\ x4 = 0 /\ x5 = 0 /\ x6 = 0
        /\ x7 = 0 /\ x8 = 0 /\ x9 = 0 /\ x10 = 0 /\ x11 = 0 /\ x12 = 0
        /\ idle12

Ledger == INSTANCE LedgerStore WITH
  Procs <- {o1, o2}, Runs <- {"r"}, Tree <- {"r"}, Ids <- {"i"},
  Vals <- {"v", "w"}, Olds <- OldLedgers, NoOne <- none, PageSize <- 1,
  MaxCalls <- 4, MaxFaults <- 1, db <- x1, unsynced <- x2, lock <- x3,
  proc <- x4, log <- x5, writer <- x6, target <- x7, temps <- x8,
  reader <- x9, acks <- x10, deleted <- x11, covered <- x12, litter <- x13,
  spent <- x14
Memory == INSTANCE MemoryStore WITH
  Procs <- {o1, o2}, Sessions <- {"s"}, Ids <- {"i", "j"},
  Texts <- {"x", "blank"}, Size <- TextSize, Files <- {"f"},
  FileTexts <- {"x", "blank"}, Proposals <- {"k"}, Nothing <- none,
  Review <- FALSE, RecordLimit <- 1, ContentBudget <- 3, SearchLimit <- 1,
  SearchBudget <- 1, MaxTextSize <- 2, MaxClock <- 0, MaxOps <- 2,
  MaxFaults <- 1, rec <- x1, hist <- x2, fts <- x3, prop <- x4,
  imported <- x5, file <- x6, row <- x7, blob <- x8, proc <- x9,
  frozen <- x10, clock <- x11, spent <- x12
Reviewed == INSTANCE MemoryStore WITH
  Procs <- {o1, o2}, Sessions <- {"s"}, Ids <- {"i", "j"},
  Texts <- {"x", "y", "blank"}, Size <- TextSize, Files <- {"f"},
  FileTexts <- {"x", "blank"}, Proposals <- {"k"}, Nothing <- none,
  Review <- TRUE, RecordLimit <- 1, ContentBudget <- 3, SearchLimit <- 1,
  SearchBudget <- 1, MaxTextSize <- 2, MaxClock <- 1, MaxOps <- 2,
  MaxFaults <- 1, rec <- x1, hist <- x2, fts <- x3, prop <- x4,
  imported <- x5, file <- x6, row <- x7, blob <- x8, proc <- x9,
  frozen <- x10, clock <- x11, spent <- x12
Registry == INSTANCE Plugins WITH
  Plugins <- PluginNames, Order <- <<"a", "b", "c">>, Global <- {"a"},
  Pinned <- {}, Caps <- {"k1", "k2"}, Provides <- PluginProvides,
  Requires <- PluginRequires, Workflows <- {"u", "v"},
  Contributes <- PluginContributes, Refs <- PluginRefs,
  Variant <- PluginVariant, Stages <- <<"k1", "k2">>, NoPlugin <- none,
  NoDef <- none, MaxVersion <- 2, MaxRequests <- 3, MaxFaults <- 2,
  disk <- x1, led <- x2, rt <- x3, wf <- x4, running <- x5, call <- x6,
  eff <- x7, ran <- x8, reported <- x9, inflight <- x10, torn <- x11,
  spent <- x12

RunInit ==
  \/ part = "lease" /\ Init /\ idle
  \/ part = "ledger" /\ Init /\ Ledger!Init
  \/ part = "memory" /\ Init /\ Memory!Init /\ idle12
  \/ part = "review" /\ Init /\ Reviewed!Init /\ idle12
  \/ part = "plugins" /\ Init /\ Registry!Init /\ idle12

RunNext ==
  /\ UNCHANGED part
  /\ \/ part = "lease" /\ Next /\ UNCHANGED pool
     \/ part = "ledger" /\ Ledger!Next /\ UNCHANGED vars
     \/ part = "memory" /\ Memory!Next /\ UNCHANGED <<vars, above12>>
     \/ part = "review" /\ Reviewed!Next /\ UNCHANGED <<vars, above12>>
     \/ part = "plugins" /\ Registry!Next /\ UNCHANGED <<vars, above12>>

RunSpec == RunInit /\ [][RunNext]_<<part, vars, pool>>
-----------------------------------------------------------------------------
\* The types of the component a behaviour is about.
RunTypeOK ==
  /\ TypeOK
  /\ CASE part = "lease" -> TRUE [] part = "ledger" -> Ledger!TypeOK
       [] part = "memory" -> Memory!TypeOK [] part = "review" -> Reviewed!TypeOK
       [] part = "plugins" -> Registry!TypeOK

\* No acknowledged record of the ledger is lost, bound twice or reordered by a
\* torn tail, an import that is repeated, a power failure, a deletion, an export
\* or a reader's page, whichever of the two formats holds it.
LedgerKept == part = "ledger" => Ledger!LedgerKept

\* Versions of a Memory record are a chain that search and the frozen snapshots
\* of sessions agree with, files are imported once and a proposal is reviewed
\* once, whichever process dies between two steps.
MemoryKept == /\ part = "memory" => Memory!MemoryKept
              /\ part = "review" => Reviewed!MemoryKept

\* What the plugin registry holds after any sequence of installations,
\* activations and crashes is what its ledger says and can be restored from it,
\* and no capability is run or left registered for a plugin that is not active.
PluginsKept == part = "plugins" => Registry!PluginsKept
=============================================================================
