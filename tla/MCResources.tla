----------------------------- MODULE MCResources -----------------------------
(* What a Run shares with the machine: the resource manager's admission,      *)
(* durable totals and rate window, the sandbox's ACL leases, the network      *)
(* proxy and the MCP servers.  They keep separate state, so the constant      *)
(* variable part picks the one a behaviour is about and the others stand      *)
(* still.                                                                     *)
(*                                                                            *)
(*   agents     two spawners and a reattaching caller, two budgets            *)
(*   effects    two effects and a reattaching caller, two budgets             *)
(*   totals     one effect, a checkpoint at every second change               *)
(*   rate       two permits in windows of two ticks                           *)
(*   proxy      two proxies with a connection each                            *)
(*   acl        two launches that share a file and a directory                *)
(*   mcp        one server of each transport, two callers, two shutdowns      *)
EXTENDS ResourceAdmission, TLC

CONSTANTS e1, m1, m2, f1, none

\* Spawners, rounds, permits, launches and callers are interchangeable.
Symmetry == Permutations({m1, m2})

\* A narrow and a wide budget, so that a change between them takes places away
\* and gives them back.
MCBudgets == {[agents |-> 1, effects |-> 1, descendants |-> 1],
              [agents |-> 2, effects |-> 2, descendants |-> 3]}

\* Host "h" and "g" are permitted, "x" is not; address "a" is public, "b" is not.
Request(form, host, named, size, framing) ==
  [form |-> form, host |-> host, named |-> named, size |-> size, framing |-> framing,
   old |-> FALSE]
ProxyRequests ==
  {Request("connect", "h", "h", "fits", "none"), Request("http", "h", "h", "fits", "length"),
   Request("http", "g", "g", "fits", "none"), Request("http", "x", "x", "fits", "none"),
   Request("http", "h", "g", "fits", "none"), Request("https", "h", "h", "fits", "none"),
   Request("http", "h", "h", "large", "none"), Request("http", "h", "h", "cut", "none"),
   Request("http", "h", "h", "fits", "both"), Request("origin", "h", "h", "fits", "chunked"),
   Request("origin", "h", "g", "fits", "none"), Request("connect", "h", "h", "fits", "length"),
   Request("proof", "h", "h", "fits", "none"), Request("http", "h", "none", "fits", "none"),
   [Request("http", "h", "none", "fits", "none") EXCEPT !.old = TRUE]}
Zone(ah, ch, ag, cg, ax) ==
  ("h" :> [addresses |-> ah, canonical |-> ch])
    @@ ("g" :> [addresses |-> ag, canonical |-> cg])
    @@ ("x" :> [addresses |-> ax, canonical |-> {}])
ProxyZones ==
  {Zone({"a"}, {}, {"b"}, {}, {}), Zone({"a", "b"}, {}, {}, {"h"}, {}),
   Zone({}, {"x"}, {}, {"g"}, {"a"}), Zone({}, {"g"}, {}, {"x"}, {"a"}),
   Zone({}, {"g"}, {}, {"h"}, {}), Zone({}, {"g", "x"}, {"a"}, {}, {"b"})}

\* The scratch directory is protected, or writable and listed before the file.
AclLayouts == {[protected |-> <<"s">>, writable |-> <<"f">>],
               [protected |-> <<>>, writable |-> <<"s", "f", "f">>]}

-----------------------------------------------------------------------------
\* x1 to x11 are the state of the component a behaviour is about, in the order
\* its INSTANCE gives; those it has no use for are 0.
VARIABLES part, x1, x2, x3, x4, x5, x6, x7, x8, x9, x10, x11

pool == <<x1, x2, x3, x4, x5, x6, x7, x8, x9, x10, x11>>
above4 == <<x5, x6, x7, x8, x9, x10, x11>>
above5 == <<x6, x7, x8, x9, x10, x11>>
above6 == <<x7, x8, x9, x10, x11>>
above9 == <<x10, x11>>
idle9 == x10 = 0 /\ x11 = 0
idle6 == x7 = 0 /\ x8 = 0 /\ x9 = 0 /\ idle9
idle5 == x6 = 0 /\ idle6
idle4 == x5 = 0 /\ idle5
idle == x1 = 0 /\ x2 = 0 /\ x3 = 0 /\ x4 = 0 /\ idle4

Totals == INSTANCE ResourceLedger WITH
  Effects <- {e1}, Rounds <- {m1, m2}, Fingerprints <- {f1},
  Budgets <- {1, 2}, SnapshotInterval <- 2, MaxRecords <- 4, MaxAgents <- 1,
  ledger <- x1, state <- x2, deltas <- x3, failed <- x4
Rate == INSTANCE ProviderRate WITH
  Permits <- {m1, m2}, Estimates <- {1, 2}, Rpm <- 2, Tpm <- 3, Minute <- 2,
  MaxClock <- 5, MaxRestarts <- 1, clock <- x1, window <- x2, permits <- x3,
  failed <- x4, restarts <- x5
Proxy == INSTANCE NetworkProxy WITH
  Proxies <- {"p", "q"}, Conns <- {"c", "d"},
  Home <- ("c" :> "p") @@ ("d" :> "q"), Hosts <- {"h", "g", "x"},
  Permitted <- {"h", "g"}, Addresses <- {"a", "b"}, Public <- {"a"},
  V6 <- {"b"}, Zones <- ProxyZones, Requests <- ProxyRequests,
  NoHost <- "none", MaxWorkers <- 1, MaxQueue <- 1, MaxAddresses <- 1,
  MaxDepth <- 1, MaxReuse <- 2, proxy <- x1, listener <- x2, jobs <- x3,
  executor <- x4, queue <- x5, conn <- x6
Acl == INSTANCE WindowsAcl WITH
  Launches <- {m1, m2}, Objects <- {"f", "s"}, Made <- {"n"}, Root <- "f",
  Layouts <- AclLayouts, MaxFaults <- 1, acl <- x1, made <- x2, leases <- x3,
  desk <- x4, box <- x5, pending <- x6, lost <- x7, mixed <- x8, raced <- x9,
  undone <- x10, faults <- x11
Mcp == INSTANCE McpClient WITH
  Servers <- {"s"}, Kinds <- [{"s"} -> {"Stdio", "Sse", "StreamableHttp"}],
  Callers <- {m1, m2}, Closers <- {"k", "l"}, NoServer <- "none", MaxId <- 12,
  MaxRetired <- 4, MaxFaults <- 1, kind <- x1, conn <- x2, exe <- x3,
  effect <- x4, link <- x5, manager <- x6, req <- x7, closer <- x8,
  faults <- x9

RunInit ==
  \/ part \in {"agents", "effects"} /\ Init /\ idle
  \/ part = "totals" /\ Init /\ Totals!Init /\ idle4
  \/ part = "rate" /\ Init /\ Rate!Init /\ idle5
  \/ part = "proxy" /\ Init /\ Proxy!Init /\ idle6
  \/ part = "acl" /\ Init /\ Acl!Init
  \/ part = "mcp" /\ Init /\ Mcp!Init /\ idle9

\* Callers that never ask.
Away(callers) == \A c \in callers : pc'[c] = "idle"

RunNext ==
  /\ UNCHANGED part
  /\ \/ part = "agents" /\ Next /\ Away(Effects) /\ UNCHANGED pool
     \/ part = "effects" /\ Next /\ Away(Spawners) /\ UNCHANGED pool
     \/ part = "totals" /\ Totals!Next /\ UNCHANGED <<vars, above4>>
     \/ part = "rate" /\ Rate!Next /\ UNCHANGED <<vars, above5>>
     \/ part = "proxy" /\ Proxy!Next /\ UNCHANGED <<vars, above6>>
     \/ part = "acl" /\ Acl!Next /\ UNCHANGED vars
     \/ part = "mcp" /\ Mcp!Next /\ UNCHANGED <<vars, above9>>

RunSpec == RunInit /\ [][RunNext]_<<part, vars, pool>>
-----------------------------------------------------------------------------
\* The types of the component a behaviour is about.
RunTypeOK ==
  /\ TypeOK
  /\ CASE part \in {"agents", "effects"} -> TRUE [] part = "totals" -> Totals!TypeOK
       [] part = "rate" -> Rate!TypeOK
       [] part = "proxy" -> Proxy!Network /\ Proxy!TypeOK [] part = "acl" -> Acl!TypeOK
       [] part = "mcp" -> Mcp!TypeOK

\* The totals a crash leaves behind are those the running manager showed, its
\* permits aside, at any distance from the last checkpoint and after appends
\* that failed.  The window knows every live permit that counts in it, across
\* windows that end, starts taken back, restarts and clocks set back; as long as
\* appends succeed nothing else counts as reserved; and requests_per_minute and
\* tokens_per_minute bound what started or may start in a window.
UsageAccounted ==
  /\ part = "totals" => Totals!RestoreMatchesLive
  /\ part = "rate" => Rate!WindowKnowsPermits /\ Rate!NothingLeaks /\ Rate!WithinRate

\* Proxies leave nothing behind and reach only public addresses of permitted names.
DestinationsMediated == part = "proxy" => Proxy!DestinationsMediated

\* Launches that share objects keep their access until they end, and leave on
\* them only what an object's DACL was seen to hold before (windows_acl.rs).
LeasesShared == part = "acl" => Acl!LeasesShared

\* An MCP request gets the answer to its own id or an error, a server is used
\* only over a connection that was recorded as made, and once the disable signal
\* is out only a request that was in its transport by then still reaches a
\* server, and none after a shutdown reported completion (solaris-mcp).
McpMediated ==
  /\ [](part = "mcp" => Mcp!AnswersItsOwn /\ Mcp!ConnectionsAccounted)
  /\ [][part = "mcp" => Mcp!DisableIsFinal]_pool
=============================================================================
