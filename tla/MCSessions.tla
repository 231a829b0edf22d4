------------------------------ MODULE MCSessions ------------------------------
(* What processes leave to one another when they end: the records and the     *)
(* undelivered events of a session, the turns of the stream host that drives  *)
(* it, and the children of a Host.  The components share no state; the        *)
(* constant variable part says which one a behaviour is about:                *)
(*                                                                            *)
(*   gc      two sessions that may share a root Run, one of the roots with a  *)
(*           workflow Run below it, and two processes that collect            *)
(*   moving  Host delivery with a wall clock that is set back and processes   *)
(*           that lose their lease before they open the outbox                *)
(*   steady  Host delivery with neither, and one event more                   *)
(*   stream  an engine turn, a required workflow and a detached one, over two *)
(*           starts of the process                                            *)
(*   child   a child process, sandboxed or not, and one fault                 *)
EXTENDS SessionGc, TLC

CONSTANTS root, below, other, g1, g2

MCRuns == {root, below, other}
MCRoots == {root, other}
MCTreeOf == (root :> {root, below}) @@ (below :> {below}) @@ (other :> {other})
\* Collectors, and the requests of the stream's Host, are interchangeable.
Symmetry == Permutations({g1, g2})

-----------------------------------------------------------------------------
\* x1 to x29 are the state of the component a behaviour is about, in the order
\* its INSTANCE gives; those it has no use for are 0.
VARIABLES part, x1, x2, x3, x4, x5, x6, x7, x8, x9, x10, x11, x12, x13, x14, x15,
          x16, x17, x18, x19, x20, x21, x22, x23, x24, x25, x26, x27, x28, x29

pool == <<x1, x2, x3, x4, x5, x6, x7, x8, x9, x10, x11, x12, x13, x14, x15,
          x16, x17, x18, x19, x20, x21, x22, x23, x24, x25, x26, x27, x28,
          x29>>
above9 == <<x10, x11, x12, x13, x14, x15, x16, x17, x18, x19, x20, x21, x22,
            x23, x24, x25, x26, x27, x28, x29>>
above22 == <<x23, x24, x25, x26, x27, x28, x29>>
idle22 == x23 = 0 /\ x24 = 0 /\ x25 = 0 /\ x26 = 0 /\ x27 = 0 /\ x28 = 0
          /\ x29 = 0
idle9 == x10 = 0 /\ x11 = 0 /\ x12 = 0 /\ x13 = 0 /\ x14 = 0 /\ x15 = 0
         /\ x16 = 0 /\ x17 = 0 /\ x18 = 0 /\ x19 = 0 /\ x20 = 0 /\ x21 = 0
         /\ x22 = 0 /\ idle22
idle == x1 = 0 /\ x2 = 0 /\ x3 = 0 /\ x4 = 0 /\ x5 = 0 /\ x6 = 0
        /\ x7 = 0 /\ x8 = 0 /\ x9 = 0 /\ idle9

Moving == INSTANCE HostOutbox WITH
  Procs <- 1..3, NoProc <- 0, MaxEvents <- 2, MaxFaults <- 1,
  ClockSteps <- TRUE, SlowStart <- TRUE, clock <- x1, lease <- x2, rows <- x3,
  proc <- x4, wire <- x5, acks <- x6, recorded <- x7, displayed <- x8,
  faults <- x9
Steady == INSTANCE HostOutbox WITH
  Procs <- 1..3, NoProc <- 0, MaxEvents <- 3, MaxFaults <- 1,
  ClockSteps <- FALSE, SlowStart <- FALSE, clock <- x1, lease <- x2,
  rows <- x3, proc <- x4, wire <- x5, acks <- x6, recorded <- x7,
  displayed <- x8, faults <- x9
Stream == INSTANCE HostStream WITH
  Messages <- {"m", "e"}, Required <- {"m"}, Detached <- {"d"},
  Commands <- {g1, g2}, Servers <- {"s"}, NoMsg <- "none", MaxStarts <- 2,
  MaxFaults <- 1, run <- x1, history <- x2, marker <- x3, life <- x4,
  same <- x5, phase <- x6, task <- x7, signalled <- x8, commits <- x9,
  stream <- x10, shown <- x11, told <- x12, resumed <- x13, active <- x14,
  stopping <- x15, pending <- x16, answer <- x17, config <- x18,
  allowed <- x19, connected <- x20, starts <- x21, faults <- x22
Child == INSTANCE ManagedProcess WITH
  MaxFaults <- 1, sandboxed <- x1, pc <- x2, guardian <- x3, target <- x4,
  group <- x5, stray <- x6, to_guardian <- x7, to_host <- x8, open <- x9,
  seen <- x10, told <- x11, containment <- x12, sandbox <- x13, owner <- x14,
  released <- x15, finalize_sent <- x16, root_ready <- x17, terminated <- x18,
  finalized <- x19, unknown <- x20, result <- x21, errors <- x22, back <- x23,
  registered <- x24, in_flight <- x25, attempt <- x26, awaiting <- x27,
  life <- x28, faults <- x29

RunInit ==
  \/ part = "gc" /\ Init /\ idle
  \/ part = "moving" /\ Init /\ Moving!Init /\ idle9
  \/ part = "steady" /\ Init /\ Steady!Init /\ idle9
  \/ part = "stream" /\ Init /\ Stream!Init /\ idle22
  \/ part = "child" /\ Init /\ Child!Init

RunNext ==
  /\ UNCHANGED part
  /\ \/ part = "gc" /\ Next /\ UNCHANGED pool
     \/ part = "moving" /\ Moving!Next /\ UNCHANGED <<vars, above9>>
     \/ part = "steady" /\ Steady!Next /\ UNCHANGED <<vars, above9>>
     \/ part = "stream" /\ Stream!Next /\ UNCHANGED <<vars, above22>>
     \/ part = "child" /\ Child!Next /\ UNCHANGED vars

RunSpec == RunInit /\ [][RunNext]_<<part, vars, pool>>
-----------------------------------------------------------------------------
\* The types of the component a behaviour is about.
RunTypeOK ==
  /\ TypeOK
  /\ CASE part = "gc" -> TRUE [] part = "moving" -> Moving!TypeOK
       [] part = "steady" -> Steady!TypeOK [] part = "stream" -> Stream!TypeOK
       [] part = "child" -> Child!TypeOK

\* What the Host is shown of a session: events are displayed once and, with a
\* steady clock, in the order they were committed (host_outbox.rs), required turns
\* are kept and delivered, streams ended and commands answered (json_stream).
HostServed ==
  /\ part = "moving" => Moving!DeliveredInOrder
  /\ part = "steady" => Steady!DeliveredInOrder
  /\ part = "stream" => Stream!TurnsReported

\* A child process is owned until its tree is gone, whatever its spawn reports.
ChildAccounted == part = "child" => Child!ChildAccounted
=============================================================================
