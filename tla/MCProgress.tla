------------------------------ MODULE MCProgress ------------------------------
(* What must happen in the end, in five components that share no state; part, *)
(* which never changes, says which one a behaviour is about:                  *)
(*                                                                            *)
(*   permits   two effects that compete for places and changing budgets       *)
(*   workflow  a node that is attempted twice and one that depends on it      *)
(*   gc        two sessions that share one Run, one process that collects     *)
(*   host      events of a session whose process may die once                 *)
(*   proxy     two network proxies that share one worker, each dropped while  *)
(*             connections of both are served and queued                      *)
EXTENDS HostOutbox, TLC

CONSTANTS x1, x2, n1, n2, h1, r1, g1, NoCollector

VARIABLES part,
          pc, woken, active, effects, descendants, budget, exhausted, late,
          failed, pending,
          workflow_ledger, projection, tasks, executor, workflow_faults,
          status, refs, leased, undelivered, order, job, queue, ledger, blobs,
          gc, gc_faults,
          proxy, listener, jobs, relays, accepted, conn

permit_vars == <<pc, woken, active, effects, descendants, budget, exhausted,
                 late, failed, pending>>
workflow_vars == <<workflow_ledger, projection, tasks, executor, workflow_faults>>
gc_vars == <<status, refs, leased, undelivered, order, job, queue, ledger,
             blobs, gc, gc_faults>>
proxy_vars == <<proxy, listener, jobs, relays, accepted, conn>>
run_vars == <<part, permit_vars, workflow_vars, gc_vars, vars, proxy_vars>>

Permits == INSTANCE ResourceAdmission WITH
  Spawners <- {}, Reattachers <- {}, Effects <- {x1, x2},
  Budgets <- {[agents |-> 1, effects |-> 1, descendants |-> 1],
              [agents |-> 2, effects |-> 2, descendants |-> 3]},
  MaxDescendants <- 1, MaxPending <- 1
Workflow == INSTANCE WorkflowRun WITH
  Hosts <- {h1}, Nodes <- {n1, n2}, depends_on <- n1 :> {} @@ n2 :> {n1},
  FalseWhen <- {}, Unbindable <- {}, AgentNodes <- {n1},
  max_attempts <- n1 :> 2 @@ n2 :> 1, MaxRecords <- 24, MaxFaults <- 0,
  ledger <- workflow_ledger, faults <- workflow_faults
Gc == INSTANCE SessionGc WITH
  Sessions <- 1..2, Runs <- {r1}, Roots <- {r1}, TreeOf <- r1 :> {r1},
  Collectors <- {g1}, MaxSessions <- 0, GcBudget <- 2, MaxFaults <- 1,
  active <- leased, pending <- undelivered, faults <- gc_faults
Proxy == INSTANCE NetworkProxy WITH
  Proxies <- {"p", "q"}, Conns <- {"c", "d"}, Home <- ("c" :> "p") @@ ("d" :> "q"),
  Hosts <- {"h"}, Permitted <- {"h"}, Addresses <- {"a"}, Public <- {"a"}, V6 <- {},
  Zones <- {"h" :> [addresses |-> {"a"}, canonical |-> {}],
            "h" :> [addresses |-> {}, canonical |-> {}]},
  Requests <- {[form |-> f, host |-> "h", named |-> "h", size |-> "fits", framing |-> "none", old |-> FALSE] :
                 f \in {"connect", "http"}},
  NoHost <- "none", MaxWorkers <- 1, MaxQueue <- 1, MaxAddresses <- 1, MaxDepth <- 1,
  MaxReuse <- 1, executor <- relays, queue <- accepted

RunInit ==
  /\ part \in {"permits", "workflow", "gc", "host", "proxy"}
  /\ Permits!Init /\ Workflow!Init /\ Gc!Init /\ Init /\ Proxy!Init
  /\ part # "permits" => budget.agents = 1

RunNext ==
  /\ UNCHANGED part
  /\ \/ /\ part = "permits" /\ Permits!Next
        /\ UNCHANGED <<workflow_vars, gc_vars, vars, proxy_vars>>
     \/ /\ part = "workflow" /\ Workflow!LiveNext
        /\ UNCHANGED <<permit_vars, gc_vars, vars, proxy_vars>>
     \/ /\ part = "gc" /\ Gc!Next
        /\ UNCHANGED <<permit_vars, workflow_vars, vars, proxy_vars>>
     \/ /\ part = "host" /\ Next
        /\ UNCHANGED <<permit_vars, workflow_vars, gc_vars, proxy_vars>>
     \/ /\ part = "proxy" /\ Proxy!Next
        /\ UNCHANGED <<permit_vars, workflow_vars, gc_vars, vars>>

\* The fairness of each component.  For Host delivery: the user starts the session
\* again, a process does its start-up, time passes and the Host reads; no event
\* has to be produced and no lease released.  A component that stands still
\* enables none of these actions, except the start of the first process.
RunFairness ==
  /\ Permits!Fairness
  /\ Workflow!Fairness
  /\ Gc!Fairness
  /\ Proxy!Fairness
  /\ \A p \in Procs : /\ WF_vars(part = "host" /\ ProcStep(p))
                     /\ WF_vars(HostReceives(p))
  /\ WF_vars(ExpireDead)

RunSpec == RunInit /\ [][RunNext]_run_vars /\ RunFairness

-----------------------------------------------------------------------------
\* Every caller of acquire_agent, acquire_reattached_agent and acquire_effect
\* that waits is eventually awake again, to be admitted, refused or to wait for
\* the next change: no notify_waiters between its test and its wait is lost.
WaitersWake == Permits!WaitersWake

\* execute_until_settled ends: the records of a started Run say in the end that
\* it is settled or cancelled, whatever its attempts return.
RunSettles == Workflow!RunSettles

\* What a session leaves is dealt with: run_due_gc collects a tombstoned session
\* none of whose Runs a session in use refers to, over a crash, a failed deletion
\* or a claim that expires under its collector; and a committed event is
\* displayed in the end, as long as a process of the session is left to be
\* started after the last fault.
SessionsSettle == Gc!GcSettles /\ EventuallyDisplayed

\* Dropping a proxy returns: no worker stays blocked on one of its sockets,
\* whatever the connections are doing when it stops, provided the connections of
\* other proxies do not hold every shared worker for ever (HostNetworkProxy::drop,
\* JobTracker::wait_until_empty).
DropReturns == Proxy!DropReturns
=============================================================================
