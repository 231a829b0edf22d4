-------------------------- MODULE ResourceAdmission --------------------------
(* Permits of a Run's ResourceManager (solaris-agent, resource_manager.rs):  *)
(* agents, reattached agents and effects wait for a free place, and are      *)
(* refused once the Run may not continue.  Callers of the acquire functions  *)
(* run concurrently; each test of the limits, each release and each budget   *)
(* change holds the checkpoint mutex, and notify_waiters comes after it is   *)
(* released.  A caller is notified only from the moment it enabled its       *)
(* Notified future.                                                          *)
EXTENDS Integers, FiniteSets

CONSTANTS Spawners,     \* callers of acquire_agent
          Reattachers,  \* callers of acquire_reattached_agent
          Effects,      \* callers of acquire_effect
          Budgets,      \* agents, effects: the effective limits; descendants: a cap
          MaxDescendants, MaxPending  \* bounds

Agents == Spawners \cup Reattachers
Callers == Agents \cup Effects

ASSUME CallersAssumption ==
  /\ IsFiniteSet(Spawners) /\ IsFiniteSet(Reattachers) /\ IsFiniteSet(Effects)
  /\ Spawners \cap Reattachers = {} /\ Agents \cap Effects = {}
\* effective_agent_limit and max_concurrent_effects.max(1) are at least one.
ASSUME BudgetsAssumption ==
  Budgets \subseteq [agents : Nat \ {0}, effects : Nat \ {0}, descendants : Nat]

VARIABLES pc,           \* where each caller is in its acquire function
          woken,        \* whether its Notified future has been notified
          active, effects, descendants,   \* usage
          budget,
          exhausted,    \* turns, tokens or cost used up
          late,         \* the wall-time deadline has passed
          failed,       \* persistence_error
          pending       \* changes of budget or usage that have not notified yet

vars == <<pc, woken, active, effects, descendants, budget, exhausted, late, failed, pending>>

Init ==
  /\ pc = [c \in Callers |-> "idle"]
  /\ woken = [c \in Callers |-> FALSE]
  /\ active = 0 /\ effects = 0 /\ descendants = 0
  /\ budget \in Budgets
  /\ exhausted = FALSE /\ late = FALSE /\ failed = FALSE
  /\ pending = 0

-----------------------------------------------------------------------------
runtime_reason == failed \/ exhausted \/ late

hard_reason(c) ==
  runtime_reason \/ (c \in Spawners /\ descendants >= budget.descendants)

\* Mutant: the last place is never given.
free_but_one(c) ==
  IF c \in Effects THEN effects + 1 < budget.effects ELSE active + 1 < budget.agents

free(c) == IF c \in Effects THEN effects < budget.effects ELSE active < budget.agents

\* Notify::notify_waiters: everyone whose future is enabled.
notify_waiters ==
  woken' = [c \in Callers |-> woken[c] \/ pc[c] \in {"enabled", "tried", "waiting"}]

-----------------------------------------------------------------------------
\* changed.notified() and enable(), at the top of the loop.
enable(c) ==
  /\ pc[c] = "idle"
  /\ pc' = [pc EXCEPT ![c] = "enabled"]
  /\ woken' = [woken EXCEPT ![c] = FALSE]
  /\ UNCHANGED <<active, effects, descendants, budget, exhausted, late, failed, pending>>

\* What an admitted caller adds to the usage.
count(c) ==
  /\ active' = IF c \in Agents THEN active + 1 ELSE active
  /\ effects' = IF c \in Effects THEN effects + 1 ELSE effects
  /\ descendants' = IF c \in Spawners THEN descendants + 1 ELSE descendants

try_acquire(c) ==
  /\ pc[c] = "enabled"
  /\ ~hard_reason(c) /\ free(c)
  /\ c \in Spawners => descendants < MaxDescendants
  /\ count(c)
  /\ pc' = [pc EXCEPT ![c] = "holding"]
  /\ UNCHANGED <<woken, budget, exhausted, late, failed, pending>>

\* try_acquire_agent takes its place back when the checkpoint cannot be written,
\* and every waiter is told.
try_acquire_unpersisted(c) ==
  /\ pc[c] = "enabled" /\ c \in Spawners
  /\ ~hard_reason(c) /\ free(c)
  /\ failed' = TRUE
  /\ pc' = [pc EXCEPT ![c] = "tried"]
  /\ notify_waiters
  /\ UNCHANGED <<active, effects, descendants, budget, exhausted, late, pending>>

try_in_vain(c) ==
  /\ pc[c] = "enabled"
  /\ hard_reason(c) \/ ~free(c)
  /\ pc' = [pc EXCEPT ![c] = "tried"]
  /\ UNCHANGED <<woken, active, effects, descendants, budget, exhausted, late, failed, pending>>

refuse(c) ==
  /\ pc[c] = "tried" /\ hard_reason(c)
  /\ pc' = [pc EXCEPT ![c] = "refused"]
  /\ UNCHANGED <<woken, active, effects, descendants, budget, exhausted, late, failed, pending>>

wait(c) ==
  /\ pc[c] = "tried" /\ ~hard_reason(c)
  /\ pc' = [pc EXCEPT ![c] = "waiting"]
  /\ UNCHANGED <<woken, active, effects, descendants, budget, exhausted, late, failed, pending>>

\* wait_for_change_or_deadline returns; the loop enables a new future at once.
\* The timer is modelled by the deadline it was set to.
wake(c) ==
  /\ pc[c] = "waiting"
  /\ woken[c] \/ late
  /\ pc' = [pc EXCEPT ![c] = "enabled"]
  /\ woken' = [woken EXCEPT ![c] = FALSE]
  /\ UNCHANGED <<active, effects, descendants, budget, exhausted, late, failed, pending>>

\* The caller's future is dropped while it waits, or a refused caller returns.
abandon(c) ==
  /\ pc[c] \in {"waiting", "refused"}
  /\ pc' = [pc EXCEPT ![c] = "idle"]
  /\ UNCHANGED <<woken, active, effects, descendants, budget, exhausted, late, failed, pending>>

\* Mutant: a permit that was released is released again when it is dropped.
release_twice(c) ==
  /\ pc[c] \in {"holding", "idle"}
  /\ active' = IF c \in Agents THEN active - 1 ELSE active
  /\ effects' = IF c \in Effects THEN effects - 1 ELSE effects
  /\ pc' = [pc EXCEPT ![c] = "releasing"]
  /\ UNCHANGED <<woken, descendants, budget, exhausted, late, failed, pending>>

\* Mutant: the permit goes and its place is not given back.
release_no_place(c) ==
  /\ pc[c] = "holding"
  /\ pc' = [pc EXCEPT ![c] = "releasing"]
  /\ UNCHANGED <<woken, active, effects, descendants, budget, exhausted, late, failed, pending>>

\* A permit is released or dropped: first the place is given back ...
release(c) ==
  /\ pc[c] = "holding"
  /\ active' = IF c \in Agents THEN active - 1 ELSE active
  /\ effects' = IF c \in Effects THEN effects - 1 ELSE effects
  /\ pc' = [pc EXCEPT ![c] = "releasing"]
  /\ UNCHANGED <<woken, descendants, budget, exhausted, late, failed, pending>>

\* Mutant: nobody is notified of a place given back.
notify_nobody(c) ==
  /\ pc[c] = "releasing"
  /\ pc' = [pc EXCEPT ![c] = "idle"]
  /\ UNCHANGED <<woken, active, effects, descendants, budget, exhausted, late, failed, pending>>

\* ... then the waiters are notified.
notify_released(c) ==
  /\ pc[c] = "releasing"
  /\ pc' = [pc EXCEPT ![c] = "idle"]
  /\ notify_waiters
  /\ UNCHANGED <<active, effects, descendants, budget, exhausted, late, failed, pending>>

-----------------------------------------------------------------------------
\* A new budget may lift or impose every limit; a new wall time moves the
\* deadline into the future.
set_budget(b, e, l) ==
  /\ pending < MaxPending
  /\ budget' = b /\ exhausted' = e
  /\ late' = l /\ (l => late)
  /\ pending' = pending + 1
  /\ UNCHANGED <<pc, woken, active, effects, descendants, failed>>

notify_budget ==
  /\ pending > 0
  /\ pending' = pending - 1
  /\ notify_waiters
  /\ UNCHANGED <<pc, active, effects, descendants, budget, exhausted, late, failed>>

\* Any durable change may fail to be written; persistence_error is set once.
fail_to_persist ==
  /\ ~failed
  /\ failed' = TRUE
  /\ notify_waiters
  /\ UNCHANGED <<pc, active, effects, descendants, budget, exhausted, late, pending>>

\* Usage that exhausts turns, tokens or cost notifies within its update.
record_usage ==
  /\ exhausted' = TRUE
  /\ notify_waiters
  /\ UNCHANGED <<pc, active, effects, descendants, budget, late, failed, pending>>

\* record_tokens_and_cost notifies after its update.
record_tokens_and_cost ==
  /\ pending < MaxPending
  /\ exhausted' = TRUE
  /\ pending' = pending + 1
  /\ UNCHANGED <<pc, woken, active, effects, descendants, budget, late, failed>>

DeadlinePasses ==
  /\ ~late
  /\ late' = TRUE
  /\ UNCHANGED <<pc, woken, active, effects, descendants, budget, exhausted, failed, pending>>

-----------------------------------------------------------------------------
acquire(c) ==
  \/ try_acquire(c) \/ try_acquire_unpersisted(c) \/ try_in_vain(c)
  \/ refuse(c) \/ wait(c) \/ wake(c)

Next ==
  \/ \E c \in Callers :
       enable(c) \/ acquire(c) \/ abandon(c) \/ release(c) \/ notify_released(c)
  \/ \E b \in Budgets : \E e, l \in BOOLEAN : set_budget(b, e, l)
  \/ notify_budget \/ fail_to_persist
  \/ record_usage \/ record_tokens_and_cost \/ DeadlinePasses

\* A task that can run is polled, a thread that has released its place goes on
\* to notify, and a permit is dropped when the agent or effect ends.
Fairness ==
  /\ \A c \in Callers :
       WF_vars(acquire(c)) /\ WF_vars(release(c)) /\ WF_vars(notify_released(c))
  /\ WF_vars(notify_budget)

Spec == Init /\ [][Next]_vars /\ Fairness

-----------------------------------------------------------------------------
Places == {"idle", "enabled", "tried", "waiting", "refused", "holding", "releasing"}

TypeOK ==
  /\ pc \in [Callers -> Places]
  /\ woken \in [Callers -> BOOLEAN]
  /\ active \in Nat /\ effects \in Nat /\ descendants \in Nat /\ pending \in Nat
  /\ budget \in Budgets
  /\ exhausted \in BOOLEAN /\ late \in BOOLEAN /\ failed \in BOOLEAN

Holding(S) == {c \in S : pc[c] = "holding"}

\* The counters are the permits that exist: no release is lost or done twice,
\* which the saturating subtraction of release_agent would hide.
PermitsCounted ==
  /\ active = Cardinality(Holding(Agents))
  /\ effects = Cardinality(Holding(Effects))

NotifierComing == pending > 0 \/ \E d \in Callers : pc[d] = "releasing"

\* No lost wake-up: a caller that sleeps while there is room for it, or while the
\* Run has failed or used up its budget, has a notification on its way, or its
\* timer has run out.
NoLostWakeup ==
  \A c \in Callers :
    pc[c] = "waiting" /\ ~woken[c] /\ (free(c) \/ failed \/ exhausted)
      => NotifierComing \/ late

\* Nobody sleeps on an idle manager: as long as a caller sleeps there is a permit
\* of its kind whose release will wake it, or a notification already coming.
SleeperHasWaker ==
  \A c \in Callers :
    pc[c] = "waiting" /\ ~woken[c]
      => \/ NotifierComing \/ late
         \/ \E d \in IF c \in Effects THEN Effects ELSE Agents : pc[d] = "holding"

\* Every caller that waits is eventually awake again, to be admitted, refused or
\* to wait for the next change.
WaitersWake == \A c \in Callers : pc[c] = "waiting" ~> pc[c] # "waiting"
=============================================================================
