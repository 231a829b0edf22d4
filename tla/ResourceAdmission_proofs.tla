----------------------- MODULE ResourceAdmission_proofs -----------------------
(* For any number of callers and any budgets, the counters of a              *)
(* ResourceManager are its permits, and no waiter misses its wake-up.        *)
EXTENDS ResourceAdmission, FiniteSetTheorems, TLAPS

\* A leaf that needs arithmetic, sequences or records cites SMT instead.
USE ZenonT(20)

\* Between its vain attempt and its wait a caller is not overtaken by a change
\* that nobody will tell it about.
NoChangeMissed ==
  \A c \in Callers :
    pc[c] = "tried" /\ ~woken[c] /\ free(c) /\ ~hard_reason(c)
      => NotifierComing \/ late

IInv == TypeOK /\ PermitsCounted /\ NoLostWakeup /\ NoChangeMissed

\* The sets of callers are finite.
LEMMA CallersFinite == IsFiniteSet(Agents) /\ IsFiniteSet(Effects)
BY CallersAssumption, FS_Union DEF Agents

\* One more element, one more in the count; one less, one less.
LEMMA AddOne ==
  ASSUME NEW S, IsFiniteSet(S), NEW x, x \notin S
  PROVE  Cardinality(S \cup {x}) = Cardinality(S) + 1
BY FS_AddElement

LEMMA DropOne ==
  ASSUME NEW S, IsFiniteSet(S), NEW x, x \in S
  PROVE  Cardinality(S \ {x}) = Cardinality(S) - 1
<1>1. Cardinality(S \ {x}) = IF x \in S THEN Cardinality(S) - 1 ELSE Cardinality(S)
  BY FS_RemoveElement
<1> QED BY <1>1

\* TypeOK holds at the start and every action keeps it.
LEMMA TypeInit == Init => TypeOK
<1> SUFFICES ASSUME Init PROVE TypeOK
  OBVIOUS
<1>1. pc \in [Callers -> Places]
  BY DEF Init, Places
<1>2. woken \in [Callers -> BOOLEAN]
  BY DEF Init
<1>3. /\ active \in Nat /\ effects \in Nat /\ descendants \in Nat /\ pending \in Nat
      /\ budget \in Budgets
  BY DEF Init
<1>4. exhausted \in BOOLEAN /\ late \in BOOLEAN /\ failed \in BOOLEAN
  BY DEF Init
<1> QED BY <1>1, <1>2, <1>3, <1>4 DEF TypeOK

LEMMA TypeStep ==
  ASSUME TypeOK, PermitsCounted, [Next]_vars
  PROVE  TypeOK'
<1> USE DEF TypeOK, Places
<1> USE CallersFinite
<1>0. CASE UNCHANGED vars
  BY <1>0 DEF vars
<1>1. ASSUME NEW c \in Callers, enable(c) PROVE TypeOK'
  BY <1>1 DEF enable
<1>2. ASSUME NEW c \in Callers, try_acquire(c) PROVE TypeOK'
  BY <1>2, SMTT(30) DEF try_acquire, count
<1>3. ASSUME NEW c \in Callers, try_acquire_unpersisted(c) PROVE TypeOK'
  BY <1>3 DEF try_acquire_unpersisted, notify_waiters
<1>4. ASSUME NEW c \in Callers, try_in_vain(c) \/ refuse(c) \/ wait(c) PROVE TypeOK'
  BY <1>4 DEF try_in_vain, refuse, wait
<1>5. ASSUME NEW c \in Callers, wake(c) PROVE TypeOK'
  BY <1>5 DEF wake
<1>6. ASSUME NEW c \in Callers, abandon(c) PROVE TypeOK'
  BY <1>6 DEF abandon
<1>7. ASSUME NEW c \in Callers, release(c) PROVE TypeOK'
  <2>1. c \in Agents => active > 0
    <3>1. SUFFICES ASSUME c \in Agents PROVE active > 0
      OBVIOUS
    <3>2. c \in Holding(Agents)
      BY <1>7, <3>1 DEF release, Holding
    <3>3. IsFiniteSet(Holding(Agents))
      BY FS_Subset DEF Holding
    <3>4. Cardinality(Holding(Agents)) # 0
      BY <3>2, <3>3, FS_EmptySet
    <3> QED BY <3>4, SMTT(30) DEF PermitsCounted
  <2>2. c \in Effects => effects > 0
    <3>1. SUFFICES ASSUME c \in Effects PROVE effects > 0
      OBVIOUS
    <3>2. c \in Holding(Effects)
      BY <1>7, <3>1 DEF release, Holding
    <3>3. IsFiniteSet(Holding(Effects))
      BY FS_Subset DEF Holding
    <3>4. Cardinality(Holding(Effects)) # 0
      BY <3>2, <3>3, FS_EmptySet
    <3> QED BY <3>4, SMTT(30) DEF PermitsCounted
  <2> QED BY <1>7, <2>1, <2>2, SMTT(30) DEF release
<1>8. ASSUME NEW c \in Callers, notify_released(c) PROVE TypeOK'
  BY <1>8 DEF notify_released, notify_waiters
<1>9. ASSUME NEW b \in Budgets, NEW e \in BOOLEAN, NEW l \in BOOLEAN, set_budget(b, e, l)
      PROVE  TypeOK'
  BY <1>9, SMTT(30) DEF set_budget
<1>10. CASE notify_budget
  BY <1>10, SMTT(30) DEF notify_budget, notify_waiters
<1>11. CASE fail_to_persist \/ record_usage
  BY <1>11 DEF fail_to_persist, record_usage, notify_waiters
<1>12. CASE record_tokens_and_cost
  BY <1>12, SMTT(30) DEF record_tokens_and_cost
<1>13. CASE DeadlinePasses
  BY <1>13 DEF DeadlinePasses
<1> QED
  BY <1>0, <1>1, <1>2, <1>3, <1>4, <1>5, <1>6, <1>7, <1>8, <1>9, <1>10, <1>11, <1>12, <1>13
  DEF Next, acquire

\* The permits of a set of callers change with the caller that acts, and only
\* when it takes a permit or gives it back.
LEMMA HoldingStep ==
  ASSUME TypeOK, NEW S \in SUBSET Callers, IsFiniteSet(S), NEW c \in Callers,
         NEW p \in Places, pc' = [pc EXCEPT ![c] = p]
  PROVE  /\ (pc[c] # "holding" /\ p = "holding" /\ c \in S) =>
              Cardinality(Holding(S)') = Cardinality(Holding(S)) + 1
         /\ (pc[c] = "holding" /\ p # "holding" /\ c \in S) =>
              Cardinality(Holding(S)') = Cardinality(Holding(S)) - 1
         /\ (c \notin S \/ (pc[c] # "holding" /\ p # "holding")) =>
              Holding(S)' = Holding(S)
<1>1. IsFiniteSet(Holding(S))
  BY FS_Subset DEF Holding
<1>2. \A d \in S : pc'[d] = IF d = c THEN p ELSE pc[d]
  BY DEF TypeOK
<1>3. ASSUME pc[c] # "holding", p = "holding", c \in S
      PROVE  Cardinality(Holding(S)') = Cardinality(Holding(S)) + 1
  <2>1. Holding(S)' = Holding(S) \cup {c}
    BY <1>2, <1>3 DEF Holding
  <2>2. c \notin Holding(S)
    BY <1>3 DEF Holding
  <2> QED BY <1>1, <2>1, <2>2, AddOne
<1>4. ASSUME pc[c] = "holding", p # "holding", c \in S
      PROVE  Cardinality(Holding(S)') = Cardinality(Holding(S)) - 1
  <2>1. Holding(S)' = Holding(S) \ {c}
    BY <1>2, <1>4 DEF Holding
  <2>2. c \in Holding(S)
    BY <1>4 DEF Holding
  <2> QED BY <1>1, <2>1, <2>2, DropOne
<1>5. ASSUME c \notin S \/ (pc[c] # "holding" /\ p # "holding")
      PROVE  Holding(S)' = Holding(S)
  BY <1>2, <1>5 DEF Holding
<1> QED BY <1>3, <1>4, <1>5

\* Every action keeps the counters equal to the permits.
LEMMA CountedStep ==
  ASSUME TypeOK, PermitsCounted, [Next]_vars
  PROVE  PermitsCounted'
<1> USE CallersFinite DEF PermitsCounted
<1>a. Agents \in SUBSET Callers /\ Effects \in SUBSET Callers
  BY DEF Callers
<1>b. \A c \in Callers : (c \in Agents) # (c \in Effects)
  BY CallersAssumption DEF Callers
<1>0. ASSUME pc' = pc, active' = active, effects' = effects PROVE PermitsCounted'
  BY <1>0 DEF Holding
<1>1. ASSUME NEW c \in Callers, NEW p \in Places, p # "holding", pc[c] # "holding",
             pc' = [pc EXCEPT ![c] = p], active' = active, effects' = effects
      PROVE  PermitsCounted'
  <2>1. Holding(Agents)' = Holding(Agents)
    BY <1>1, <1>a, HoldingStep
  <2>2. Holding(Effects)' = Holding(Effects)
    BY <1>1, <1>a, HoldingStep
  <2> QED BY <1>1, <2>1, <2>2
<1>2. ASSUME NEW c \in Callers, try_acquire(c) PROVE PermitsCounted'
  <2>0. pc[c] # "holding" /\ pc' = [pc EXCEPT ![c] = "holding"] /\ "holding" \in Places
    BY <1>2 DEF try_acquire, Places
  <2>1. CASE c \in Agents
    <3>1. Cardinality(Holding(Agents)') = Cardinality(Holding(Agents)) + 1
      BY <2>0, <2>1, <1>a, HoldingStep
    <3>2. Holding(Effects)' = Holding(Effects)
      BY <2>0, <2>1, <1>a, <1>b, HoldingStep
    <3>3. active' = active + 1 /\ effects' = effects
      BY <1>2, <2>1, <1>b DEF try_acquire, count
    <3> QED BY <3>1, <3>2, <3>3
  <2>2. CASE c \in Effects
    <3>1. Cardinality(Holding(Effects)') = Cardinality(Holding(Effects)) + 1
      BY <2>0, <2>2, <1>a, HoldingStep
    <3>2. Holding(Agents)' = Holding(Agents)
      BY <2>0, <2>2, <1>a, <1>b, HoldingStep
    <3>3. effects' = effects + 1 /\ active' = active
      BY <1>2, <2>2, <1>b DEF try_acquire, count
    <3> QED BY <3>1, <3>2, <3>3
  <2> QED BY <2>1, <2>2 DEF Callers
<1>3. ASSUME NEW c \in Callers, release(c) PROVE PermitsCounted'
  <2>0. pc[c] = "holding" /\ pc' = [pc EXCEPT ![c] = "releasing"] /\ "releasing" \in Places
    BY <1>3 DEF release, Places
  <2>1. CASE c \in Agents
    <3>1. Cardinality(Holding(Agents)') = Cardinality(Holding(Agents)) - 1
      BY <2>0, <2>1, <1>a, HoldingStep
    <3>2. Holding(Effects)' = Holding(Effects)
      BY <2>0, <2>1, <1>a, <1>b, HoldingStep
    <3>3. active' = active - 1 /\ effects' = effects
      BY <1>3, <2>1, <1>b DEF release
    <3> QED BY <3>1, <3>2, <3>3
  <2>2. CASE c \in Effects
    <3>1. Cardinality(Holding(Effects)') = Cardinality(Holding(Effects)) - 1
      BY <2>0, <2>2, <1>a, HoldingStep
    <3>2. Holding(Agents)' = Holding(Agents)
      BY <2>0, <2>2, <1>a, <1>b, HoldingStep
    <3>3. effects' = effects - 1 /\ active' = active
      BY <1>3, <2>2, <1>b DEF release
    <3> QED BY <3>1, <3>2, <3>3
  <2> QED BY <2>1, <2>2 DEF Callers
<1>4. ASSUME NEW c \in Callers,
             enable(c) \/ try_acquire_unpersisted(c) \/ try_in_vain(c) \/ refuse(c)
               \/ wait(c) \/ wake(c) \/ abandon(c) \/ notify_released(c)
      PROVE  PermitsCounted'
  <2>1. /\ pc[c] # "holding" /\ active' = active /\ effects' = effects
        /\ \E p \in Places : p # "holding" /\ pc' = [pc EXCEPT ![c] = p]
    BY <1>4 DEF enable, try_acquire_unpersisted, try_in_vain, refuse, wait, wake,
                abandon, notify_released, Places
  <2> QED BY <1>1, <2>1
<1>5. ASSUME \/ \E b \in Budgets : \E e, l \in BOOLEAN : set_budget(b, e, l)
             \/ notify_budget \/ fail_to_persist \/ record_usage
             \/ record_tokens_and_cost \/ DeadlinePasses
             \/ UNCHANGED vars
      PROVE  PermitsCounted'
  BY <1>0, <1>5 DEF set_budget, notify_budget, fail_to_persist, record_usage,
                    record_tokens_and_cost, DeadlinePasses, vars
<1> QED BY <1>2, <1>3, <1>4, <1>5 DEF Next, acquire

\* No action leaves a caller asleep, or about to sleep, on a change that nobody
\* will tell it about.
LEMMA WakeStep ==
  ASSUME TypeOK, NoLostWakeup, NoChangeMissed, [Next]_vars
  PROVE  NoLostWakeup' /\ NoChangeMissed'
<1> USE DEF NoLostWakeup, NoChangeMissed, TypeOK
\* Whoever notifies leaves no one unnotified.
<1>1. ASSUME notify_waiters,
             \A d \in Callers : pc'[d] \in {"waiting", "tried"} =>
                                 pc[d] \in {"enabled", "tried", "waiting"}
      PROVE  NoLostWakeup' /\ NoChangeMissed'
  <2>1. \A d \in Callers : pc'[d] \in {"waiting", "tried"} => woken'[d]
    BY <1>1 DEF notify_waiters
  <2> QED BY <2>1
<1>2. CASE notify_budget
  BY <1>1, <1>2 DEF notify_budget
<1>3. CASE fail_to_persist \/ record_usage
  BY <1>1, <1>3 DEF fail_to_persist, record_usage
<1>4. ASSUME NEW c \in Callers, notify_released(c) PROVE NoLostWakeup' /\ NoChangeMissed'
  BY <1>1, <1>4 DEF notify_released
<1>5. ASSUME NEW c \in Callers, try_acquire_unpersisted(c)
      PROVE  NoLostWakeup' /\ NoChangeMissed'
  BY <1>1, <1>5 DEF try_acquire_unpersisted
\* A change that is yet to be notified, or a deadline that has passed, is enough.
<1>6. ASSUME NotifierComing' \/ late' PROVE NoLostWakeup' /\ NoChangeMissed'
  BY <1>6
<1>7. ASSUME NEW b \in Budgets, NEW e \in BOOLEAN, NEW l \in BOOLEAN, set_budget(b, e, l)
      PROVE  NoLostWakeup' /\ NoChangeMissed'
  <2>1. pending' > 0
    BY <1>7, SMTT(30) DEF set_budget
  <2> QED BY <1>6, <2>1 DEF NotifierComing
<1>8. CASE record_tokens_and_cost
  <2>1. pending' > 0
    BY <1>8, SMTT(30) DEF record_tokens_and_cost
  <2> QED BY <1>6, <2>1 DEF NotifierComing
<1>9. CASE DeadlinePasses
  BY <1>6, <1>9 DEF DeadlinePasses
<1>10. ASSUME NEW c \in Callers, release(c) PROVE NoLostWakeup' /\ NoChangeMissed'
  <2>1. pc'[c] = "releasing"
    BY <1>10 DEF release
  <2> QED BY <1>6, <2>1 DEF NotifierComing
\* The remaining steps move one caller and take at most a place away.
<1>11. ASSUME NEW c \in Callers, enable(c) \/ wake(c) PROVE NoLostWakeup' /\ NoChangeMissed'
  <2>1. /\ \A d \in Callers : d # c => pc'[d] = pc[d] /\ woken'[d] = woken[d]
        /\ pc'[c] = "enabled" /\ pc[c] # "releasing"
        /\ UNCHANGED <<active, effects, descendants, budget, exhausted, late, failed, pending>>
    BY <1>11 DEF enable, wake
  <2>2. NotifierComing => NotifierComing'
    BY <2>1 DEF NotifierComing
  <2>3. \A d \in Callers : free(d)' = free(d) /\ hard_reason(d)' = hard_reason(d)
    BY <2>1 DEF free, hard_reason, runtime_reason
  <2> QED BY <2>1, <2>2, <2>3
<1>12. ASSUME NEW c \in Callers, try_acquire(c) PROVE NoLostWakeup' /\ NoChangeMissed'
  <2>1. /\ \A d \in Callers : d # c => pc'[d] = pc[d]
        /\ pc'[c] = "holding" /\ pc[c] = "enabled"
        /\ UNCHANGED <<woken, budget, exhausted, late, failed, pending>>
    BY <1>12 DEF try_acquire
  <2>2. NotifierComing => NotifierComing'
    BY <2>1 DEF NotifierComing
  <2>3. active' >= active /\ effects' >= effects /\ descendants' >= descendants
    BY <1>12, SMTT(30) DEF try_acquire, count
  <2>4. /\ budget.agents \in Nat /\ budget.effects \in Nat /\ budget.descendants \in Nat
        /\ active' \in Nat /\ effects' \in Nat /\ descendants' \in Nat
    BY <1>12, BudgetsAssumption, SMTT(30) DEF try_acquire, count
  <2>5. \A d \in Callers : (free(d)' => free(d)) /\ (hard_reason(d) => hard_reason(d)')
    BY <2>1, <2>3, <2>4, SMTT(30) DEF free, hard_reason, runtime_reason
  <2> QED BY <2>1, <2>2, <2>5
<1>13. ASSUME NEW c \in Callers, try_in_vain(c) \/ refuse(c) \/ wait(c) \/ abandon(c)
       PROVE  NoLostWakeup' /\ NoChangeMissed'
  <2>1. /\ \A d \in Callers : d # c => pc'[d] = pc[d]
        /\ pc[c] # "releasing"
        /\ UNCHANGED <<woken, active, effects, descendants, budget, exhausted, late, failed,
                       pending>>
    BY <1>13 DEF try_in_vain, refuse, wait, abandon
  <2>2. NotifierComing => NotifierComing'
    BY <2>1 DEF NotifierComing
  <2>3. \A d \in Callers : free(d)' = free(d) /\ hard_reason(d)' = hard_reason(d)
    BY <2>1 DEF free, hard_reason, runtime_reason
  <2>4. \/ pc'[c] \in {"refused", "idle"}
        \/ pc'[c] = "tried" /\ (hard_reason(c) \/ ~free(c))
        \/ pc'[c] = "waiting" /\ pc[c] = "tried" /\ ~hard_reason(c)
    BY <1>13 DEF try_in_vain, refuse, wait, abandon
  <2>5. ~hard_reason(c) => ~failed /\ ~exhausted
    BY DEF hard_reason, runtime_reason
  <2> QED BY <2>1, <2>2, <2>3, <2>4, <2>5
<1>14. CASE UNCHANGED vars
  BY <1>14 DEF vars, free, hard_reason, runtime_reason, NotifierComing
<1> QED
  BY <1>2, <1>3, <1>4, <1>5, <1>7, <1>8, <1>9, <1>10, <1>11, <1>12, <1>13, <1>14
  DEF Next, acquire

\* The strengthened invariant holds at the start and is kept.
LEMMA Inductive == Spec => []IInv
<1>1. Init => IInv
  <2> SUFFICES ASSUME Init PROVE IInv
    OBVIOUS
  <2>1. TypeOK
    BY TypeInit
  <2>2. Holding(Agents) = {} /\ Holding(Effects) = {}
    BY DEF Init, Holding, Callers
  <2>3. PermitsCounted
    BY <2>2, FS_EmptySet DEF PermitsCounted, Init
  <2>4. NoLostWakeup /\ NoChangeMissed
    BY DEF Init, NoLostWakeup, NoChangeMissed
  <2> QED BY <2>1, <2>3, <2>4 DEF IInv
<1>2. IInv /\ [Next]_vars => IInv'
  BY TypeStep, CountedStep, WakeStep DEF IInv
<1> QED BY <1>1, <1>2, PTL DEF Spec

\* The model's variables keep their types: usage never goes below zero, so the
\* saturating subtractions of release_agent and release_effect never saturate.
THEOREM TypeCorrect == Spec => []TypeOK
<1>1. IInv => TypeOK
  BY DEF IInv
<1> QED BY <1>1, Inductive, PTL

\* active_agents and concurrent_effects are the permits that exist.
THEOREM PermitsAreCounted == Spec => []PermitsCounted
<1>1. IInv => PermitsCounted
  BY DEF IInv
<1> QED BY <1>1, Inductive, PTL

\* No wake-up is lost between a vain attempt and the wait.
THEOREM NoWakeupLost == Spec => []NoLostWakeup
<1>1. IInv => NoLostWakeup
  BY DEF IInv
<1> QED BY <1>1, Inductive, PTL

\* As long as a caller sleeps somebody will wake it: a caller without a
\* notification on its way found no free place, every limit is at least one, and
\* the counters are the permits, so a permit of its kind exists.
THEOREM SleepersHaveWakers == Spec => []SleeperHasWaker
<1>1. IInv => SleeperHasWaker
  <2> SUFFICES ASSUME IInv, NEW c \in Callers, pc[c] = "waiting", ~woken[c],
                      ~(NotifierComing \/ late)
               PROVE  \E d \in IF c \in Effects THEN Effects ELSE Agents : pc[d] = "holding"
    BY DEF SleeperHasWaker
  <2>1. ~free(c)
    BY DEF IInv, NoLostWakeup
  <2>2. active \in Nat /\ effects \in Nat /\ budget.agents \in Nat \ {0}
        /\ budget.effects \in Nat \ {0}
    BY BudgetsAssumption DEF IInv, TypeOK
  <2>3. CASE c \in Effects
    <3>1. effects # 0
      BY <2>1, <2>2, <2>3, SMTT(30) DEF free
    <3>2. Holding(Effects) # {}
      BY <3>1, FS_EmptySet DEF IInv, PermitsCounted
    <3> QED BY <2>3, <3>2 DEF Holding
  <2>4. CASE c \notin Effects
    <3>1. active # 0
      BY <2>1, <2>2, <2>4, SMTT(30) DEF free
    <3>2. Holding(Agents) # {}
      BY <3>1, FS_EmptySet DEF IInv, PermitsCounted
    <3> QED BY <2>4, <3>2 DEF Holding
  <2> QED BY <2>3, <2>4
<1> QED BY <1>1, Inductive, PTL
=============================================================================
