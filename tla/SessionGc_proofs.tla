--------------------------- MODULE SessionGc_proofs ---------------------------
(* Proof that collection is safe (CollectionSafe of SessionGc), for any number *)
(* of sessions, Runs, collectors, crashes and claims that expire.             *)
(*                                                                            *)
(* The argument.  Once a job has its snapshot, no other session refers to a   *)
(* tree it collects: those that did were gone when the snapshot was taken,    *)
(* and require_run_not_gc_claimed, then FreshRun, keep new ones away (Apart). *)
(* So nobody writes to those Runs any more, and what a collector has deleted  *)
(* stays deleted however late it or another one goes on (Working).  What the  *)
(* snapshot missed would have to be written between the listing and its       *)
(* commit, which the allocation that is compared again excludes (Allocated).  *)
(* A root a job gives up belongs to a session with a greater id (Covers).     *)
EXTENDS SessionGc, FiniteOrders, TLAPS

\* A leaf that needs arithmetic, sequences or records cites SMT instead.
USE ZenonT(20)

Open(s) == job[s].phase \in {"planned", "ledger_deleted", "blobs_deleted"}

Jobs == [phase : Phases, snapshot : BOOLEAN, exact : SUBSET Runs,
         claim : Collectors \cup {NoCollector}, expired : BOOLEAN]
Points == {"idle", "prepare", "list", "commit_snapshot", "execute", "planned",
           "ledger_deleted"}
Allocations == [eligible : SUBSET Roots, released : SUBSET Roots]
Passes == [pc : Points, todo : Seq(Sessions), allocation : Allocations,
           listed : SUBSET Runs, left : SUBSET Runs]

Typing ==
  /\ status \in [Sessions -> {"absent", "visible", "tombstoned", "deleted"}]
  /\ refs \in [Sessions -> SUBSET Roots]
  /\ active \subseteq Sessions /\ pending \subseteq Sessions
  /\ order \in Seq(Sessions) /\ queue \in Seq(Sessions)
  /\ job \in [Sessions -> Jobs]
  /\ ledger \subseteq Runs /\ blobs \subseteq Runs
  /\ gc \in [Collectors -> Passes]

\* A session's row, its references and its job go through their lives together.
Life(s) ==
  /\ status[s] \in {"absent", "visible"} <=> job[s].phase = "none"
  /\ status[s] = "tombstoned" <=> Open(s)
  /\ status[s] \in {"absent", "deleted"} => refs[s] = {}
  /\ s \in active => status[s] = "visible"
  /\ job[s].phase \in {"ledger_deleted", "blobs_deleted", "complete"} => job[s].snapshot
  /\ job[s].phase = "none" => ~job[s].snapshot
  /\ ~job[s].snapshot => job[s].exact = {}

\* Only visible sessions are in the order of retention, and only planned jobs in
\* the queue.
Listed ==
  /\ \A i \in 1..Len(order) : status[order[i]] = "visible"
  /\ \A i \in 1..Len(queue) : job[queue[i]].phase # "none"

\* What a job collects is below a root it collects, and out of every other
\* session's reach.
Apart(s) ==
  \A q \in job[s].exact :
    /\ \E r \in Roots : /\ q \in TreeOf[r] /\ r \in job[s].exact
                        /\ Open(s) => r \in refs[s]
    /\ \A t \in Sessions \ {s} : \A x \in refs[t] : ~run_trees_overlap(q, x)

\* The conjunct of PhaseTruth for one session.
Cleared(s) ==
  /\ job[s].phase \in {"ledger_deleted", "blobs_deleted", "complete"}
       => job[s].exact \cap ledger = {}
  /\ job[s].phase \in {"blobs_deleted", "complete"}
       => job[s].exact \cap blobs = {}

\* A root of a job with a snapshot is collected whole, or a session with a
\* greater id refers to it.
Covers(s) ==
  Open(s) /\ job[s].snapshot =>
    \A r \in refs[s] :
      \/ r \in job[s].exact /\ TreeOf[r] \cap (ledger \cup blobs) \subseteq job[s].exact
      \/ \E t \in Sessions : t > s /\ r \in refs[t]

\* Blobs without records are being collected.
Leftover == \A q \in blobs \ ledger : \E s \in Sessions : q \in job[s].exact

\* While a job waits for its snapshot, what a collector has read for it stays
\* true: nobody else refers to the roots, and the list misses no Run of theirs.
Allocated(v) ==
  v.pc \in {"list", "commit_snapshot"} /\ AwaitsSnapshot(Head(v.todo)) =>
    \A r \in v.allocation.eligible :
      /\ r \in refs[Head(v.todo)]
      /\ \A t \in Sessions \ {Head(v.todo)} : r \notin refs[t]
      /\ v.pc = "commit_snapshot" => TreeOf[r] \cap (ledger \cup blobs) \subseteq v.listed

\* A collector in a stage has deleted what is no longer left to delete.
Working(v) ==
  LET s == Head(v.todo) IN
  /\ v.pc = "execute" => ~AwaitsSnapshot(s)
  /\ v.pc \in Stages => job[s].snapshot /\ v.left \subseteq job[s].exact
  /\ v.pc = "planned" => (job[s].exact \ v.left) \cap ledger = {}
  /\ v.pc = "ledger_deleted" => (job[s].exact \ v.left) \cap blobs = {}

\* A pass of a collector goes through planned jobs.
InPass(v) ==
  /\ v.pc # "idle" => v.todo # <<>>
  /\ \A i \in 1..Len(v.todo) : job[v.todo[i]].phase # "none"

Sound(v) == InPass(v) /\ Allocated(v) /\ Working(v)

IInv ==
  /\ Typing /\ Listed /\ Leftover /\ NoOrphans
  /\ \A s \in Sessions : Life(s) /\ Apart(s) /\ Cleared(s) /\ Covers(s)
  /\ \A c \in Collectors : Sound(gc[c])

-----------------------------------------------------------------------------
\* Roots overlap only with themselves, and a Run below a root with no other root.
LEMMA BelowRoot ==
  ASSUME NEW r \in Roots, NEW x \in Roots, NEW q \in TreeOf[r]
  PROVE  run_trees_overlap(q, x) <=> x = r
<1>1. q \in Runs /\ r \in Runs /\ x \in Runs
  BY TreesAssumption
<1>2. ASSUME run_trees_overlap(q, x) PROVE x = r
  <2>1. x \in TreeOf[x] /\ (q \in TreeOf[x] \/ x \in TreeOf[q])
    BY <1>1, <1>2, TreesAssumption DEF run_trees_overlap, run_is_in_tree
  <2>2. x \in TreeOf[q] => x \in TreeOf[r]
    BY <1>1, TreesAssumption
  <2>3. QED
    BY <2>1, <2>2, TreesAssumption
<1>3. QED
  BY <1>2 DEF run_trees_overlap, run_is_in_tree

LEMMA RootsOverlap ==
  ASSUME NEW a \in Roots, NEW b \in Roots
  PROVE  run_trees_overlap(a, b) <=> a = b
<1>1. a \in TreeOf[a]
  BY TreesAssumption
<1>2. QED
  BY <1>1, BelowRoot

LEMMA IdleIsSound ==
  Idle \in Passes /\ Sound(Idle)
<1>1. Idle \in Passes /\ Idle.pc = "idle" /\ Len(Idle.todo) = 0
  BY SMTT(30) DEF Idle, Passes, Points, Allocations, NoAllocation
<1>2. InPass(Idle)
  BY <1>1, SMTT(30) DEF InPass
<1> QED BY <1>1, <1>2 DEF Sound, Allocated, Working, Stages

LEMMA PassUpdate ==
  ASSUME NEW w \in Passes, NEW t \in Seq(Sessions), NEW p \in Points
  PROVE  [w EXCEPT !.todo = t, !.pc = p] \in Passes
BY DEF Passes

\* A collector that is not idle is at a planned job, and may go on to the next.
LEMMA AtJob ==
  ASSUME Typing, NEW c \in Collectors, Sound(gc[c]), gc[c].pc # "idle"
  PROVE  /\ gc[c] \in Passes /\ Job(c) = Head(gc[c].todo)
         /\ Job(c) \in Sessions /\ job[Job(c)].phase # "none" /\ job[Job(c)] \in Jobs
         /\ NextJob(c) \in Passes /\ Sound(NextJob(c))
<1>1. /\ gc[c] \in Passes /\ gc[c].todo \in Seq(Sessions) /\ gc[c].todo # <<>>
  BY DEF Typing, Sound, InPass, Passes
<1>2. /\ Job(c) = Head(gc[c].todo) /\ Job(c) \in Sessions
      /\ Job(c) = gc[c].todo[1] /\ Len(gc[c].todo) \in Nat /\ Len(gc[c].todo) > 0
  BY <1>1, SMTT(30) DEF Job
<1>3. job[Job(c)].phase # "none" /\ job[Job(c)] \in Jobs
  <2>1. \A i \in 1..Len(gc[c].todo) : job[gc[c].todo[i]].phase # "none"
    BY DEF Sound, InPass
  <2> QED BY <1>2, <2>1, SMTT(30) DEF Typing
<1> DEFINE t == Tail(gc[c].todo)
<1>4. /\ t \in Seq(Sessions) /\ Len(t) = Len(gc[c].todo) - 1
      /\ \A i \in 1..Len(t) : i + 1 \in 1..Len(gc[c].todo) /\ t[i] = gc[c].todo[i + 1]
  BY <1>1, SMTT(30)
<1> HIDE DEF t
<1>6. Len(gc[c].todo) # 1 => t # <<>>
  <2>1. Len(gc[c].todo) # 1 => Len(t) # 0
    BY <1>2, <1>4, SMTT(30)
  <2> QED BY <2>1
<1>5. ASSUME NEW i \in 1..Len(t) PROVE job[t[i]].phase # "none"
  <2>1. PICK j \in 1..Len(gc[c].todo) : t[i] = gc[c].todo[j]
    BY <1>4
  <2> QED BY <2>1 DEF Sound, InPass
<1> DEFINE pc == IF Len(gc[c].todo) = 1 THEN "idle" ELSE "prepare"
           v == NextJob(c)
<1>7. pc \in {"idle", "prepare"} /\ (pc # "idle" => t # <<>>)
  BY <1>6
<1> HIDE DEF pc
<1>b. v = [Idle EXCEPT !.todo = t, !.pc = pc]
  BY DEF NextJob, t, pc
<1> HIDE DEF v
<1>a. v \in Passes /\ v.todo = t /\ v.pc = pc
  <2>1. Idle \in Passes /\ t \in Seq(Sessions)
    BY <1>4, IdleIsSound
  <2>2. pc \in Points
    BY <1>7 DEF Points
  <2>3. v.todo = t /\ v.pc = pc
    BY <1>b, <2>1 DEF Passes
  <2>4. v \in Passes
    BY <1>b, <2>1, <2>2, PassUpdate
  <2> QED BY <2>3, <2>4
<1>8. InPass(v)
  BY <1>5, <1>7, <1>a DEF InPass
<1>9. Allocated(v) /\ Working(v)
  BY <1>7, <1>a DEF Allocated, Working, Stages
<1> QED BY <1>1, <1>2, <1>3, <1>a, <1>8, <1>9 DEF v, Sound

\* A pass stays sound when the jobs it reads keep their phase, snapshot and exact
\* Runs, and neither references nor records are added.
LEMMA SoundKept ==
  ASSUME NEW v \in Passes, Sound(v),
         \A s \in Sessions : /\ job'[s].phase = job[s].phase
                             /\ job'[s].snapshot = job[s].snapshot
                             /\ job'[s].exact = job[s].exact,
         refs' = refs, ledger' \subseteq ledger, blobs' \subseteq blobs
  PROVE  Sound(v)'
<1>1. v.todo \in Seq(Sessions)
  BY DEF Passes
<1>2. \A i \in 1..Len(v.todo) : v.todo[i] \in Sessions
  BY <1>1, SMTT(30)
<1>3. v.todo # <<>> => Head(v.todo) \in Sessions
  BY <1>1, SMTT(30)
<1>4. InPass(v)'
  BY <1>2 DEF Sound, InPass
<1>5. v.pc # "idle" => Head(v.todo) \in Sessions
  BY <1>3 DEF Sound, InPass
<1>6. Allocated(v)'
  BY <1>5 DEF Sound, Allocated, AwaitsSnapshot
<1>7. Working(v)'
  BY <1>5 DEF Sound, Working, AwaitsSnapshot, Stages
<1> QED BY <1>4, <1>6, <1>7 DEF Sound

(* The steps.                                                                 *)

\* Steps that change no session, reference, record or blob, and of the jobs only
\* who has claimed them.
LEMMA Frame ==
  ASSUME IInv,
         UNCHANGED <<status, refs, ledger, blobs, queue>>,
         job' \in [Sessions -> Jobs], gc' \in [Collectors -> Passes],
         \A s \in Sessions : /\ job'[s].phase = job[s].phase
                             /\ job'[s].snapshot = job[s].snapshot
                             /\ job'[s].exact = job[s].exact,
         active' \subseteq {s \in Sessions : status[s] = "visible"},
         pending' \subseteq Sessions,
         order' \in Seq(Sessions),
         \A i \in 1..Len(order') : status[order'[i]] = "visible",
         \A c \in Collectors : \E v \in Passes : gc'[c] = v /\ Sound(v)
  PROVE  IInv'
<1>1. Typing'
  BY DEF IInv, Typing
<1>2. Listed'
  <2>1. \A i \in 1..Len(queue) : queue[i] \in Sessions
    BY SMTT(30) DEF IInv, Typing
  <2> QED BY <2>1 DEF IInv, Listed
<1>3. Leftover' /\ NoOrphans'
  BY DEF IInv, Leftover, NoOrphans
<1>4. ASSUME NEW s \in Sessions
      PROVE  Life(s)' /\ Apart(s)' /\ Cleared(s)' /\ Covers(s)'
  <2>1. Life(s) /\ Apart(s) /\ Cleared(s) /\ Covers(s)
    BY DEF IInv
  <2>2. Life(s)'
    BY <2>1 DEF Life, Open
  <2>3. Apart(s)'
    BY <2>1 DEF Apart, Open
  <2>4. Cleared(s)'
    BY <2>1 DEF Cleared
  <2>5. Covers(s)'
    BY <2>1 DEF Covers, Open
  <2> QED BY <2>2, <2>3, <2>4, <2>5
<1>5. ASSUME NEW c \in Collectors PROVE Sound(gc[c])'
  <2>1. PICK v \in Passes : gc'[c] = v /\ Sound(v)
    OBVIOUS
  <2>2. Sound(v)'
    BY <2>1, SoundKept
  <2> QED BY <2>1, <2>2 DEF Sound, InPass, Allocated, Working
<1> QED BY <1>1, <1>2, <1>3, <1>4, <1>5 DEF IInv

LEMMA InitIInv ==
  Init => IInv
<1> SUFFICES ASSUME Init PROVE IInv
  OBVIOUS
<1>1. NoJob \in Jobs /\ NoJob.phase = "none" /\ NoJob.exact = {} /\ NoJob.snapshot = FALSE
  BY DEF NoJob, Jobs, Phases
<1>2. Typing
  BY <1>1, IdleIsSound, SMTT(30) DEF Init, Typing
<1>3. Listed /\ Leftover /\ NoOrphans
  BY SMTT(30) DEF Init, Listed, Leftover, NoOrphans
<1>4. \A s \in Sessions : Life(s) /\ Apart(s) /\ Cleared(s) /\ Covers(s)
  BY <1>1 DEF Init, Life, Apart, Cleared, Covers, Open
<1>5. \A c \in Collectors : Sound(gc[c])
  BY IdleIsSound DEF Init
<1> QED BY <1>2, <1>3, <1>4, <1>5 DEF IInv

\* A new session brings one root, which no job claims or has collected.
LEMMA CreateStep ==
  ASSUME IInv, NEW s \in Sessions, NEW r \in Roots, create_active(s, r)
  PROVE  IInv'
<1>1. /\ status[s] = "absent" /\ require_run_not_gc_claimed(r) /\ FreshRun(r)
      /\ UNCHANGED <<pending, job, queue, ledger, blobs, gc>>
      /\ active' = active \cup {s} /\ order' = Append(order, s)
  BY DEF create_active
<1>2. Typing /\ Listed
  BY DEF IInv
<1>3. Life(s) /\ Apart(s) /\ Cleared(s) /\ Covers(s)
  BY DEF IInv
<1>4. /\ status' \in [Sessions -> {"absent", "visible", "tombstoned", "deleted"}]
      /\ status'[s] = "visible" /\ \A t \in Sessions \ {s} : status'[t] = status[t]
  BY <1>2 DEF create_active, Typing
<1>5. /\ refs' \in [Sessions -> SUBSET Roots] /\ refs'[s] = {r}
      /\ \A t \in Sessions \ {s} : refs'[t] = refs[t]
  BY <1>2 DEF create_active, Typing
<1>6. job[s].phase = "none" /\ refs[s] = {} /\ ~Open(s)
  BY <1>1, <1>3 DEF Life, Open
<1>7. ~job[s].snapshot
  BY <1>3, <1>6 DEF Life
<1>8. job[s].exact = {}
  BY <1>3, <1>7 DEF Life
<1>9. \A t \in Sessions : refs[t] \subseteq refs'[t]
  BY <1>5, <1>6
<1>10. \A t \in Sessions : /\ Open(t)' <=> Open(t)
                           /\ AwaitsSnapshot(t)' <=> AwaitsSnapshot(t)
  BY <1>1 DEF Open, AwaitsSnapshot
<1>11. ASSUME NEW t \in Sessions, Open(t), NEW x \in refs[t] PROVE x \in Roots /\ x # r
  <2>1. x \in Roots
    BY <1>2 DEF Typing
  <2>2. x \in Claimed(t)
    BY <1>11 DEF Claimed, Open
  <2>3. ~run_trees_overlap(r, x)
    BY <1>1, <2>2 DEF require_run_not_gc_claimed
  <2> QED BY <2>1, <2>3, RootsOverlap
<1>12. Typing'
  <2>1. order' \in Seq(Sessions)
    BY <1>1, <1>2, SMTT(30) DEF Typing
  <2> QED BY <1>1, <1>2, <1>4, <1>5, <2>1 DEF Typing
<1>13. Listed'
  <2>1. order \in Seq(Sessions)
    BY <1>2 DEF Typing
  <2>2. ASSUME NEW i \in 1..Len(order') PROVE status'[order'[i]] = "visible"
    <3>1. CASE i \in 1..Len(order)
      <4>1. order'[i] = order[i] /\ order[i] \in Sessions /\ status[order[i]] = "visible"
        BY <1>1, <1>2, <2>1, <3>1, SMTT(30) DEF Listed
      <4> QED BY <1>1, <1>4, <4>1
    <3>2. CASE i \notin 1..Len(order)
      <4>1. order'[i] = s
        BY <1>1, <2>1, <2>2, <3>2, SMTT(30)
      <4> QED BY <1>4, <4>1
    <3> QED BY <3>1, <3>2
  <2> QED BY <1>1, <1>2, <2>2 DEF Listed
<1>14. Leftover'
  BY <1>1 DEF IInv, Leftover
<1>15. NoOrphans'
  BY <1>1, <1>9 DEF IInv, NoOrphans, run_is_in_tree
<1>16. ASSUME NEW t \in Sessions
       PROVE  Life(t)' /\ Apart(t)' /\ Cleared(t)' /\ Covers(t)'
  <2>1. Life(t) /\ Apart(t) /\ Cleared(t) /\ Covers(t)
    BY DEF IInv
  <2>2. CASE t = s
    <3>1. Life(s)'
      <4>1. ~job'[s].snapshot
        BY <1>1, <1>7
      <4>2. job'[s].phase = "none" /\ job'[s].exact = {} /\ ~Open(s)'
        BY <1>1, <1>6, <1>8, <1>10
      <4> QED BY <1>4, <4>1, <4>2 DEF Life
    <3>2. Apart(s)' /\ Cleared(s)'
      BY <1>1, <1>8 DEF Apart, Cleared
    <3>3. Covers(s)'
      BY <1>6, <1>10 DEF Covers
    <3> QED BY <2>2, <3>1, <3>2, <3>3
  <2>3. CASE t # s
    <3>1. /\ job' = job /\ refs'[t] = refs[t] /\ status'[t] = status[t]
          /\ t \in active' <=> t \in active
      BY <1>1, <1>4, <1>5, <2>3
    <3>2. Life(t)'
      BY <1>10, <2>1, <3>1 DEF Life
    <3>3. Apart(t)'
      <4> SUFFICES ASSUME NEW q \in job[t].exact
                   PROVE  ~run_trees_overlap(q, r)
        BY <1>5, <1>10, <2>1, <3>1, SMTT(30) DEF Apart, run_trees_overlap
      <4>1. PICK x \in Roots : /\ q \in TreeOf[x] /\ x \in job[t].exact
                               /\ Open(t) => x \in refs[t]
        BY <2>1 DEF Apart
      <4>2. job[t].phase # "none"
        <5>1. CASE job[t].snapshot
          BY <2>1, <5>1 DEF Life
        <5>2. CASE ~job[t].snapshot
          BY <2>1, <5>2 DEF Life
        <5> QED BY <5>1, <5>2
      <4>3. CASE Open(t)
        <5>1. x # r
          BY <1>11, <4>1, <4>3
        <5> QED BY <4>1, <5>1, BelowRoot
      <4>4. CASE ~Open(t)
        <5>1. job[t].phase = "complete"
          BY <1>2, <4>2, <4>4 DEF Open, Typing, Jobs, Phases
        <5>2. r \notin job[t].exact
          BY <1>1, <5>1 DEF FreshRun
        <5> QED BY <4>1, <5>2, BelowRoot
      <4> QED BY <4>3, <4>4
    <3>4. Cleared(t)'
      BY <1>1, <2>1 DEF Cleared
    <3>5. Covers(t)'
      BY <1>1, <1>9, <1>10, <2>1, <3>1 DEF Covers
    <3> QED BY <3>2, <3>3, <3>4, <3>5
  <2> QED BY <2>2, <2>3
<1>17. ASSUME NEW c \in Collectors PROVE Sound(gc[c])'
  <2>1. gc'[c] = gc[c] /\ gc[c] \in Passes /\ Sound(gc[c])
    BY <1>1, <1>2 DEF IInv, Typing
  <2>2. PICK v \in Passes : v = gc[c]
    BY <2>1
  <2>3. Sound(v)
    BY <2>1, <2>2
  <2>4. v.pc # "idle" => Head(v.todo) \in Sessions
    BY <2>3, SMTT(30) DEF Sound, InPass, Passes
  <2>5. InPass(v)' /\ Working(v)'
    BY <1>1, <2>3 DEF Sound, InPass, Working, AwaitsSnapshot
  <2>6. Allocated(v)'
    <3> SUFFICES ASSUME v.pc \in {"list", "commit_snapshot"}, AwaitsSnapshot(Head(v.todo)),
                        NEW x \in v.allocation.eligible
                 PROVE  /\ x \in refs'[Head(v.todo)]
                        /\ \A t \in Sessions \ {Head(v.todo)} : x \notin refs'[t]
      BY <1>1, <2>3 DEF Sound, Allocated, AwaitsSnapshot
    <3>1. PICK h \in Sessions : h = Head(v.todo)
      BY <2>4
    <3>2. x \in refs[h] /\ \A t \in Sessions \ {h} : x \notin refs[t]
      BY <2>3, <3>1 DEF Sound, Allocated
    <3>3. Open(h)
      BY <3>1 DEF AwaitsSnapshot, Open
    <3>4. x # r
      BY <1>11, <3>2, <3>3
    <3> QED BY <1>5, <1>9, <3>1, <3>2, <3>4
  <2>7. Sound(v)'
    BY <2>5, <2>6 DEF Sound
  <2> QED BY <2>1, <2>2, <2>7 DEF Sound, InPass, Allocated, Working
<1> QED BY <1>12, <1>13, <1>14, <1>15, <1>16, <1>17 DEF IInv

\* A session's engine records a Run below one of its roots, where nobody
\* collects: neither a job's snapshot nor what a collector has listed for one.
LEMMA RecordStep ==
  ASSUME IInv, NEW s \in Sessions, NEW q \in Runs, RecordRun(s, q)
  PROVE  IInv'
<1>1. /\ s \in active /\ ledger' = ledger \cup {q} /\ blobs' = blobs \cup {q}
      /\ UNCHANGED <<status, refs, active, pending, order, job, queue, gc>>
  BY DEF RecordRun
<1>2. PICK r \in refs[s] : q \in TreeOf[r]
  BY DEF RecordRun, run_is_in_tree
<1>3. Typing /\ Listed /\ Leftover /\ NoOrphans
  BY DEF IInv
<1>4. Life(s)
  BY DEF IInv
<1>5. job[s].phase = "none" /\ ~Open(s) /\ r \in Roots
  BY <1>1, <1>3, <1>4 DEF Life, Open, Typing
<1>6. ~job[s].snapshot
  BY <1>4, <1>5 DEF Life
<1>7. job[s].exact = {}
  BY <1>4, <1>6 DEF Life
<1>8. ASSUME NEW x \in Roots, x # r PROVE q \notin TreeOf[x]
  BY <1>2, <1>5, <1>8, TreesAssumption
<1>9. ASSUME NEW t \in Sessions PROVE q \notin job[t].exact /\ r \notin job[t].exact
  <2>1. CASE t = s
    BY <1>7, <2>1
  <2>2. CASE t # s
    <3>1. Apart(t)
      BY DEF IInv
    <3>2. run_trees_overlap(q, r) /\ run_trees_overlap(r, r)
      BY <1>2, <1>5, BelowRoot, RootsOverlap
    <3> QED BY <2>2, <3>1, <3>2 DEF Apart
  <2> QED BY <2>1, <2>2
<1>10. \A t \in Sessions : /\ Open(t)' <=> Open(t)
                           /\ AwaitsSnapshot(t)' <=> AwaitsSnapshot(t)
  BY <1>1 DEF Open, AwaitsSnapshot
<1>11. Typing' /\ Listed' /\ Leftover'
  BY <1>1, <1>3 DEF Typing, Listed, Leftover
<1>12. NoOrphans'
  BY <1>1, <1>2, <1>3 DEF NoOrphans, run_is_in_tree
<1>13. ASSUME NEW t \in Sessions
       PROVE  Life(t)' /\ Apart(t)' /\ Cleared(t)' /\ Covers(t)'
  <2>1. Life(t) /\ Apart(t) /\ Cleared(t) /\ Covers(t)
    BY DEF IInv
  <2>2. Life(t)'
    BY <1>1, <1>10, <2>1 DEF Life
  <2>3. Apart(t)'
    BY <1>1, <1>10, <2>1 DEF Apart, run_trees_overlap
  <2>4. Cleared(t)'
    BY <1>1, <1>9, <2>1 DEF Cleared
  <2>5. Covers(t)'
    <3> SUFFICES ASSUME Open(t), job[t].snapshot, NEW x \in refs[t],
                        ~\E y \in Sessions : y > t /\ x \in refs[y]
                 PROVE  /\ x \in job[t].exact
                        /\ TreeOf[x] \cap (ledger' \cup blobs') \subseteq job[t].exact
      BY <1>1, <1>10 DEF Covers
    <3>1. x \in job[t].exact /\ TreeOf[x] \cap (ledger \cup blobs) \subseteq job[t].exact
      BY <2>1 DEF Covers
    <3>2. x \in Roots /\ x # r
      BY <1>3, <1>9, <3>1 DEF Typing
    <3>3. q \notin TreeOf[x]
      BY <1>8, <3>2
    <3> QED BY <1>1, <3>1, <3>3
  <2> QED BY <2>2, <2>3, <2>4, <2>5
<1>14. ASSUME NEW c \in Collectors PROVE Sound(gc[c])'
  <2>1. gc'[c] = gc[c] /\ gc[c] \in Passes /\ Sound(gc[c])
    BY <1>1, <1>3 DEF IInv, Typing
  <2>2. PICK v \in Passes : v = gc[c]
    BY <2>1
  <2>3. Sound(v)
    BY <2>1, <2>2
  <2>4. v.pc # "idle" => Head(v.todo) \in Sessions
    BY <2>3, SMTT(30) DEF Sound, InPass, Passes
  <2>5. InPass(v)'
    BY <1>1, <2>3 DEF Sound, InPass
  <2>6. Working(v)'
    BY <1>1, <1>9, <2>3, <2>4 DEF Sound, Working, AwaitsSnapshot, Stages
  <2>7. Allocated(v)'
    <3> SUFFICES ASSUME v.pc \in {"list", "commit_snapshot"}, AwaitsSnapshot(Head(v.todo)),
                        NEW x \in v.allocation.eligible
                 PROVE  q \notin TreeOf[x]
      BY <1>1, <2>3 DEF Sound, Allocated, AwaitsSnapshot
    <3>1. PICK h \in Sessions : h = Head(v.todo)
      BY <2>4
    <3>2. h # s
      BY <1>5, <3>1 DEF AwaitsSnapshot
    <3>3. x \notin refs[s]
      BY <2>3, <3>1, <3>2 DEF Sound, Allocated
    <3>4. x \in Roots
      BY DEF Passes, Allocations
    <3> QED BY <1>8, <3>3, <3>4
  <2>8. Sound(v)'
    BY <2>5, <2>6, <2>7 DEF Sound
  <2> QED BY <2>1, <2>2, <2>8 DEF Sound, InPass, Allocated, Working
<1> QED BY <1>11, <1>12, <1>13, <1>14 DEF IInv

-----------------------------------------------------------------------------
\* A collector's step that changes no job but its claim.
LEMMA PassStep ==
  ASSUME IInv, NEW c \in Collectors, NEW v \in Passes, Sound(v),
         gc' = [gc EXCEPT ![c] = v],
         UNCHANGED <<store, queue, ledger, blobs>>,
         job' \in [Sessions -> Jobs],
         \A s \in Sessions : /\ job'[s].phase = job[s].phase
                             /\ job'[s].snapshot = job[s].snapshot
                             /\ job'[s].exact = job[s].exact
  PROVE  IInv'
<1>1. gc \in [Collectors -> Passes] /\ \A d \in Collectors : Sound(gc[d])
  BY DEF IInv, Typing
<1>2. gc' \in [Collectors -> Passes]
  BY <1>1
<1>3. \A d \in Collectors : \E w \in Passes : gc'[d] = w /\ Sound(w)
  <2> TAKE d \in Collectors
  <2>1. CASE d = c
    BY <1>1, <2>1
  <2>2. CASE d # c
    BY <1>1, <2>2
  <2> QED BY <2>1, <2>2
<1>4. /\ UNCHANGED <<status, refs, active, pending, order>>
  BY DEF store
<1>5. /\ active' \subseteq {t \in Sessions : status[t] = "visible"} /\ pending' \subseteq Sessions
      /\ order' \in Seq(Sessions) /\ \A i \in 1..Len(order') : status[order'[i]] = "visible"
  BY <1>4 DEF IInv, Typing, Life, Listed
<1> QED BY <1>2, <1>3, <1>4, <1>5, Frame

LEMMA JobsUnchanged ==
  ASSUME Typing, job' = job
  PROVE  /\ job' \in [Sessions -> Jobs]
         /\ \A s \in Sessions : /\ job'[s].phase = job[s].phase
                                /\ job'[s].snapshot = job[s].snapshot
                                /\ job'[s].exact = job[s].exact
BY DEF Typing

\* A claim is set, cleared or found expired.
LEMMA JobClaimed ==
  ASSUME Typing, NEW s \in Sessions, NEW k \in Collectors \cup {NoCollector},
         NEW e \in BOOLEAN, job' = [job EXCEPT ![s] = [@ EXCEPT !.claim = k, !.expired = e]]
  PROVE  /\ job' \in [Sessions -> Jobs]
         /\ \A t \in Sessions : /\ job'[t].phase = job[t].phase
                                /\ job'[t].snapshot = job[t].snapshot
                                /\ job'[t].exact = job[t].exact
<1> DEFINE j == [job[s] EXCEPT !.claim = k, !.expired = e]
<1>1. job[s] \in Jobs /\ job \in [Sessions -> Jobs]
  BY DEF Typing
<1>2. j \in Jobs
  BY <1>1 DEF Jobs
<1>3. j.phase = job[s].phase /\ j.snapshot = job[s].snapshot /\ j.exact = job[s].exact
  BY <1>1 DEF Jobs
<1>4. job' = [job EXCEPT ![s] = j]
  OBVIOUS
<1> HIDE DEF j
<1> QED BY <1>1, <1>2, <1>3, <1>4

LEMMA PassMoves ==
  ASSUME IInv, NEW c \in Collectors, NEW v \in Passes, Sound(v),
         gc' = [gc EXCEPT ![c] = v],
         UNCHANGED <<store, job, queue, ledger, blobs>>
  PROVE  IInv'
<1>1. Typing /\ job' = job /\ UNCHANGED <<store, queue, ledger, blobs>>
  BY DEF IInv
<1>2. /\ job' \in [Sessions -> Jobs]
      /\ \A s \in Sessions : /\ job'[s].phase = job[s].phase
                             /\ job'[s].snapshot = job[s].snapshot
                             /\ job'[s].exact = job[s].exact
  BY <1>1, JobsUnchanged
<1> QED BY <1>1, <1>2, PassStep

LEMMA CrashStep ==
  ASSUME IInv, NEW c \in Collectors, Crash(c)
  PROVE  IInv'
<1>1. gc' = [gc EXCEPT ![c] = Idle] /\ UNCHANGED <<store, job, queue, ledger, blobs>>
  BY DEF Crash
<1> QED BY <1>1, IdleIsSound, PassMoves DEF IInv

\* Whoever refers to a root that s may collect is s.
LEMMA EligibleIsOwn ==
  ASSUME Typing, NEW s \in Sessions, SnapshotReady(s), NEW r \in Allocation(s).eligible
  PROVE  r \in refs[s] /\ \A t \in Sessions \ {s} : r \notin refs[t]
<1>1. /\ r \in refs[s] /\ Greatest(s, r)
      /\ \A x \in refs[s] : Greatest(s, x) => Owners(s, x) = {s}
  BY DEF Allocation, allocate_run_tree, SnapshotReady
<1>2. ASSUME NEW t \in Sessions \ {s}, r \in refs[t] PROVE FALSE
  <2>1. r \in Roots
    BY <1>1 DEF Typing
  <2>2. run_trees_overlap(r, r)
    BY <2>1, RootsOverlap
  <2>3. t \in Owners(s, r)
    BY <1>2, <2>2 DEF Owners, other_run_references
  <2> QED BY <1>1, <2>3
<1> QED BY <1>1, <1>2

LEMMA AllocationType ==
  ASSUME Typing, NEW s \in Sessions
  PROVE  Allocation(s) \in Allocations
<1>1. refs[s] \subseteq Roots
  BY DEF Typing
<1> QED BY <1>1 DEF Allocation, allocate_run_tree, Allocations

LEMMA PrepareStep ==
  ASSUME IInv, NEW c \in Collectors, prepare_gc_snapshot(c)
  PROVE  IInv'
<1> DEFINE s == Job(c)
<1>1. /\ Typing /\ Sound(gc[c]) /\ gc[c].pc = "prepare" /\ gc[c].pc # "idle"
      /\ UNCHANGED <<store, job, queue, ledger, blobs>>
  BY DEF IInv, prepare_gc_snapshot, At
<1>2. /\ gc[c] \in Passes /\ s = Head(gc[c].todo) /\ s \in Sessions
      /\ NextJob(c) \in Passes /\ Sound(NextJob(c))
  BY <1>1, AtJob
<1>3. gc' = [gc EXCEPT ![c] =
              IF ~AwaitsSnapshot(s) THEN [gc[c] EXCEPT !.pc = "execute"]
              ELSE IF SnapshotReady(s)
              THEN [gc[c] EXCEPT !.pc = "list", !.allocation = Allocation(s)]
              ELSE NextJob(c)]
  BY DEF prepare_gc_snapshot
<1> HIDE DEF s
<1>4. CASE ~AwaitsSnapshot(s)
  <2> DEFINE v == [gc[c] EXCEPT !.pc = "execute"]
  <2>1. gc' = [gc EXCEPT ![c] = v]
    BY <1>3, <1>4
  <2>2. v \in Passes /\ v.pc = "execute" /\ v.todo = gc[c].todo
    BY <1>2 DEF Passes, Points
  <2> HIDE DEF v
  <2>3. Sound(v)
    BY <1>1, <1>2, <1>4, <2>2 DEF Sound, InPass, Allocated, Working, Stages
  <2> QED BY <1>1, <2>1, <2>2, <2>3, PassMoves
<1>5. CASE AwaitsSnapshot(s) /\ SnapshotReady(s)
  <2> DEFINE a == Allocation(s)
             v == [gc[c] EXCEPT !.pc = "list", !.allocation = a]
  <2>1. gc' = [gc EXCEPT ![c] = v]
    BY <1>3, <1>5
  <2>2. a \in Allocations /\ "list" \in Points
    BY <1>1, <1>2, AllocationType DEF Points
  <2>3. \A r \in a.eligible : r \in refs[s] /\ \A t \in Sessions \ {s} : r \notin refs[t]
    BY <1>1, <1>2, <1>5, EligibleIsOwn
  <2> HIDE DEF a
  <2>4. v \in Passes
    BY <1>2, <2>2 DEF Passes
  <2>5. v.pc = "list" /\ v.todo = gc[c].todo /\ v.allocation = a
    BY <1>2 DEF Passes
  <2> HIDE DEF v
  <2>6. InPass(v) /\ Working(v)
    BY <1>1, <2>5 DEF Sound, InPass, Working, Stages
  <2>7. Allocated(v)
    BY <1>2, <2>3, <2>5 DEF Allocated
  <2>8. Sound(v)
    BY <2>6, <2>7 DEF Sound
  <2> QED BY <1>1, <2>1, <2>4, <2>8, PassMoves
<1>6. CASE AwaitsSnapshot(s) /\ ~SnapshotReady(s)
  <2>1. gc' = [gc EXCEPT ![c] = NextJob(c)]
    BY <1>3, <1>6
  <2> QED BY <1>1, <1>2, <2>1, PassMoves
<1> QED BY <1>4, <1>5, <1>6

LEMMA ListStep ==
  ASSUME IInv, NEW c \in Collectors, run_ids(c)
  PROVE  IInv'
<1> DEFINE s == Job(c)
           v == [gc[c] EXCEPT !.pc = "commit_snapshot", !.listed = ledger]
<1>1. /\ Typing /\ Sound(gc[c]) /\ gc[c].pc = "list" /\ gc[c].pc # "idle"
      /\ UNCHANGED <<store, job, queue, ledger, blobs>>
  BY DEF IInv, run_ids, At
<1>2. /\ gc[c] \in Passes /\ s = Head(gc[c].todo) /\ s \in Sessions
  BY <1>1, AtJob
<1>3. gc' = [gc EXCEPT ![c] = v]
  BY DEF run_ids
<1>4. ledger \in SUBSET Runs /\ "commit_snapshot" \in Points
  BY <1>1 DEF Typing, Points
<1>5. v \in Passes
  BY <1>2, <1>4 DEF Passes
<1>6. /\ v.pc = "commit_snapshot" /\ v.todo = gc[c].todo /\ v.listed = ledger
      /\ v.allocation = gc[c].allocation
  BY <1>2 DEF Passes
<1> HIDE DEF v, s
<1>7. InPass(v) /\ Working(v)
  BY <1>1, <1>6 DEF Sound, InPass, Working, Stages
<1>8. Allocated(v)
  <2> SUFFICES ASSUME AwaitsSnapshot(s), NEW r \in gc[c].allocation.eligible
               PROVE  /\ r \in refs[s] /\ \A t \in Sessions \ {s} : r \notin refs[t]
                      /\ TreeOf[r] \cap (ledger \cup blobs) \subseteq ledger
    BY <1>2, <1>6 DEF Allocated
  <2>1. r \in refs[s] /\ \A t \in Sessions \ {s} : r \notin refs[t]
    BY <1>1, <1>2 DEF Sound, Allocated
  <2>2. r \in Roots
    BY <1>1, <1>2, <2>1 DEF Typing
  <2>3. ASSUME NEW q \in blobs, q \in TreeOf[r], q \notin ledger PROVE FALSE
    <3>1. PICK t \in Sessions : q \in job[t].exact
      BY <2>3 DEF IInv, Leftover
    <3>2. Apart(t) /\ Life(t) /\ Life(s)
      BY <1>2 DEF IInv
    <3>3. PICK x \in Roots : q \in TreeOf[x]
      BY <3>1, <3>2 DEF Apart
    <3>4. run_trees_overlap(q, r)
      BY <2>3 DEF run_trees_overlap, run_is_in_tree
    <3>5. t = s
      BY <1>2, <2>1, <3>1, <3>2, <3>4 DEF Apart
    <3>6. job[s].exact = {}
      BY <3>2 DEF Life, AwaitsSnapshot
    <3> QED BY <3>1, <3>5, <3>6
  <2> QED BY <2>1, <2>3
<1>9. Sound(v)
  BY <1>7, <1>8 DEF Sound
<1> QED BY <1>1, <1>3, <1>5, <1>9, PassMoves

\* The conditions of execute: a job that awaits its snapshot is not executed.
LEMMA ToExecute ==
  ASSUME Typing, NEW c \in Collectors, Sound(gc[c]), gc[c].pc # "idle",
         NEW v, v = [gc[c] EXCEPT !.pc = "execute"]
  PROVE  /\ v \in Passes /\ InPass(v) /\ v.pc = "execute" /\ v.todo = gc[c].todo
         /\ ~AwaitsSnapshot(Job(c)) => Sound(v)
<1>1. gc[c] \in Passes /\ Job(c) = Head(gc[c].todo)
  BY AtJob
<1>2. "execute" \in Points
  BY DEF Points
<1>3. v \in Passes
  BY <1>1, <1>2 DEF Passes
<1>4. v.pc = "execute" /\ v.todo = gc[c].todo
  BY <1>1 DEF Passes
<1> QED BY <1>1, <1>3, <1>4 DEF Sound, InPass, Allocated, Working, Stages

LEMMA AcquireStep ==
  ASSUME IInv, NEW c \in Collectors, acquire_gc_stage(c)
  PROVE  IInv'
<1> DEFINE s == Job(c)
           free == job[s].claim = NoCollector \/ job[s].expired
           v == [gc[c] EXCEPT !.pc = job[s].phase, !.left = job[s].exact]
<1>1. /\ Typing /\ Sound(gc[c]) /\ gc[c].pc = "execute" /\ gc[c].pc # "idle"
      /\ UNCHANGED <<store, queue, ledger, blobs>>
      /\ job[s].phase \in Stages
  BY DEF IInv, acquire_gc_stage, At
<1>2. /\ gc[c] \in Passes /\ s = Head(gc[c].todo) /\ s \in Sessions
      /\ job[s] \in Jobs /\ NextJob(c) \in Passes /\ Sound(NextJob(c))
  BY <1>1, AtJob
<1>3. \/ /\ job' = [job EXCEPT ![s] = [@ EXCEPT !.claim = c, !.expired = FALSE]]
         /\ gc' = [gc EXCEPT ![c] = v]
      \/ gc' = [gc EXCEPT ![c] = NextJob(c)] /\ job' = job
  BY DEF acquire_gc_stage
<1>4. CASE gc' = [gc EXCEPT ![c] = NextJob(c)] /\ job' = job
  <2>1. UNCHANGED <<store, job, queue, ledger, blobs>>
    BY <1>1, <1>4
  <2> QED BY <1>2, <1>4, <2>1, PassMoves
<1>5. CASE /\ job' = [job EXCEPT ![s] = [@ EXCEPT !.claim = c, !.expired = FALSE]]
           /\ gc' = [gc EXCEPT ![c] = v]
  <2>1. job[s].phase \in Points /\ job[s].exact \in SUBSET Runs
    BY <1>1, <1>2 DEF Points, Stages, Jobs
  <2>2. v \in Passes
    BY <1>2, <2>1 DEF Passes
  <2>3. v.pc = job[s].phase /\ v.todo = gc[c].todo /\ v.left = job[s].exact
    BY <1>2 DEF Passes
  <2>4. gc' = [gc EXCEPT ![c] = v]
    BY <1>5
  <2> HIDE DEF v
  <2>5. job[s].snapshot
    <3>1. ~AwaitsSnapshot(s)
      BY <1>1, <1>2 DEF Sound, Working
    <3>2. Life(s)
      BY <1>2 DEF IInv
    <3> QED BY <1>1, <1>2, <3>1, <3>2 DEF Life, AwaitsSnapshot, Stages, Jobs
  <2>6. InPass(v) /\ Allocated(v)
    BY <1>1, <2>3 DEF Sound, InPass, Allocated, Stages
  <2>7. Working(v)
    BY <1>1, <1>2, <2>3, <2>5 DEF Working, Stages
  <2>8. Sound(v)
    BY <2>6, <2>7 DEF Sound
  <2>9. /\ job' \in [Sessions -> Jobs]
        /\ \A t \in Sessions : /\ job'[t].phase = job[t].phase
                               /\ job'[t].snapshot = job[t].snapshot
                               /\ job'[t].exact = job[t].exact
    <3>1. c \in Collectors \cup {NoCollector} /\ FALSE \in BOOLEAN /\ s \in Sessions
      BY <1>2
    <3> HIDE DEF s
    <3> QED BY <1>1, <1>5, <3>1, JobClaimed
  <2> QED BY <1>1, <2>2, <2>4, <2>8, <2>9, PassStep
<1> QED BY <1>3, <1>4, <1>5

LEMMA ExpireStep ==
  ASSUME IInv, NEW s \in Sessions, ExpireAbandoned(s) \/ ExpireSlow(s)
  PROVE  IInv'
<1> DEFINE k == job[s].claim
<1>1. /\ UNCHANGED <<status, refs, active, pending, order, ledger, blobs, queue, gc>>
      /\ job' = [job EXCEPT ![s] = [@ EXCEPT !.expired = TRUE]]
  BY DEF ExpireAbandoned, ExpireSlow, store
<1>2. Typing /\ job \in [Sessions -> Jobs] /\ job[s] \in Jobs
  BY DEF IInv, Typing
<1> DEFINE j == [job[s] EXCEPT !.expired = TRUE]
<1>3. j \in Jobs
  BY <1>2 DEF Jobs
<1>4. j.phase = job[s].phase /\ j.snapshot = job[s].snapshot /\ j.exact = job[s].exact
  BY <1>2 DEF Jobs
<1>5. job' = [job EXCEPT ![s] = j]
  BY <1>1
<1> HIDE DEF j
<1>6. /\ job' \in [Sessions -> Jobs]
      /\ \A t \in Sessions : /\ job'[t].phase = job[t].phase
                             /\ job'[t].snapshot = job[t].snapshot
                             /\ job'[t].exact = job[t].exact
  BY <1>2, <1>3, <1>4, <1>5
<1>7. /\ gc' \in [Collectors -> Passes]
      /\ \A c \in Collectors : \E v \in Passes : gc'[c] = v /\ Sound(v)
  BY <1>1 DEF IInv, Typing
<1>8. /\ active' \subseteq {t \in Sessions : status[t] = "visible"} /\ pending' \subseteq Sessions
      /\ order' \in Seq(Sessions) /\ \A i \in 1..Len(order') : status[order'[i]] = "visible"
  BY <1>1 DEF IInv, Typing, Life, Listed
<1> QED BY <1>1, <1>6, <1>7, <1>8, Frame

LEMMA Unclaim ==
  ASSUME Typing, NEW s \in Sessions, job' = [job EXCEPT ![s] = Unclaimed(s)]
  PROVE  /\ job' \in [Sessions -> Jobs]
         /\ \A t \in Sessions : /\ job'[t].phase = job[t].phase
                                /\ job'[t].snapshot = job[t].snapshot
                                /\ job'[t].exact = job[t].exact
<1>1. NoCollector \in Collectors \cup {NoCollector} /\ FALSE \in BOOLEAN
  OBVIOUS
<1>2. job' = [job EXCEPT ![s] = [@ EXCEPT !.claim = NoCollector, !.expired = FALSE]]
  BY DEF Unclaimed
<1> QED BY <1>1, <1>2, JobClaimed

\* The facts about a collector in a stage.
LEMMA InStage ==
  ASSUME IInv, NEW c \in Collectors, gc[c].pc \in Stages
  PROVE  /\ Typing /\ Sound(gc[c]) /\ gc[c].pc # "idle"
         /\ gc[c] \in Passes /\ Job(c) = Head(gc[c].todo) /\ Job(c) \in Sessions
         /\ job[Job(c)] \in Jobs /\ NextJob(c) \in Passes /\ Sound(NextJob(c))
         /\ job[Job(c)].phase # "none"
         /\ job[Job(c)].snapshot /\ gc[c].left \subseteq job[Job(c)].exact
         /\ gc[c].pc = "planned" => (job[Job(c)].exact \ gc[c].left) \cap ledger = {}
         /\ gc[c].pc = "ledger_deleted" => (job[Job(c)].exact \ gc[c].left) \cap blobs = {}
<1>1. Typing /\ Sound(gc[c]) /\ gc[c].pc # "idle"
  BY DEF IInv, Stages
<1>2. /\ gc[c] \in Passes /\ Job(c) = Head(gc[c].todo) /\ Job(c) \in Sessions
      /\ job[Job(c)] \in Jobs /\ NextJob(c) \in Passes /\ Sound(NextJob(c))
      /\ job[Job(c)].phase # "none"
  BY <1>1, AtJob
<1>3. /\ job[Job(c)].snapshot /\ gc[c].left \subseteq job[Job(c)].exact
      /\ gc[c].pc = "planned" => (job[Job(c)].exact \ gc[c].left) \cap ledger = {}
      /\ gc[c].pc = "ledger_deleted" => (job[Job(c)].exact \ gc[c].left) \cap blobs = {}
  BY <1>1, <1>2 DEF Sound, Working
<1> QED BY <1>1, <1>2, <1>3

LEMMA ReleaseStep ==
  ASSUME IInv, NEW c \in Collectors, release_gc_stage_claim(c)
  PROVE  IInv'
<1> DEFINE s == Job(c)
<1>1. /\ gc[c].pc \in Stages /\ UNCHANGED <<store, queue, ledger, blobs>>
      /\ gc' = [gc EXCEPT ![c] = NextJob(c)]
      /\ job' = [job EXCEPT ![s] = Unclaimed(s)] \/ job' = job
  BY DEF release_gc_stage_claim, At, Stages
<1>2. Typing /\ s \in Sessions /\ NextJob(c) \in Passes /\ Sound(NextJob(c))
  BY <1>1, InStage
<1>3. /\ job' \in [Sessions -> Jobs]
      /\ \A t \in Sessions : /\ job'[t].phase = job[t].phase
                             /\ job'[t].snapshot = job[t].snapshot
                             /\ job'[t].exact = job[t].exact
  <2> HIDE DEF s
  <2>1. CASE job' = [job EXCEPT ![s] = Unclaimed(s)]
    BY <1>2, <2>1, Unclaim
  <2>2. CASE job' = job
    BY <1>2, <2>2, JobsUnchanged
  <2> QED BY <1>1, <2>1, <2>2
<1> QED BY <1>1, <1>2, <1>3, PassStep

\* One of a job's two stages is finished.
LEMMA StageDone ==
  ASSUME IInv, NEW s \in Sessions, job' \in [Sessions -> Jobs], job[s].snapshot,
         \/ /\ job[s].phase = "planned" /\ job'[s].phase = "ledger_deleted"
            /\ job[s].exact \cap ledger = {}
         \/ /\ job[s].phase = "ledger_deleted" /\ job'[s].phase = "blobs_deleted"
            /\ job[s].exact \cap blobs = {},
         job'[s].exact = job[s].exact, job'[s].snapshot = job[s].snapshot,
         \A t \in Sessions \ {s} : job'[t] = job[t],
         gc' \in [Collectors -> Passes],
         \A d \in Collectors : \E w \in Passes : gc'[d] = w /\ Sound(w),
         UNCHANGED <<status, refs, active, pending, order, queue, ledger, blobs>>
  PROVE  IInv'
<1>1. \A t \in Sessions : /\ job'[t].exact = job[t].exact /\ job'[t].snapshot = job[t].snapshot
                          /\ job[t].phase # "none" => job'[t].phase # "none"
  <2> TAKE t \in Sessions
  <2>1. CASE t = s
    <3>1. job'[s].phase # "none"
      OBVIOUS
    <3> QED BY <2>1, <3>1
  <2>2. CASE t # s
    BY <2>2
  <2> QED BY <2>1, <2>2
<1>2. \A t \in Sessions : /\ AwaitsSnapshot(t)' <=> AwaitsSnapshot(t)
                          /\ Open(t)' <=> Open(t)
  BY DEF AwaitsSnapshot, Open
<1>3. ASSUME NEW w \in Passes, Sound(w) PROVE Sound(w)'
  <2>1. w.todo \in Seq(Sessions)
    BY DEF Passes
  <2>2. \A i \in 1..Len(w.todo) : w.todo[i] \in Sessions
    BY <2>1, SMTT(30)
  <2>3. w.pc # "idle" => Head(w.todo) \in Sessions
    BY <2>1, <1>3, SMTT(30) DEF Sound, InPass
  <2>4. InPass(w)'
    BY <1>1, <1>3, <2>2 DEF Sound, InPass
  <2>5. Allocated(w)'
    BY <1>2, <1>3, <2>3 DEF Sound, Allocated
  <2>6. Working(w)'
    BY <1>1, <1>2, <1>3, <2>3 DEF Sound, Working, Stages
  <2> QED BY <2>4, <2>5, <2>6 DEF Sound
<1>4. ASSUME NEW d \in Collectors PROVE Sound(gc[d])'
  <2>1. PICK w \in Passes : gc'[d] = w /\ Sound(w)
    OBVIOUS
  <2>2. Sound(w)'
    BY <1>3, <2>1
  <2> QED BY <2>1, <2>2 DEF Sound, InPass, Allocated, Working
<1>5. Typing'
  BY DEF IInv, Typing
<1>6. Listed'
  <2>1. \A i \in 1..Len(queue) : queue[i] \in Sessions
    BY SMTT(30) DEF IInv, Typing
  <2> QED BY <1>1, <2>1 DEF IInv, Listed
<1>7. Leftover' /\ NoOrphans'
  BY <1>1 DEF IInv, Leftover, NoOrphans
<1>8. ASSUME NEW t \in Sessions
      PROVE  Life(t)' /\ Apart(t)' /\ Cleared(t)' /\ Covers(t)'
  <2>1. Life(t) /\ Apart(t) /\ Cleared(t) /\ Covers(t)
    BY DEF IInv
  <2>2. Life(t)'
    <3>1. CASE t = s
      BY <1>1, <1>2, <2>1, <3>1 DEF Life
    <3>2. CASE t # s
      BY <1>2, <2>1, <3>2 DEF Life
    <3> QED BY <3>1, <3>2
  <2>3. Apart(t)'
    BY <1>1, <1>2, <2>1 DEF Apart
  <2>4. Cleared(t)'
    <3>1. CASE t = s
      BY <1>1, <2>1, <3>1 DEF Cleared
    <3>2. CASE t # s
      BY <2>1, <3>2 DEF Cleared
    <3> QED BY <3>1, <3>2
  <2>5. Covers(t)'
    BY <1>1, <1>2, <2>1 DEF Covers
  <2> QED BY <2>2, <2>3, <2>4, <2>5
<1> QED BY <1>4, <1>5, <1>6, <1>7, <1>8 DEF IInv

LEMMA CommitStageStep ==
  ASSUME IInv, NEW c \in Collectors, commit_gc_stage(c)
  PROVE  IInv'
<1> DEFINE s == Job(c)
           safe == destructive_stage_is_safe(s)
           x == [gc[c] EXCEPT !.pc = "execute"]
<1>1. /\ gc[c].pc \in Stages /\ gc[c].left = {}
      /\ UNCHANGED <<store, queue, ledger, blobs>>
      /\ job' = IF HasStage(c)
                THEN [job EXCEPT ![s] =
                        IF safe
                        THEN [Unclaimed(s) EXCEPT !.phase = completed_phase(job[s].phase)]
                        ELSE Unclaimed(s)]
                ELSE job
      /\ gc' = [gc EXCEPT ![c] =
                  IF job[s].phase # gc[c].pc \/ (HasStage(c) /\ safe) THEN x ELSE NextJob(c)]
  BY DEF commit_gc_stage, At, Stages
<1>2. /\ Typing /\ Sound(gc[c]) /\ gc[c].pc # "idle" /\ gc[c] \in Passes
      /\ s \in Sessions /\ job[s] \in Jobs /\ NextJob(c) \in Passes /\ Sound(NextJob(c))
  BY <1>1, InStage
<1>a. job[s].snapshot
  BY <1>1, InStage
<1>b. /\ gc[c].pc = "planned" => job[s].exact \cap ledger = {}
      /\ gc[c].pc = "ledger_deleted" => job[s].exact \cap blobs = {}
  BY <1>1, InStage
<1>3. HasStage(c) => job[s].phase = gc[c].pc
  BY DEF HasStage
<1>4. x \in Passes /\ Sound(x)
  <2>1. x = [gc[c] EXCEPT !.pc = "execute"] /\ ~AwaitsSnapshot(Job(c))
    BY <1>a DEF AwaitsSnapshot
  <2> HIDE DEF x
  <2> QED BY <1>2, <2>1, ToExecute
<1> HIDE DEF s, safe, x
<1>5. PICK v \in Passes : gc' = [gc EXCEPT ![c] = v] /\ Sound(v)
  <2>1. CASE job[s].phase # gc[c].pc \/ (HasStage(c) /\ safe)
    <3>1. gc' = [gc EXCEPT ![c] = x]
      BY <1>1, <2>1
    <3> QED BY <1>4, <3>1
  <2>2. CASE ~(job[s].phase # gc[c].pc \/ (HasStage(c) /\ safe))
    <3>1. gc' = [gc EXCEPT ![c] = NextJob(c)]
      BY <1>1, <2>2
    <3> QED BY <1>2, <3>1
  <2> QED BY <2>1, <2>2
<1>6. CASE ~HasStage(c)
  <2>1. UNCHANGED <<store, job, queue, ledger, blobs>>
    BY <1>1, <1>6
  <2> QED BY <1>5, <2>1, PassMoves
<1>7. CASE HasStage(c) /\ ~safe
  <2>1. job' = [job EXCEPT ![s] = Unclaimed(s)]
    BY <1>1, <1>7
  <2>2. /\ job' \in [Sessions -> Jobs]
        /\ \A t \in Sessions : /\ job'[t].phase = job[t].phase
                               /\ job'[t].snapshot = job[t].snapshot
                               /\ job'[t].exact = job[t].exact
    BY <1>2, <2>1, Unclaim
  <2> QED BY <1>1, <1>5, <2>2, PassStep
<1>8. CASE HasStage(c) /\ safe
  <2> DEFINE p == completed_phase(job[s].phase)
             u == Unclaimed(s)
             j == [u EXCEPT !.phase = p]
  <2>1. job' = [job EXCEPT ![s] = j]
    BY <1>1, <1>8
  <2>2. /\ p \in {"ledger_deleted", "blobs_deleted"} /\ p \in Phases
        /\ gc[c].pc = "planned" => p = "ledger_deleted"
        /\ gc[c].pc = "ledger_deleted" => p = "blobs_deleted"
    BY <1>3, <1>8 DEF completed_phase, Phases
  <2> HIDE DEF p
  <2>3. u \in Jobs
    <3>1. NoCollector \in Collectors \cup {NoCollector} /\ FALSE \in BOOLEAN
      OBVIOUS
    <3> QED BY <1>2, <3>1 DEF Unclaimed, Jobs
  <2>4. u.exact = job[s].exact /\ u.snapshot = job[s].snapshot
    BY <1>2 DEF Unclaimed, Jobs
  <2> HIDE DEF u
  <2>5. j \in Jobs
    BY <2>2, <2>3 DEF Jobs
  <2>6. j.phase = p /\ j.exact = job[s].exact /\ j.snapshot = job[s].snapshot
    BY <2>3, <2>4 DEF Jobs
  <2> HIDE DEF j
  <2>7. /\ job' \in [Sessions -> Jobs] /\ job'[s] = j
        /\ \A t \in Sessions \ {s} : job'[t] = job[t]
    BY <1>2, <2>1, <2>5 DEF Typing
  <2>8. UNCHANGED <<status, refs, active, pending, order, queue, ledger, blobs>>
    BY <1>1 DEF store
  <2>9. /\ gc' \in [Collectors -> Passes]
        /\ \A d \in Collectors : \E w \in Passes : gc'[d] = w /\ Sound(w)
    <3>1. gc \in [Collectors -> Passes] /\ \A d \in Collectors : Sound(gc[d])
      BY DEF IInv, Typing
    <3>2. gc' = [gc EXCEPT ![c] = v] /\ Sound(v)
      BY <1>5
    <3> QED BY <3>1, <3>2
  <2>10. \/ /\ job[s].phase = "planned" /\ job'[s].phase = "ledger_deleted"
            /\ job[s].exact \cap ledger = {}
         \/ /\ job[s].phase = "ledger_deleted" /\ job'[s].phase = "blobs_deleted"
            /\ job[s].exact \cap blobs = {}
    <3>1. gc[c].pc = "planned" \/ gc[c].pc = "ledger_deleted"
      BY <1>1 DEF Stages
    <3>2. job[s].phase = gc[c].pc /\ job'[s].phase = p
      BY <1>3, <1>8, <2>6, <2>7
    <3> QED BY <1>b, <2>2, <3>1, <3>2
  <2>11. job'[s].exact = job[s].exact /\ job'[s].snapshot = job[s].snapshot
    BY <2>6, <2>7
  <2> QED BY <1>2, <1>a, <2>7, <2>8, <2>9, <2>10, <2>11, StageDone
<1> QED BY <1>6, <1>7, <1>8

\* The snapshot of a job is taken: it collects X, which is what there is below
\* the roots E nobody else refers to.
Collects(s, E, X) ==
  /\ E \subseteq X
  /\ \A q \in X : \E r \in E : q \in TreeOf[r]
  /\ \A r \in E : \A t \in Sessions \ {s} : r \notin refs[t]
  /\ \A r \in E : TreeOf[r] \cap (ledger \cup blobs) \subseteq X
  /\ \A r \in refs[s] \ E : \E t \in Sessions : t > s /\ r \in refs[t]
TakesSnapshot(s, X) ==
  /\ /\ job' \in [Sessions -> Jobs]
     /\ job'[s].phase = "planned" /\ job'[s].exact = X
     /\ \A t \in Sessions \ {s} : job'[t] = job[t]
  /\ job'[s].snapshot
  /\ /\ gc' \in [Collectors -> Passes]
     /\ \A d \in Collectors : \E w \in Passes :
          /\ gc'[d] = w /\ InPass(w)
          /\ Sound(w) \/ (w.pc = "execute" /\ Head(w.todo) = s)
  /\ UNCHANGED <<status, refs, active, pending, order, queue, ledger, blobs>>

LEMMA SnapshotTaken ==
  ASSUME IInv, NEW s \in Sessions, AwaitsSnapshot(s), NEW E \in SUBSET refs[s],
         NEW X \in SUBSET Runs, Collects(s, E, X), TakesSnapshot(s, X)
  PROVE  IInv'
<1>a. /\ job' \in [Sessions -> Jobs]
      /\ job'[s].phase = "planned" /\ job'[s].exact = X
      /\ \A t \in Sessions \ {s} : job'[t] = job[t]
  BY DEF TakesSnapshot
<1>b. job'[s].snapshot
  BY DEF TakesSnapshot
<1>c. /\ gc' \in [Collectors -> Passes]
      /\ \A d \in Collectors : \E w \in Passes :
           /\ gc'[d] = w /\ InPass(w)
           /\ Sound(w) \/ (w.pc = "execute" /\ Head(w.todo) = s)
  BY DEF TakesSnapshot
<1>d. UNCHANGED <<status, refs, active, pending, order, queue, ledger, blobs>>
  BY DEF TakesSnapshot
<1>1. /\ job[s].phase = "planned" /\ ~job[s].snapshot /\ job[s].exact = {}
      /\ \A t \in Sessions : job'[t].phase = job[t].phase
      /\ refs[s] \subseteq Roots
  <2>1. job[s].phase = "planned" /\ ~job[s].snapshot
    BY DEF AwaitsSnapshot
  <2>2. job[s].exact = {}
    BY <2>1 DEF IInv, Life
  <2>3. \A t \in Sessions : job'[t].phase = job[t].phase
    <3> TAKE t \in Sessions
    <3>1. CASE t = s
      BY <1>a, <2>1, <3>1
    <3>2. CASE t # s
      BY <1>a, <3>2
    <3> QED BY <3>1, <3>2
  <2>4. refs[s] \subseteq Roots
    BY DEF IInv, Typing
  <2> QED BY <2>1, <2>2, <2>3, <2>4
<1>2. \A t \in Sessions : Open(t)' <=> Open(t)
  BY <1>1 DEF Open
<1>3. ~AwaitsSnapshot(s)' /\ \A t \in Sessions \ {s} : AwaitsSnapshot(t)' <=> AwaitsSnapshot(t)
  BY <1>a, <1>b DEF AwaitsSnapshot
<1>4. ASSUME NEW d \in Collectors PROVE Sound(gc[d])'
  <2>1. PICK w \in Passes : /\ gc'[d] = w /\ InPass(w)
                            /\ Sound(w) \/ (w.pc = "execute" /\ Head(w.todo) = s)
    BY <1>c
  <2>2. w.todo \in Seq(Sessions)
    BY DEF Passes
  <2>3. \A i \in 1..Len(w.todo) : w.todo[i] \in Sessions
    BY <2>2, SMTT(30)
  <2>4. w.pc # "idle" => Head(w.todo) \in Sessions
    BY <2>1, <2>2, SMTT(30) DEF InPass
  <2>5. InPass(w)'
    BY <1>1, <2>1, <2>3 DEF InPass
  <2>6. CASE Sound(w)
    <3>1. Allocated(w)'
      BY <1>3, <1>d, <2>4, <2>6 DEF Sound, Allocated
    <3>2. w.pc \in Stages => Head(w.todo) # s
      BY <1>1, <2>6 DEF Sound, Working
    <3>3. Working(w)'
      BY <1>3, <1>a, <1>d, <2>4, <2>6, <3>2 DEF Sound, Working, Stages
    <3>4. Sound(w)'
      BY <2>5, <3>1, <3>3 DEF Sound
    <3>5. gc'[d] = w
      BY <2>1
    <3> QED BY <3>4, <3>5 DEF Sound, InPass, Allocated, Working
  <2>7. CASE w.pc = "execute" /\ Head(w.todo) = s
    <3>1. Allocated(w)' /\ Working(w)'
      BY <1>3, <2>7 DEF Allocated, Working, Stages
    <3>2. Sound(w)'
      BY <2>5, <3>1 DEF Sound
    <3>3. gc'[d] = w
      BY <2>1
    <3> QED BY <3>2, <3>3 DEF Sound, InPass, Allocated, Working
  <2> QED BY <2>1, <2>6, <2>7
<1>5. Typing'
  BY <1>a, <1>c, <1>d DEF IInv, Typing
<1>6. Listed'
  <2>1. \A i \in 1..Len(queue) : queue[i] \in Sessions
    BY SMTT(30) DEF IInv, Typing
  <2>2. Listed
    BY DEF IInv
  <2> QED BY <1>1, <1>d, <2>1, <2>2 DEF Listed
<1>7. Leftover' /\ NoOrphans'
  <2>1. \A t \in Sessions : job[t].exact \subseteq job'[t].exact
    BY <1>1, <1>a
  <2>2. Leftover /\ NoOrphans
    BY DEF IInv
  <2> QED BY <1>d, <2>1, <2>2 DEF Leftover, NoOrphans
<1>8. ASSUME NEW t \in Sessions
      PROVE  Life(t)' /\ Apart(t)' /\ Cleared(t)' /\ Covers(t)'
  <2>1. Life(t) /\ Apart(t) /\ Cleared(t) /\ Covers(t)
    BY DEF IInv
  <2>2. CASE t = s
    <3>1. Life(t)'
      BY <1>1, <1>2, <1>a, <1>b, <1>d, <2>1, <2>2 DEF Life
    <3>2. Apart(t)'
      <4> SUFFICES ASSUME NEW q \in X
                   PROVE  /\ \E r \in Roots : q \in TreeOf[r] /\ r \in X /\ r \in refs[s]
                          /\ \A y \in Sessions \ {s} : \A x \in refs[y] : ~run_trees_overlap(q, x)
        BY <1>a, <1>d, <2>2, SMTT(30) DEF Apart, run_trees_overlap, run_is_in_tree
      <4>1. PICK r \in E : q \in TreeOf[r]
        BY DEF Collects
      <4>2. r \in Roots /\ r \in X /\ r \in refs[s]
        BY <1>1 DEF Collects
      <4>3. ASSUME NEW y \in Sessions \ {s}, NEW x \in refs[y], run_trees_overlap(q, x)
            PROVE  FALSE
        <5>1. x \in Roots
          BY <4>3 DEF IInv, Typing
        <5>2. x = r
          BY <4>1, <4>2, <4>3, <5>1, BelowRoot
        <5> QED BY <4>3, <5>2 DEF Collects
      <4> QED BY <4>1, <4>2, <4>3
    <3>3. Cleared(t)'
      BY <1>a, <2>2 DEF Cleared
    <3>4. Covers(t)'
      BY <1>a, <1>d, <2>2 DEF Covers, Collects
    <3> QED BY <3>1, <3>2, <3>3, <3>4
  <2>3. CASE t # s
    <3>1. job'[t] = job[t]
      BY <1>a, <2>3
    <3>2. Life(t)'
      BY <1>2, <1>d, <2>1, <3>1 DEF Life
    <3>3. Apart(t)'
      BY <1>2, <1>d, <2>1, <3>1 DEF Apart
    <3>4. Cleared(t)' /\ Covers(t)'
      BY <1>2, <1>d, <2>1, <3>1 DEF Cleared, Covers
    <3> QED BY <3>2, <3>3, <3>4
  <2> QED BY <2>2, <2>3
<1> QED BY <1>4, <1>5, <1>6, <1>7, <1>8 DEF IInv

LEMMA CommitSnapshotStep ==
  ASSUME IInv, NEW c \in Collectors, commit_gc_snapshot(c)
  PROVE  IInv'
<1> DEFINE s == Job(c)
           current == SnapshotReady(s) /\ Allocation(s) = gc[c].allocation
           x == [gc[c] EXCEPT !.pc = "execute"]
           X == exact_run_ids(c)
           E == gc[c].allocation.eligible
<1>1. /\ gc[c].pc = "commit_snapshot" /\ gc[c].pc # "idle"
      /\ UNCHANGED <<store, queue, ledger, blobs>>
      /\ job' = IF AwaitsSnapshot(s) /\ current
                THEN [job EXCEPT ![s] = [@ EXCEPT !.snapshot = TRUE, !.exact = X]]
                ELSE job
      /\ gc' = [gc EXCEPT ![c] = IF AwaitsSnapshot(s) /\ ~current THEN NextJob(c) ELSE x]
  BY DEF commit_gc_snapshot, At
<1>2. Typing /\ Sound(gc[c])
  BY DEF IInv
<1>3. /\ gc[c] \in Passes /\ s = Head(gc[c].todo) /\ s \in Sessions /\ job[s] \in Jobs
      /\ NextJob(c) \in Passes /\ Sound(NextJob(c))
  BY <1>1, <1>2, AtJob
<1>4. /\ x \in Passes /\ InPass(x) /\ x.pc = "execute" /\ Head(x.todo) = s
      /\ ~AwaitsSnapshot(s) => Sound(x)
  <2>1. x = [gc[c] EXCEPT !.pc = "execute"] /\ s = Job(c)
    OBVIOUS
  <2> HIDE DEF x, s
  <2>2. /\ x \in Passes /\ InPass(x) /\ x.pc = "execute" /\ x.todo = gc[c].todo
        /\ ~AwaitsSnapshot(s) => Sound(x)
    BY <1>1, <1>2, <2>1, ToExecute
  <2> QED BY <1>3, <2>2
<1>5. X = E \cup {q \in gc[c].listed : \E r \in E : q \in TreeOf[r]}
  BY DEF exact_run_ids, run_is_in_tree
<1> HIDE DEF x, X, s
<1>6. CASE ~AwaitsSnapshot(s)
  <2>1. gc' = [gc EXCEPT ![c] = x] /\ job' = job
    BY <1>1, <1>6
  <2>2. UNCHANGED <<store, job, queue, ledger, blobs>>
    BY <1>1, <2>1
  <2> QED BY <1>4, <1>6, <2>1, <2>2, PassMoves
<1>7. CASE AwaitsSnapshot(s) /\ ~current
  <2>1. gc' = [gc EXCEPT ![c] = NextJob(c)] /\ job' = job
    BY <1>1, <1>7
  <2>2. UNCHANGED <<store, job, queue, ledger, blobs>>
    BY <1>1, <2>1
  <2> QED BY <1>3, <2>1, <2>2, PassMoves
<1>8. CASE AwaitsSnapshot(s) /\ current
  <2>1. /\ gc' = [gc EXCEPT ![c] = x]
        /\ job' = [job EXCEPT ![s] = [@ EXCEPT !.snapshot = TRUE, !.exact = X]]
    BY <1>1, <1>8
  <2>2. E = {r \in refs[s] : Greatest(s, r)}
    BY <1>8, SMTT(30) DEF Allocation, allocate_run_tree
  <2>3. \A r \in E : /\ r \in refs[s]
                     /\ \A t \in Sessions \ {s} : r \notin refs[t]
                     /\ TreeOf[r] \cap (ledger \cup blobs) \subseteq gc[c].listed
    BY <1>1, <1>2, <1>3, <1>8 DEF Sound, Allocated
  <2>4. gc[c].listed \subseteq Runs /\ refs[s] \subseteq Roots
    BY <1>2, <1>3 DEF Passes, Typing
  <2> HIDE DEF E, current
  <2>5. E \in SUBSET refs[s] /\ E \subseteq Roots /\ E \subseteq Runs
    BY <2>2, <2>4, TreesAssumption
  <2>6. X \in SUBSET Runs /\ E \subseteq X
    BY <1>5, <2>4, <2>5
  <2>7. \A q \in X : \E r \in E : q \in TreeOf[r]
    BY <1>5, <2>5, TreesAssumption
  <2>8. \A r \in E : TreeOf[r] \cap (ledger \cup blobs) \subseteq X
    BY <1>5, <2>3
  <2>9. ASSUME NEW r \in refs[s] \ E PROVE \E t \in Sessions : t > s /\ r \in refs[t]
    <3>1. PICK t \in Owners(s, r) : ~(t <= s)
      BY <2>2 DEF Greatest
    <3>2. s \in Int /\ s <= s
      BY <1>3, ProcessesAssumption, SMTT(30)
    <3>3. t \in Sessions /\ \E q \in refs[t] : run_trees_overlap(r, q)
      BY <3>1, <3>2 DEF Owners, other_run_references
    <3>4. PICK q \in refs[t] : run_trees_overlap(r, q)
      BY <3>3
    <3>5. q \in Roots /\ r \in Roots
      BY <1>2, <2>4, <3>3, <3>4 DEF Typing
    <3>6. q = r
      BY <3>4, <3>5, RootsOverlap
    <3>7. t \in Int /\ t > s
      BY <3>1, <3>2, <3>3, ProcessesAssumption, SMTT(30)
    <3> QED BY <3>3, <3>4, <3>6, <3>7
  <2> DEFINE j == [job[s] EXCEPT !.snapshot = TRUE, !.exact = X]
  <2>10. j \in Jobs
    <3>1. TRUE \in BOOLEAN
      OBVIOUS
    <3> QED BY <1>3, <2>6, <3>1 DEF Jobs
  <2>11. j.exact = X /\ j.snapshot = TRUE /\ j.phase = job[s].phase
    BY <1>3 DEF Jobs
  <2>12. job' = [job EXCEPT ![s] = j]
    BY <2>1
  <2> HIDE DEF j
  <2>13. /\ job' \in [Sessions -> Jobs] /\ job'[s] = j
         /\ \A t \in Sessions \ {s} : job'[t] = job[t]
    BY <1>2, <1>3, <2>10, <2>12 DEF Typing
  <2>14. job'[s].phase = "planned" /\ job'[s].exact = X
    BY <1>8, <2>11, <2>13 DEF AwaitsSnapshot
  <2>15. job'[s].snapshot
    BY <2>11, <2>13
  <2>16. /\ gc' \in [Collectors -> Passes]
         /\ \A d \in Collectors : \E w \in Passes :
              /\ gc'[d] = w /\ InPass(w)
              /\ Sound(w) \/ (w.pc = "execute" /\ Head(w.todo) = s)
    <3>1. gc \in [Collectors -> Passes] /\ \A d \in Collectors : Sound(gc[d]) /\ InPass(gc[d])
      BY DEF IInv, Typing, Sound
    <3>2. /\ gc' \in [Collectors -> Passes] /\ gc'[c] = x
          /\ \A d \in Collectors \ {c} : gc'[d] = gc[d]
      BY <1>4, <2>1, <3>1
    <3>3. ASSUME NEW d \in Collectors
          PROVE  \E w \in Passes : /\ gc'[d] = w /\ InPass(w)
                                   /\ Sound(w) \/ (w.pc = "execute" /\ Head(w.todo) = s)
      <4>1. CASE d = c
        BY <1>4, <3>2, <4>1
      <4>2. CASE d # c
        BY <3>1, <3>2, <4>2
      <4> QED BY <4>1, <4>2
    <3> QED BY <3>2, <3>3
  <2>17. UNCHANGED <<status, refs, active, pending, order, queue, ledger, blobs>>
    BY <1>1 DEF store
  <2>18. \A r \in E : \A t \in Sessions \ {s} : r \notin refs[t]
    BY <2>3
  <2>19. Collects(s, E, X)
    BY <2>6, <2>7, <2>8, <2>9, <2>18 DEF Collects
  <2>20. TakesSnapshot(s, X)
    BY <2>13, <2>14, <2>15, <2>16, <2>17 DEF TakesSnapshot
  <2> QED BY <1>3, <1>8, <2>5, <2>6, <2>19, <2>20, SnapshotTaken
<1> QED BY <1>6, <1>7, <1>8

LEMMA DeleteStep ==
  ASSUME IInv, NEW c \in Collectors, delete_exact_run(c)
  PROVE  IInv'
<1> DEFINE s == Job(c)
<1>1. PICK q \in gc[c].left :
        /\ gc' = [gc EXCEPT ![c] = [@ EXCEPT !.left = gc[c].left \ {q}]]
        /\ IF At(c, "planned") THEN ledger' = ledger \ {q} /\ UNCHANGED blobs
           ELSE blobs' = blobs \ {q} /\ UNCHANGED ledger
  BY DEF delete_exact_run
<1>2. gc[c].pc \in Stages /\ UNCHANGED <<store, job, queue>>
  BY DEF delete_exact_run, At, Stages
<1>3. UNCHANGED <<status, refs, active, pending, order, job, queue>>
  BY <1>2 DEF store
<1>4. /\ Typing /\ Sound(gc[c]) /\ gc[c] \in Passes /\ s = Head(gc[c].todo) /\ s \in Sessions
      /\ gc[c].left \subseteq job[s].exact
      /\ gc[c].pc = "planned" => (job[s].exact \ gc[c].left) \cap ledger = {}
      /\ gc[c].pc = "ledger_deleted" => (job[s].exact \ gc[c].left) \cap blobs = {}
  BY <1>2, InStage
<1>5. job[s].snapshot
  BY <1>2, InStage
<1>6. /\ ledger' \subseteq ledger /\ blobs' \subseteq blobs
      /\ gc[c].pc = "planned" => ledger' = ledger \ {q} /\ blobs' = blobs
      /\ gc[c].pc = "ledger_deleted" => blobs' = blobs \ {q} /\ ledger' = ledger
  BY <1>1 DEF At
<1> DEFINE rest == gc[c].left \ {q}
           pass == [gc[c] EXCEPT !.left = rest]
<1>7. gc' = [gc EXCEPT ![c] = pass]
  BY <1>1
<1> HIDE DEF s
<1>8. rest \in SUBSET Runs
  BY <1>4 DEF Passes
<1>9. rest \subseteq job[s].exact /\ job[s].exact \ rest \subseteq (job[s].exact \ gc[c].left) \cup {q}
  BY <1>4
<1> HIDE DEF rest
<1>a. pass \in Passes
  BY <1>4, <1>8 DEF Passes
<1>b. pass.left = rest /\ pass.pc = gc[c].pc /\ pass.todo = gc[c].todo
  BY <1>4 DEF Passes
<1> HIDE DEF pass
<1>10. PICK v \in Passes : v = pass
  BY <1>a
<1>11. v.left = rest /\ v.pc = gc[c].pc /\ v.todo = gc[c].todo
  BY <1>b, <1>10
<1>12. ASSUME NEW w \in Passes, Sound(w) PROVE Sound(w)'
  BY <1>3, <1>6, <1>12, SoundKept
<1>13. Sound(v)'
  <2>1. InPass(v)'
    BY <1>3, <1>4, <1>11 DEF Sound, InPass
  <2>2. Allocated(v)'
    BY <1>2, <1>11 DEF Allocated, Stages
  <2>3. Working(v)'
    <3>1. v.pc = "planned" => (job[s].exact \ v.left) \cap ledger' = {}
      BY <1>4, <1>6, <1>9, <1>11
    <3>2. v.pc = "ledger_deleted" => (job[s].exact \ v.left) \cap blobs' = {}
      BY <1>4, <1>6, <1>9, <1>11
    <3>3. v.left \subseteq job[s].exact /\ v.pc # "execute" /\ s = Head(v.todo)
      BY <1>2, <1>4, <1>9, <1>11 DEF Stages
    <3> QED BY <1>3, <1>5, <3>1, <3>2, <3>3 DEF Working, Stages
  <2> QED BY <2>1, <2>2, <2>3 DEF Sound
<1>14. gc' \in [Collectors -> Passes] /\ \A d \in Collectors : Sound(gc[d])'
  <2>1. gc \in [Collectors -> Passes] /\ \A d \in Collectors : Sound(gc[d])
    BY DEF IInv, Typing
  <2>2. gc' \in [Collectors -> Passes] /\ gc'[c] = v /\ \A d \in Collectors \ {c} : gc'[d] = gc[d]
    BY <1>7, <1>a, <1>10, <2>1
  <2>3. ASSUME NEW d \in Collectors PROVE Sound(gc[d])'
    <3>1. PICK w \in Passes : gc'[d] = w /\ Sound(w)'
      <4>1. CASE d = c
        BY <1>10, <1>13, <2>2, <4>1
      <4>2. CASE d # c
        <5>1. gc[d] \in Passes /\ gc'[d] = gc[d]
          BY <2>1, <2>2, <4>2
        <5>2. PICK w \in Passes : w = gc[d]
          BY <5>1
        <5>3. Sound(w)
          BY <2>1, <5>2
        <5> QED BY <1>12, <5>1, <5>2, <5>3
      <4> QED BY <4>1, <4>2
    <3> QED BY <3>1 DEF Sound, InPass, Allocated, Working
  <2> QED BY <2>2, <2>3
<1>15. Typing'
  BY <1>3, <1>6, <1>14 DEF IInv, Typing
<1>16. Listed' /\ NoOrphans'
  BY <1>3, <1>6 DEF IInv, Listed, NoOrphans
<1>17. Leftover'
  <2>1. blobs' \ ledger' \subseteq (blobs \ ledger) \cup {q}
    BY <1>2, <1>6 DEF Stages
  <2>2. q \in job[s].exact
    BY <1>1, <1>4
  <2> QED BY <1>3, <1>4, <2>1, <2>2 DEF IInv, Leftover
<1>18. ASSUME NEW t \in Sessions
       PROVE  Life(t)' /\ Apart(t)' /\ Cleared(t)' /\ Covers(t)'
  <2>1. Life(t) /\ Apart(t) /\ Cleared(t) /\ Covers(t)
    BY DEF IInv
  <2>2. Life(t)' /\ Apart(t)'
    BY <1>3, <2>1 DEF Life, Apart, Open
  <2>3. Cleared(t)'
    BY <1>3, <1>6, <2>1 DEF Cleared
  <2>4. Covers(t)'
    BY <1>3, <1>6, <2>1 DEF Covers, Open
  <2> QED BY <2>2, <2>3, <2>4
<1> QED BY <1>14, <1>15, <1>16, <1>17, <1>18 DEF IInv

\* A job is done, and its session's row and references go.
Finalizes(s) ==
  /\ /\ status' \in [Sessions -> {"absent", "visible", "tombstoned", "deleted"}]
     /\ status'[s] = "deleted"
     /\ \A t \in Sessions \ {s} : status'[t] = status[t]
  /\ /\ refs' \in [Sessions -> SUBSET Roots]
     /\ refs'[s] = {}
     /\ \A t \in Sessions \ {s} : refs'[t] = refs[t]
  /\ /\ job' \in [Sessions -> Jobs]
     /\ job[s].phase = "blobs_deleted" /\ job'[s].phase = "complete"
     /\ job'[s].exact = job[s].exact
     /\ \A t \in Sessions \ {s} : job'[t] = job[t]
  /\ job'[s].snapshot = job[s].snapshot
  /\ /\ gc' \in [Collectors -> Passes]
     /\ \A d \in Collectors : \E w \in Passes : gc'[d] = w /\ Sound(w)
  /\ UNCHANGED <<active, pending, order, queue, ledger, blobs>>

LEMMA Finalized ==
  ASSUME IInv, NEW s \in Sessions, Finalizes(s)
  PROVE  IInv'
<1>a. /\ status' \in [Sessions -> {"absent", "visible", "tombstoned", "deleted"}]
      /\ status'[s] = "deleted"
      /\ \A t \in Sessions \ {s} : status'[t] = status[t]
  BY DEF Finalizes
<1>b. /\ refs' \in [Sessions -> SUBSET Roots]
      /\ refs'[s] = {}
      /\ \A t \in Sessions \ {s} : refs'[t] = refs[t]
  BY DEF Finalizes
<1>c. /\ job' \in [Sessions -> Jobs]
      /\ job[s].phase = "blobs_deleted" /\ job'[s].phase = "complete"
      /\ job'[s].exact = job[s].exact
      /\ \A t \in Sessions \ {s} : job'[t] = job[t]
  BY DEF Finalizes
<1>d. job'[s].snapshot = job[s].snapshot
  BY DEF Finalizes
<1>e. /\ gc' \in [Collectors -> Passes]
      /\ \A d \in Collectors : \E w \in Passes : gc'[d] = w /\ Sound(w)
  BY DEF Finalizes
<1>f. UNCHANGED <<active, pending, order, queue, ledger, blobs>>
  BY DEF Finalizes
<1>1. Life(s) /\ Apart(s) /\ Cleared(s) /\ Covers(s)
  BY DEF IInv
<1>2. /\ Open(s) /\ status[s] = "tombstoned" /\ s \notin active
      /\ job[s].exact \cap ledger = {} /\ job[s].exact \cap blobs = {}
  BY <1>1, <1>c DEF Life, Open, Cleared
<1>3. job[s].snapshot
  BY <1>1, <1>c DEF Life
<1>4. \A t \in Sessions : /\ job'[t].exact = job[t].exact /\ job'[t].snapshot = job[t].snapshot
                          /\ job[t].phase # "none" => job'[t].phase # "none"
                          /\ refs'[t] \subseteq refs[t]
  <2> TAKE t \in Sessions
  <2>1. CASE t = s
    <3>1. job'[s].phase # "none" /\ refs'[s] \subseteq refs[s]
      BY <1>b, <1>c
    <3> QED BY <1>c, <1>d, <2>1, <3>1
  <2>2. CASE t # s
    <3>1. job'[t] = job[t] /\ refs'[t] = refs[t]
      BY <1>b, <1>c, <2>2
    <3> QED BY <3>1
  <2> QED BY <2>1, <2>2
<1>5. \A t \in Sessions : AwaitsSnapshot(t)' <=> AwaitsSnapshot(t)
  <2> TAKE t \in Sessions
  <2>1. CASE t = s
    BY <1>c, <2>1 DEF AwaitsSnapshot
  <2>2. CASE t # s
    BY <1>c, <2>2 DEF AwaitsSnapshot
  <2> QED BY <2>1, <2>2
<1>6. ~Open(s)' /\ \A t \in Sessions \ {s} : Open(t)' <=> Open(t)
  BY <1>c DEF Open
<1>7. ASSUME NEW w \in Passes, Sound(w) PROVE Sound(w)'
  <2>1. w.todo \in Seq(Sessions)
    BY DEF Passes
  <2>2. \A i \in 1..Len(w.todo) : w.todo[i] \in Sessions
    BY <2>1, SMTT(30)
  <2>3. w.pc # "idle" => Head(w.todo) \in Sessions
    BY <2>1, <1>7, SMTT(30) DEF Sound, InPass
  <2>4. InPass(w)'
    BY <1>4, <1>7, <2>2 DEF Sound, InPass
  <2>5. Allocated(w)'
    <3>1. ASSUME NEW h \in Sessions, AwaitsSnapshot(h) PROVE refs'[h] = refs[h]
      BY <1>b, <1>c, <3>1 DEF AwaitsSnapshot
    <3> QED BY <1>4, <1>5, <1>7, <1>f, <2>3, <3>1 DEF Sound, Allocated
  <2>6. Working(w)'
    BY <1>4, <1>5, <1>7, <1>f, <2>3 DEF Sound, Working, Stages
  <2> QED BY <2>4, <2>5, <2>6 DEF Sound
<1>8. ASSUME NEW d \in Collectors PROVE Sound(gc[d])'
  <2>1. PICK w \in Passes : gc'[d] = w /\ Sound(w)
    BY <1>e
  <2>2. Sound(w)'
    BY <1>7, <2>1
  <2> QED BY <2>1, <2>2 DEF Sound, InPass, Allocated, Working
<1>9. Typing'
  <2>1. Typing
    BY DEF IInv
  <2> QED BY <1>a, <1>b, <1>c, <1>e, <1>f, <2>1 DEF Typing
<1>10. Listed'
  <2>1. /\ \A i \in 1..Len(queue) : queue[i] \in Sessions
        /\ \A i \in 1..Len(order) : order[i] \in Sessions
    BY SMTT(30) DEF IInv, Typing
  <2>2. \A t \in Sessions : status[t] = "visible" => status'[t] = "visible"
    BY <1>2, <1>a
  <2>3. Listed
    BY DEF IInv
  <2> QED BY <1>4, <1>f, <2>1, <2>2, <2>3 DEF Listed
<1>11. Leftover'
  BY <1>4, <1>f DEF IInv, Leftover
<1>12. ASSUME NEW r \in refs[s] PROVE r \in Roots
  BY DEF IInv, Typing
<1>13. NoOrphans'
  <2> SUFFICES ASSUME NEW q \in ledger \cup blobs
               PROVE  \E t \in Sessions : \E r \in refs'[t] : q \in TreeOf[r]
    BY <1>f DEF NoOrphans, run_is_in_tree
  <2>1. PICK t \in Sessions : \E r \in refs[t] : q \in TreeOf[r]
    BY DEF IInv, NoOrphans, run_is_in_tree
  <2>2. PICK r \in refs[t] : q \in TreeOf[r]
    BY <2>1
  <2>3. CASE t # s
    BY <1>b, <2>2, <2>3
  <2>4. CASE t = s
    <3>1. q \notin job[s].exact
      BY <1>2
    <3>2. PICK w \in Sessions : w > s /\ r \in refs[w]
      BY <1>1, <1>2, <1>3, <2>2, <2>4, <3>1 DEF Covers
    <3>3. w # s
      BY <3>2, ProcessesAssumption, SMTT(30)
    <3> QED BY <1>b, <2>2, <3>2, <3>3
  <2> QED BY <2>3, <2>4
<1>14. ASSUME NEW t \in Sessions
       PROVE  Life(t)' /\ Apart(t)' /\ Cleared(t)' /\ Covers(t)'
  <2>1. Life(t) /\ Apart(t) /\ Cleared(t) /\ Covers(t)
    BY DEF IInv
  <2>2. CASE t = s
    <3>1. Life(s)'
      <4>1. job'[s].snapshot
        BY <1>3, <1>d
      <4> QED BY <1>2, <1>6, <1>a, <1>b, <1>c, <1>f, <4>1 DEF Life
    <3>2. Apart(s)'
      BY <1>1, <1>4, <1>6 DEF Apart, run_trees_overlap
    <3>3. Cleared(s)'
      BY <1>2, <1>c, <1>f DEF Cleared
    <3>4. Covers(s)'
      BY <1>6 DEF Covers
    <3> QED BY <2>2, <3>1, <3>2, <3>3, <3>4
  <2>3. CASE t # s
    <3>1. job'[t] = job[t] /\ refs'[t] = refs[t] /\ status'[t] = status[t] /\ (Open(t)' <=> Open(t))
      BY <1>6, <1>a, <1>b, <1>c, <2>3
    <3>2. Life(t)'
      BY <1>f, <2>1, <3>1 DEF Life
    <3>3. Apart(t)'
      BY <1>4, <2>1, <3>1 DEF Apart, run_trees_overlap
    <3>4. Cleared(t)'
      BY <1>f, <2>1, <3>1 DEF Cleared
    <3>5. Covers(t)'
      <4> SUFFICES ASSUME Open(t), job[t].snapshot, NEW r \in refs[t],
                          ~(r \in job[t].exact
                            /\ TreeOf[r] \cap (ledger \cup blobs) \subseteq job[t].exact)
                   PROVE  \E y \in Sessions : y > t /\ r \in refs'[y]
        BY <1>f, <3>1 DEF Covers
      <4>1. PICK y \in Sessions : y > t /\ r \in refs[y]
        BY <2>1 DEF Covers
      <4>2. CASE y # s
        BY <1>b, <4>1, <4>2
      <4>3. CASE y = s
        <5>1. r \in Roots
          BY <1>12, <4>1, <4>3
        <5>2. run_trees_overlap(r, r)
          BY <5>1, RootsOverlap
        <5>3. r \notin job[s].exact
          BY <1>1, <2>3, <5>2 DEF Apart
        <5>4. PICK w \in Sessions : w > s /\ r \in refs[w]
          BY <1>1, <1>2, <1>3, <4>1, <4>3, <5>3 DEF Covers
        <5>5. w \in Int /\ s \in Int /\ t \in Int
          BY ProcessesAssumption
        <5>6. w > s /\ s > t
          BY <4>1, <4>3, <5>4
        <5>7. w > t /\ w # s
          BY <5>5, <5>6, SMTT(30)
        <5> QED BY <1>b, <5>4, <5>7
      <4> QED BY <4>2, <4>3
    <3> QED BY <3>2, <3>3, <3>4, <3>5
  <2> QED BY <2>2, <2>3
<1> QED BY <1>8, <1>9, <1>10, <1>11, <1>13, <1>14 DEF IInv

LEMMA FinalizeStep ==
  ASSUME IInv, NEW c \in Collectors, finalize_gc_job(c)
  PROVE  IInv'
<1> DEFINE s == Job(c)
           final == job[s].phase = "blobs_deleted" /\ destructive_stage_is_safe(s)
<1>1. /\ gc[c].pc = "execute" /\ gc[c].pc # "idle"
      /\ UNCHANGED <<active, pending, order, queue, ledger, blobs>>
      /\ gc' = [gc EXCEPT ![c] = NextJob(c)]
      /\ status' = IF final THEN [status EXCEPT ![s] = "deleted"] ELSE status
      /\ refs' = IF final THEN [refs EXCEPT ![s] = {}] ELSE refs
      /\ job' = IF final THEN [job EXCEPT ![s] = [@ EXCEPT !.phase = "complete"]] ELSE job
  BY DEF finalize_gc_job, At
<1>2. Typing /\ Sound(gc[c])
  BY DEF IInv
<1>3. s \in Sessions /\ job[s] \in Jobs /\ NextJob(c) \in Passes /\ Sound(NextJob(c))
  BY <1>1, <1>2, AtJob
<1>4. final => job[s].phase = "blobs_deleted"
  OBVIOUS
<1> HIDE DEF s, final
<1>5. CASE ~final
  <2>1. status' = status /\ refs' = refs /\ job' = job
    BY <1>1, <1>5
  <2>2. UNCHANGED <<store, job, queue, ledger, blobs>>
    BY <1>1, <2>1 DEF store
  <2>3. gc' = [gc EXCEPT ![c] = NextJob(c)]
    BY <1>1
  <2> QED BY <1>3, <2>2, <2>3, PassMoves
<1>6. CASE final
  <2> DEFINE j == [job[s] EXCEPT !.phase = "complete"]
  <2>1. /\ status' = [status EXCEPT ![s] = "deleted"]
        /\ refs' = [refs EXCEPT ![s] = {}]
        /\ job' = [job EXCEPT ![s] = j]
    BY <1>1, <1>6
  <2>2. j \in Jobs
    <3>1. "complete" \in Phases
      BY DEF Phases
    <3> QED BY <1>3, <3>1 DEF Jobs
  <2>3. j.phase = "complete" /\ j.exact = job[s].exact /\ j.snapshot = job[s].snapshot
    BY <1>3 DEF Jobs
  <2> HIDE DEF j
  <2>4. /\ job' \in [Sessions -> Jobs] /\ job'[s] = j
        /\ \A t \in Sessions \ {s} : job'[t] = job[t]
    BY <1>2, <1>3, <2>1, <2>2 DEF Typing
  <2>5. /\ refs' \in [Sessions -> SUBSET Roots] /\ refs'[s] = {}
        /\ \A t \in Sessions \ {s} : refs'[t] = refs[t]
    BY <1>2, <1>3, <2>1 DEF Typing
  <2>6. /\ status' \in [Sessions -> {"absent", "visible", "tombstoned", "deleted"}]
        /\ status'[s] = "deleted" /\ \A t \in Sessions \ {s} : status'[t] = status[t]
    BY <1>2, <1>3, <2>1 DEF Typing
  <2>7. /\ gc' \in [Collectors -> Passes]
        /\ \A d \in Collectors : \E w \in Passes : gc'[d] = w /\ Sound(w)
    <3>1. gc \in [Collectors -> Passes] /\ \A d \in Collectors : Sound(gc[d])
      BY DEF IInv, Typing
    <3>2. gc' = [gc EXCEPT ![c] = NextJob(c)]
      BY <1>1
    <3> QED BY <1>3, <3>1, <3>2
  <2>8. UNCHANGED <<active, pending, order, queue, ledger, blobs>>
    BY <1>1
  <2>9. job[s].phase = "blobs_deleted"
    BY <1>4, <1>6
  <2>10. /\ job'[s].phase = "complete" /\ job'[s].exact = job[s].exact
         /\ job'[s].snapshot = job[s].snapshot
    BY <2>3, <2>4
  <2>11. Finalizes(s)
    BY <2>4, <2>5, <2>6, <2>7, <2>8, <2>9, <2>10 DEF Finalizes
  <2> QED BY <1>3, <2>11, Finalized
<1> QED BY <1>5, <1>6

-----------------------------------------------------------------------------
\* What is kept of a sequence of sessions are members of it that are in S.
LEMMA KeptMembers ==
  ASSUME NEW seq \in Seq(Sessions), NEW S, NEW k, k = Kept(seq, S)
  PROVE  /\ k \in Seq(Sessions)
         /\ \A n \in 1..Len(k) : k[n] \in S /\ \E i \in 1..Len(seq) : k[n] = seq[i]
<1> DEFINE P == {i \in DOMAIN seq : seq[i] \in S}
           nth(n) == CHOOSE i \in P : Cardinality({j \in P : j <= i}) = n
           N == Cardinality(P)
           K == [n \in 1..N |-> seq[nth(n)]]
<1>1. P \in SUBSET (1..Len(seq)) /\ P \in SUBSET Nat
  BY SMTT(30)
<1>2. IsFiniteSet(P) /\ N \in Nat
  <2>1. Len(seq) \in Int /\ 1 \in Int
    BY SMTT(30)
  <2>2. IsFiniteSet(1..Len(seq))
    BY <2>1, FS_Interval
  <2>3. IsFiniteSet(P)
    BY <1>1, <2>2, FS_Subset
  <2> QED BY <2>3, FS_CardinalityType
<1>3. ASSUME NEW n \in 1..N PROVE nth(n) \in P
  <2>1. \E i \in P : Cardinality({j \in P : j <= i}) = n
    <3> HIDE DEF P
    <3> QED BY <1>1, <1>2, HasRank DEF N
  <2> QED BY <2>1
<1>4. k = K
  BY DEF Kept
<1> HIDE DEF P, N, nth
<1>5. ASSUME NEW n \in 1..N
      PROVE  nth(n) \in 1..Len(seq) /\ seq[nth(n)] \in S /\ seq[nth(n)] \in Sessions
  BY <1>3, <1>1, SMTT(30) DEF P
<1>6. K \in [1..N -> Sessions]
  BY <1>5
<1>7. K \in Seq(Sessions) /\ Len(K) = N
  BY <1>6, <1>2, SMTT(30)
<1>8. \A n \in 1..N : K[n] \in S /\ \E i \in 1..Len(seq) : K[n] = seq[i]
  BY <1>5
<1> HIDE DEF K
<1> QED BY <1>4, <1>7, <1>8

\* The first members of a sequence are members of it.
LEMMA FirstMembers ==
  ASSUME NEW seq \in Seq(Sessions), NEW n \in Nat, NEW f, f = First(seq, n)
  PROVE  /\ f \in Seq(Sessions)
         /\ \A k \in 1..Len(f) : k \in 1..Len(seq) /\ f[k] = seq[k]
<1> DEFINE m == IF Len(seq) < n THEN Len(seq) ELSE n
<1>1. m \in Nat /\ m <= Len(seq)
  BY SMTT(30)
<1> HIDE DEF m
<1>2. SubSeq(seq, 1, m) \in Seq(Sessions) /\ Len(SubSeq(seq, 1, m)) = m
  BY <1>1, SMTT(30)
<1>3. \A k \in 1..m : SubSeq(seq, 1, m)[k] = seq[k]
  BY <1>1, SMTT(30)
<1> QED BY <1>1, <1>2, <1>3, SMTT(30) DEF First, m

(* Passes of collectors.                                                      *)

\* What a session does without adding a reference or a record.
LEMMA SessionStep ==
  ASSUME IInv, NEW s \in Sessions,
         \/ load_active(s) \/ save(s) \/ release(s)
         \/ enqueue_host_delivery(s) \/ acknowledge_host_delivery(s)
  PROVE  IInv'
<1>1. /\ UNCHANGED <<status, refs, ledger, blobs, queue, job, gc>>
      /\ job' \in [Sessions -> Jobs] /\ gc' \in [Collectors -> Passes]
  BY DEF load_active, save, release, enqueue_host_delivery, acknowledge_host_delivery,
         IInv, Typing
<1>2. active' \subseteq {t \in Sessions : status[t] = "visible"} /\ pending' \subseteq Sessions
  <2>1. active \subseteq {t \in Sessions : status[t] = "visible"} /\ pending \subseteq Sessions
    BY DEF IInv, Typing, Life
  <2> QED BY <2>1 DEF load_active, save, release, enqueue_host_delivery,
                      acknowledge_host_delivery
<1>3. order' \in Seq(Sessions) /\ \A i \in 1..Len(order') : status[order'[i]] = "visible"
  <2>0. order \in Seq(Sessions) /\ \A i \in 1..Len(order) : status[order[i]] = "visible"
    BY DEF IInv, Typing, Listed
  <2>1. CASE save(s)
    <3> DEFINE others == Sessions \ {s}
               k == Kept(order, others)
    <3>1. order \in Seq(Sessions) /\ k = Kept(order, others)
      BY <2>0
    <3>2. order' = Append(k, s) /\ status[s] = "visible"
      BY <2>1 DEF save
    <3> HIDE DEF k, others
    <3>3. /\ k \in Seq(Sessions)
          /\ \A n \in 1..Len(k) : k[n] \in others /\ \E i \in 1..Len(order) : k[n] = order[i]
      BY <3>1, KeptMembers, SMTT(30)
    <3>4. \A i \in 1..Len(k) : status[k[i]] = "visible"
      BY <2>0, <3>3
    <3>5. /\ Append(k, s) \in Seq(Sessions) /\ Len(Append(k, s)) = Len(k) + 1
          /\ \A i \in 1..Len(k) : Append(k, s)[i] = k[i]
          /\ Append(k, s)[Len(k) + 1] = s /\ Len(k) \in Nat
      BY <3>3, SMTT(30)
    <3>6. \A i \in 1..(Len(k) + 1) : i \in 1..Len(k) \/ i = Len(k) + 1
      BY <3>5, SMTT(30)
    <3>7. ASSUME NEW i \in 1..Len(order') PROVE status[order'[i]] = "visible"
      <4>1. i \in 1..Len(k) \/ i = Len(k) + 1
        BY <3>2, <3>5, <3>6
      <4>2. CASE i \in 1..Len(k)
        BY <3>2, <3>4, <3>5, <4>2
      <4>3. CASE i = Len(k) + 1
        BY <3>2, <3>5, <4>3
      <4> QED BY <4>1, <4>2, <4>3
    <3> QED BY <3>2, <3>5, <3>7
  <2>2. CASE order' = order
    BY <2>0, <2>2
  <2> QED BY <2>1, <2>2 DEF load_active, release, enqueue_host_delivery,
                            acknowledge_host_delivery
<1>4. \A c \in Collectors : \E v \in Passes : gc'[c] = v /\ Sound(v)
  BY <1>1 DEF IInv, Typing
<1> QED BY <1>1, <1>2, <1>3, <1>4, Frame

LEMMA RunDueStep ==
  ASSUME IInv, NEW c \in Collectors, run_due_gc(c)
  PROVE  IInv'
<1> DEFINE unfinished == {s \in Sessions : job[s].phase # "complete"}
           k == Kept(queue, unfinished)
           d == due_gc_job_ids
           v == [Idle EXCEPT !.pc = "prepare", !.todo = d]
<1>1. /\ queue \in Seq(Sessions) /\ GcBudget \in Nat /\ Typing
      /\ \A i \in 1..Len(queue) : job[queue[i]].phase # "none"
  BY BoundsAssumption DEF IInv, Typing, Listed
<1>2. k = Kept(queue, unfinished) /\ d = First(k, GcBudget)
  BY DEF due_gc_job_ids
<1>3. d # <<>> /\ gc' = [gc EXCEPT ![c] = v] /\ UNCHANGED <<store, job, queue, ledger, blobs>>
  BY DEF run_due_gc
<1> HIDE DEF unfinished, k, d
<1>4. k \in Seq(Sessions) /\ \A n \in 1..Len(k) : \E i \in 1..Len(queue) : k[n] = queue[i]
  BY <1>1, <1>2, KeptMembers, SMTT(30)
<1>5. d \in Seq(Sessions) /\ \A n \in 1..Len(d) : n \in 1..Len(k) /\ d[n] = k[n]
  BY <1>1, <1>2, <1>4, FirstMembers, SMTT(30)
<1>6. \A n \in 1..Len(d) : job[d[n]].phase # "none"
  <2> TAKE n \in 1..Len(d)
  <2>1. n \in 1..Len(k) /\ d[n] = k[n]
    BY <1>5
  <2>2. PICK i \in 1..Len(queue) : k[n] = queue[i]
    BY <1>4, <2>1
  <2> QED BY <1>1, <2>1, <2>2
<1>7. Idle \in Passes /\ "prepare" \in Points
  BY IdleIsSound DEF Points
<1>8. v \in Passes
  BY <1>5, <1>7 DEF Passes
<1>9. v.pc = "prepare" /\ v.todo = d
  BY <1>7 DEF Passes
<1> HIDE DEF v
<1>10. Sound(v)
  BY <1>3, <1>6, <1>9 DEF Sound, InPass, Allocated, Working, Stages
<1> QED BY <1>1, <1>3, <1>8, <1>10, PassMoves

\* Retention tombstones sessions nobody holds, and plans a job for each.
LEMMA Planned ==
  ASSUME IInv, NEW planned \in Seq(Sessions), NEW P, P = Range(planned),
         P \subseteq {s \in Sessions : status[s] = "visible" /\ s \notin active},
         plan_retention_gc(planned),
         UNCHANGED <<refs, active, pending, ledger, blobs, gc>>
  PROVE  IInv'
<1>1. Typing /\ Listed /\ Leftover /\ NoOrphans
  BY DEF IInv
<1>2. /\ status' = [s \in Sessions |-> IF s \in P THEN "tombstoned" ELSE status[s]]
      /\ order' = Kept(order, Sessions \ P)
      /\ job' = [s \in Sessions |-> IF s \in P THEN [NoJob EXCEPT !.phase = "planned"] ELSE job[s]]
      /\ queue' = queue \o planned
  BY DEF plan_retention_gc
<1> DEFINE new == [NoJob EXCEPT !.phase = "planned"]
<1>3. /\ new.phase = "planned" /\ new.exact = {} /\ new.claim = NoCollector
  BY DEF NoJob
<1>4. ~new.snapshot
  BY DEF NoJob
<1>5. new \in Jobs
  <2>1. NoJob \in Jobs /\ "planned" \in Phases
    BY DEF NoJob, Jobs, Phases
  <2> QED BY <2>1 DEF Jobs
<1>6. job' = [s \in Sessions |-> IF s \in P THEN new ELSE job[s]]
  BY <1>2
<1> HIDE DEF new
<1>7. /\ job' \in [Sessions -> Jobs]
      /\ \A s \in P : job'[s] = new
      /\ \A s \in Sessions \ P : job'[s] = job[s]
  BY <1>1, <1>5, <1>6 DEF Typing
<1>8. /\ status' \in [Sessions -> {"absent", "visible", "tombstoned", "deleted"}]
      /\ \A s \in P : status'[s] = "tombstoned"
      /\ \A s \in Sessions \ P : status'[s] = status[s]
  BY <1>1, <1>2 DEF Typing
<1>9. ASSUME NEW s \in P
      PROVE  /\ s \in Sessions /\ s \notin active /\ job[s].phase = "none"
             /\ ~job[s].snapshot /\ job[s].exact = {} /\ job'[s].phase = "planned"
             /\ ~job'[s].snapshot /\ job'[s].exact = {} /\ status'[s] = "tombstoned"
  <2>1. s \in Sessions /\ status[s] = "visible" /\ s \notin active /\ Life(s)
    BY DEF IInv
  <2>2. job[s].phase = "none"
    BY <2>1 DEF Life
  <2>3. ~job[s].snapshot
    BY <2>1, <2>2 DEF Life
  <2>4. job[s].exact = {}
    BY <2>1, <2>3 DEF Life
  <2>5. job'[s].phase = "planned" /\ job'[s].exact = {} /\ status'[s] = "tombstoned"
    BY <1>3, <1>7, <1>8
  <2>6. ~job'[s].snapshot
    BY <1>4, <1>7
  <2> QED BY <2>1, <2>2, <2>3, <2>4, <2>5, <2>6
<1>10. ASSUME NEW s \in Sessions
       PROVE  /\ job'[s].exact = job[s].exact
              /\ job[s].phase # "none" => job'[s] = job[s] /\ s \notin P
              /\ s \notin P => job'[s] = job[s] /\ status'[s] = status[s]
  <2>1. CASE s \in P
    <3>1. job'[s].exact = {} /\ job[s].exact = {} /\ job[s].phase = "none"
      BY <1>9, <2>1
    <3> QED BY <2>1, <3>1
  <2>2. CASE s \notin P
    BY <1>7, <1>8, <2>2
  <2> QED BY <2>1, <2>2
<1>11. Typing'
  <2>1. PICK S : S = Sessions \ P
    OBVIOUS
  <2>2. order' = Kept(order, S)
    BY <1>2, <2>1
  <2>3. PICK k : k = order'
    OBVIOUS
  <2>4. order \in Seq(Sessions) /\ k = Kept(order, S)
    BY <1>1, <2>2, <2>3 DEF Typing
  <2>5. k \in Seq(Sessions)
    BY <2>4, KeptMembers
  <2>6. queue' \in Seq(Sessions)
    BY <1>1, <1>2, SMTT(30) DEF Typing
  <2> QED BY <1>1, <1>7, <1>8, <2>3, <2>5, <2>6 DEF Typing
<1>12. Listed'
  <2>1. PICK S : S = Sessions \ P
    OBVIOUS
  <2>2. order' = Kept(order, S)
    BY <1>2, <2>1
  <2>3. PICK k : k = order'
    OBVIOUS
  <2>4. order \in Seq(Sessions) /\ k = Kept(order, S)
    BY <1>1, <2>2, <2>3 DEF Typing
  <2>5. \A n \in 1..Len(k) : k[n] \in S /\ \E i \in 1..Len(order) : k[n] = order[i]
    BY <2>4, KeptMembers, SMTT(30)
  <2>6. ASSUME NEW n \in 1..Len(k) PROVE status'[k[n]] = "visible"
    <3>1. k[n] \in Sessions \ P /\ \E i \in 1..Len(order) : k[n] = order[i]
      BY <2>1, <2>5
    <3>2. status[k[n]] = "visible"
      BY <1>1, <3>1 DEF Listed
    <3> QED BY <1>8, <3>1, <3>2
  <2>7. ASSUME NEW n \in 1..Len(queue') PROVE job'[queue'[n]].phase # "none"
    <3>1. queue \in Seq(Sessions)
      BY <1>1 DEF Typing
    <3>2. CASE n \in 1..Len(queue)
      <4>1. queue'[n] = queue[n] /\ queue[n] \in Sessions /\ job[queue[n]].phase # "none"
        BY <1>1, <1>2, <3>1, <3>2, SMTT(30) DEF Listed
      <4> QED BY <1>10, <4>1
    <3>3. CASE n \notin 1..Len(queue)
      <4>1. queue'[n] = planned[n - Len(queue)] /\ n - Len(queue) \in 1..Len(planned)
        BY <1>2, <2>7, <3>1, <3>3, SMTT(30)
      <4>2. queue'[n] \in P
        BY <4>1, SMTT(30) DEF Range
      <4> QED BY <1>9, <4>2
    <3> QED BY <3>2, <3>3
  <2> QED BY <2>3, <2>6, <2>7 DEF Listed
<1>13. Leftover'
  BY <1>1, <1>10 DEF Leftover
<1>14. NoOrphans'
  BY <1>1 DEF NoOrphans, run_is_in_tree
<1>15. ASSUME NEW t \in Sessions
       PROVE  Life(t)' /\ Apart(t)' /\ Cleared(t)' /\ Covers(t)'
  <2>1. Life(t) /\ Apart(t) /\ Cleared(t) /\ Covers(t)
    BY DEF IInv
  <2>2. CASE t \in P
    <3>1. Open(t)'
      BY <1>9, <2>2 DEF Open
    <3>2. Life(t)'
      BY <1>9, <2>2, <3>1 DEF Life
    <3>3. Apart(t)' /\ Cleared(t)'
      BY <1>9, <2>2 DEF Apart, Cleared
    <3>4. Covers(t)'
      BY <1>9, <2>2 DEF Covers
    <3> QED BY <3>2, <3>3, <3>4
  <2>3. CASE t \notin P
    <3>1. job'[t] = job[t] /\ status'[t] = status[t]
      BY <1>10, <2>3
    <3>2. Open(t)' <=> Open(t)
      BY <3>1 DEF Open
    <3>3. Life(t)'
      BY <2>1, <3>1, <3>2 DEF Life
    <3>4. Apart(t)'
      BY <2>1, <3>1, <3>2 DEF Apart, run_trees_overlap
    <3>5. Cleared(t)' /\ Covers(t)'
      BY <2>1, <3>1, <3>2 DEF Cleared, Covers
    <3> QED BY <3>3, <3>4, <3>5
  <2> QED BY <2>2, <2>3
<1>16. ASSUME NEW c \in Collectors PROVE Sound(gc[c])'
  <2>1. gc'[c] = gc[c] /\ gc[c] \in Passes /\ Sound(gc[c])
    BY <1>1 DEF IInv, Typing
  <2>2. PICK v \in Passes : v = gc[c]
    BY <2>1
  <2>3. Sound(v)
    BY <2>1, <2>2
  <2>4. v.todo \in Seq(Sessions)
    BY DEF Passes
  <2>5. \A i \in 1..Len(v.todo) : v.todo[i] \in Sessions /\ job'[v.todo[i]] = job[v.todo[i]]
    BY <1>10, <2>3, <2>4, SMTT(30) DEF Sound, InPass
  <2>6. v.pc # "idle" => /\ Head(v.todo) \in Sessions
                         /\ job'[Head(v.todo)] = job[Head(v.todo)]
    BY <2>3, <2>4, <2>5, SMTT(30) DEF Sound, InPass
  <2>7. InPass(v)'
    BY <2>3, <2>5 DEF Sound, InPass
  <2>8. Working(v)' /\ Allocated(v)'
    BY <2>3, <2>6 DEF Sound, Working, Allocated, AwaitsSnapshot, Stages
  <2>9. Sound(v)'
    BY <2>7, <2>8 DEF Sound
  <2> QED BY <2>1, <2>2, <2>9 DEF Sound, InPass, Allocated, Working
<1> QED BY <1>11, <1>12, <1>13, <1>14, <1>15, <1>16 DEF IInv

LEMMA RetentionStep ==
  ASSUME IInv, enforce_retention
  PROVE  IInv'
<1> DEFINE S == {s \in Sessions : collectable(s)}
           excess == Len(order) - MaxSessions
           k == Kept(order, S)
           planned == First(k, excess)
<1>1. order \in Seq(Sessions) /\ Listed
  BY DEF IInv, Typing
<1>2. excess \in Nat
  BY <1>1, BoundsAssumption, SMTT(30) DEF enforce_retention
<1>3. /\ plan_retention_gc(planned)
      /\ UNCHANGED <<refs, active, pending, ledger, blobs, gc>>
  BY DEF enforce_retention, retention_candidates
<1>4. \A s \in S : s \notin active
  BY DEF collectable
<1> HIDE DEF S, excess
<1>5. PICK kk : kk = k
  OBVIOUS
<1>6. /\ kk \in Seq(Sessions)
      /\ \A n \in 1..Len(kk) : kk[n] \in S /\ \E i \in 1..Len(order) : kk[n] = order[i]
  BY <1>1, <1>5, KeptMembers, SMTT(30)
<1>7. planned = First(kk, excess)
  BY <1>5
<1> HIDE DEF k, planned
<1>8. /\ planned \in Seq(Sessions)
      /\ \A n \in 1..Len(planned) : \E i \in 1..Len(kk) : planned[n] = kk[i]
  BY <1>2, <1>6, <1>7, FirstMembers, SMTT(30)
<1>9. PICK P : P = Range(planned)
  OBVIOUS
<1>10. ASSUME NEW s \in P PROVE s \in Sessions /\ status[s] = "visible" /\ s \notin active
  <2>1. PICK n \in 1..Len(planned) : s = planned[n]
    BY <1>8, <1>9, SMTT(30) DEF Range
  <2>2. PICK m \in 1..Len(kk) : s = kk[m]
    BY <1>8, <2>1
  <2>3. s \in S /\ \E i \in 1..Len(order) : s = order[i]
    BY <1>6, <2>2
  <2> QED BY <1>1, <1>4, <2>3, SMTT(30) DEF Listed
<1> QED BY <1>3, <1>8, <1>9, <1>10, Planned

\* Every step preserves the invariant.
LEMMA NextIInv ==
  ASSUME IInv, [Next]_vars
  PROVE  IInv'
<1>1. CASE UNCHANGED vars
  <2>1. UNCHANGED <<store, job, queue, ledger, blobs, gc>>
    BY <1>1 DEF vars, store
  <2>2. Typing' /\ Listed' /\ Leftover' /\ NoOrphans'
    BY <2>1 DEF IInv, Typing, Listed, Leftover, NoOrphans, store
  <2>3. ASSUME NEW s \in Sessions PROVE Life(s)' /\ Apart(s)' /\ Cleared(s)' /\ Covers(s)'
    BY <2>1 DEF IInv, Life, Apart, Cleared, Covers, Open, store
  <2>4. ASSUME NEW c \in Collectors PROVE Sound(gc[c])'
    <3>1. Sound(gc[c])
      BY DEF IInv
    <3> QED BY <2>1, <3>1 DEF Sound, InPass, Allocated, Working, AwaitsSnapshot, store
  <2> QED BY <2>2, <2>3, <2>4 DEF IInv
<1>2. ASSUME NEW s \in Sessions, NEW r \in Roots, create_active(s, r) PROVE IInv'
  BY <1>2, CreateStep
<1>3. ASSUME NEW s \in Sessions, NEW q \in Runs, RecordRun(s, q) PROVE IInv'
  BY <1>3, RecordStep
<1>4. ASSUME NEW s \in Sessions,
             load_active(s) \/ save(s) \/ release(s)
               \/ enqueue_host_delivery(s) \/ acknowledge_host_delivery(s)
      PROVE  IInv'
  BY <1>4, SessionStep
<1>5. ASSUME NEW s \in Sessions, ExpireAbandoned(s) \/ ExpireSlow(s) PROVE IInv'
  BY <1>5, ExpireStep
<1>6. CASE enforce_retention
  BY <1>6, RetentionStep
<1>7. ASSUME NEW c \in Collectors, Collect(c) \/ release_gc_stage_claim(c) \/ Crash(c)
      PROVE  IInv'
  BY <1>7, RunDueStep, PrepareStep, ListStep, CommitSnapshotStep, AcquireStep, DeleteStep,
     CommitStageStep, FinalizeStep, ReleaseStep, CrashStep DEF Collect
<1> QED BY <1>1, <1>2, <1>3, <1>4, <1>5, <1>6, <1>7 DEF Next

\* Only delete_exact_run takes records or blobs away.
LEMMA OnlyDeletes ==
  ASSUME [Next]_vars, ~\E c \in Collectors : delete_exact_run(c)
  PROVE  ledger \subseteq ledger' /\ blobs \subseteq blobs'
<1>1. CASE UNCHANGED vars
  BY <1>1 DEF vars
<1>2. ASSUME NEW s \in Sessions, NEW r \in Roots, create_active(s, r)
      PROVE  UNCHANGED <<ledger, blobs>>
  BY <1>2 DEF create_active
<1>3. ASSUME NEW s \in Sessions, NEW q \in Runs, RecordRun(s, q)
      PROVE  ledger \subseteq ledger' /\ blobs \subseteq blobs'
  BY <1>3 DEF RecordRun
<1>4. ASSUME NEW s \in Sessions,
             \/ load_active(s) \/ save(s) \/ release(s)
             \/ enqueue_host_delivery(s) \/ acknowledge_host_delivery(s)
             \/ ExpireAbandoned(s) \/ ExpireSlow(s)
      PROVE  UNCHANGED <<ledger, blobs>>
  BY <1>4 DEF load_active, save, release, enqueue_host_delivery, acknowledge_host_delivery,
              ExpireAbandoned, ExpireSlow
<1>5. CASE enforce_retention
  BY <1>5 DEF enforce_retention
<1>6. ASSUME NEW c \in Collectors, Collect(c) \/ release_gc_stage_claim(c) \/ Crash(c)
      PROVE  UNCHANGED <<ledger, blobs>>
  BY <1>6 DEF Collect, run_due_gc, prepare_gc_snapshot, run_ids, commit_gc_snapshot,
              acquire_gc_stage, commit_gc_stage, finalize_gc_job, release_gc_stage_claim, Crash
<1> QED BY <1>1, <1>2, <1>3, <1>4, <1>5, <1>6 DEF Next

\* A step that takes a Run's records or blobs away leaves those of visible
\* sessions alone.
LEMMA DeletesApart ==
  ASSUME IInv, [Next]_vars,
         NEW q \in (ledger \ ledger') \cup (blobs \ blobs'),
         NEW s \in Sessions, status[s] = "visible", NEW r \in refs[s]
  PROVE  ~run_trees_overlap(q, r)
<1>1. PICK c \in Collectors : delete_exact_run(c)
  BY OnlyDeletes
<1>2. gc[c].pc \in Stages /\ q \in gc[c].left
  BY <1>1 DEF delete_exact_run, At, Stages
<1>3. PICK t \in Sessions : t = Job(c)
  BY <1>2, InStage
<1>4. gc[c].left \subseteq job[t].exact /\ job[t].phase # "none"
  BY <1>2, <1>3, InStage
<1>5. t # s
  BY <1>4 DEF IInv, Life
<1>6. Apart(t)
  BY DEF IInv
<1> QED BY <1>2, <1>4, <1>5, <1>6 DEF Apart

\* The inductive invariant of collection: references, jobs, records and blobs
\* stay in step over every interleaving of sessions, retention and collectors.
THEOREM CollectionInvariant == Spec => []IInv
<1>1. Init => IInv
  BY InitIInv
<1>2. IInv /\ [Next]_vars => IInv'
  BY NextIInv
<1> QED BY <1>1, <1>2, PTL DEF Spec

\* Whatever is shared, and however collectors crash and overtake each other
\* (store_gc.rs, store_gc_stage.rs): phases say what is deleted, nothing is
\* leaked, and no deletion touches a Run a session in use refers to.
THEOREM CollectionIsSafe == Spec => CollectionSafe
<1>1. IInv => PhaseTruth /\ NoOrphans
  BY DEF IInv, Cleared, PhaseTruth
<1>2. IInv /\ [Next]_vars =>
        [\A q \in (ledger \ ledger') \cup (blobs \ blobs') :
           \A s \in Sessions : status[s] = "visible" =>
             \A r \in refs[s] : ~run_trees_overlap(q, r)]_vars
  BY DeletesApart
<1> QED BY CollectionInvariant, <1>1, <1>2, PTL DEF Spec, CollectionSafe, GcSparesReferenced
==============================================================================
