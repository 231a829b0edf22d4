------------------------------ MODULE SessionGc ------------------------------
(* Session retention and garbage collection (solaris-agent, session/store.rs, *)
(* store_retention.rs, store_gc.rs, store_gc_stage.rs): sessions that may     *)
(* share a Run, tombstones, one collection job per tombstoned session, the    *)
(* claims that keep a Run from being reused, and several processes that       *)
(* collect at once.  A store operation is one immediate SQLite transaction    *)
(* and one action; deleting a Run's ledger records or blobs is a separate     *)
(* action per Run, outside any transaction, as in the code.                   *)
(*                                                                            *)
(* A lease is its answer to "unexpired": active.  A stage token is the        *)
(* collector that drew it, which holds at most one.  The 30 days before a job *)
(* is due only postpone collectors, which may be late here anyway.  A session *)
(* id is a number because the code orders ids.                                *)
EXTENDS Integers, Sequences, FiniteSets, Functions

CONSTANTS Sessions,     \* session ids, ordered as the code orders its strings
          Runs,         \* Run ids that may have records
          Roots,        \* the Run ids sessions are created with
          TreeOf,       \* root -> the Runs of its tree, itself included
          Collectors,   \* processes that run collection
          NoCollector,
          MaxSessions,  \* session.max_sessions
          GcBudget,     \* jobs examined per pass: 8 in bootstrap.rs
          MaxFaults     \* bound on crashes, failed deletions and slow stages

\* A Run's tree is the Runs whose id extends its own after a colon.  A session
\* is created with a fresh Run id or with that of the session its creator works
\* in, so the trees of two roots are disjoint.
ASSUME TreesAssumption ==
  /\ Roots \subseteq Runs
  /\ TreeOf \in [Runs -> SUBSET Runs]
  /\ \A r \in Runs : r \in TreeOf[r]
  /\ \A p, q, r \in Runs : p \in TreeOf[q] /\ q \in TreeOf[r] => p \in TreeOf[r]
  /\ \A a, b \in Roots : a # b => TreeOf[a] \cap TreeOf[b] = {}
ASSUME ProcessesAssumption ==
  Sessions \subseteq Int /\ NoCollector \notin Collectors
ASSUME BoundsAssumption ==
  MaxSessions \in Nat /\ GcBudget \in Nat /\ MaxFaults \in Nat

VARIABLES status,   \* session -> absent, visible, tombstoned or deleted
          refs,     \* session_run_references
          active,   \* sessions whose lease is held and unexpired
          pending,  \* sessions with unacknowledged Host deliveries
          order,    \* visible sessions, least recently updated first
          job,      \* session -> its row of session_gc_jobs
          queue,    \* jobs in the order they were planned
          ledger,   \* Runs with ledger records
          blobs,    \* Runs with output blobs
          gc,       \* collector -> where it is in run_due_gc
          faults

store == <<status, refs, active, pending, order>>
vars == <<status, refs, active, pending, order, job, queue, ledger, blobs, gc,
          faults>>

NoJob == [phase |-> "none", snapshot |-> FALSE, exact |-> {},
          claim |-> NoCollector, expired |-> FALSE]
NoAllocation == [eligible |-> {}, released |-> {}]
Idle == [pc |-> "idle", todo |-> <<>>, allocation |-> NoAllocation,
         listed |-> {}, left |-> {}]

Init ==
  /\ status = [s \in Sessions |-> "absent"]
  /\ refs = [s \in Sessions |-> {}]
  /\ active = {} /\ pending = {} /\ order = <<>>
  /\ job = [s \in Sessions |-> NoJob]
  /\ queue = <<>>
  /\ ledger = {} /\ blobs = {}
  /\ gc = [c \in Collectors |-> Idle]
  /\ faults = 0

-----------------------------------------------------------------------------
\* Those of the sequence's members that are in S, in their order, and the first
\* n members of a sequence.
Kept(seq, S) ==
  LET places == {i \in DOMAIN seq : seq[i] \in S}
      nth(n) == CHOOSE i \in places : Cardinality({k \in places : k <= i}) = n
  IN  [n \in 1..Cardinality(places) |-> seq[nth(n)]]
First(seq, n) == SubSeq(seq, 1, IF Len(seq) < n THEN Len(seq) ELSE n)

run_is_in_tree(run, root) == run \in TreeOf[root]
run_trees_overlap(a, b) == run_is_in_tree(a, b) \/ run_is_in_tree(b, a)

\* The claim rows of a job are the references its session had when it was
\* tombstoned, which do not change before the job completes.
Claimed(s) == IF job[s].phase \in {"none", "complete"} THEN {} ELSE refs[s]

require_run_not_gc_claimed(r) ==
  \A s \in Sessions : \A q \in Claimed(s) : ~run_trees_overlap(r, q)

\* Callers draw a fresh Run id or pass the Run they are working in, so a Run
\* whose collection completed is not asked for again.
FreshRun(r) ==
  \A s \in Sessions : job[s].phase = "complete" => ~(r \in job[s].exact)

create_active(s, r) ==
  /\ status[s] = "absent"
  /\ require_run_not_gc_claimed(r)
  /\ FreshRun(r)
  /\ status' = [status EXCEPT ![s] = "visible"]
  /\ refs' = [refs EXCEPT ![s] = {r}]
  /\ active' = active \cup {s}
  /\ order' = Append(order, s)
  /\ UNCHANGED <<pending, job, queue, ledger, blobs, gc, faults>>

\* A lease that lapsed or was released is taken over.
load_active(s) ==
  /\ status[s] = "visible" /\ s \notin active
  /\ active' = active \cup {s}
  /\ UNCHANGED <<status, refs, pending, order, job, queue, ledger, blobs, gc,
                 faults>>

\* A save makes the session the most recently updated one.
save(s) ==
  /\ status[s] = "visible" /\ s \in active
  /\ order' = Append(Kept(order, Sessions \ {s}), s)
  /\ UNCHANGED <<status, refs, active, pending, job, queue, ledger, blobs, gc,
                 faults>>

\* The lease is released, or its holder died and it expired.
release(s) ==
  /\ s \in active
  /\ active' = active \ {s}
  /\ UNCHANGED <<status, refs, pending, order, job, queue, ledger, blobs, gc,
                 faults>>

\* The session's engine writes records and outputs of a Run of its tree.
RecordRun(s, q) ==
  /\ s \in active
  /\ \E r \in refs[s] : run_is_in_tree(q, r)
  /\ ledger' = ledger \cup {q}
  /\ blobs' = blobs \cup {q}
  /\ UNCHANGED <<status, refs, active, pending, order, job, queue, gc, faults>>

enqueue_host_delivery(s) ==
  /\ s \in active
  /\ pending' = pending \cup {s}
  /\ UNCHANGED <<status, refs, active, order, job, queue, ledger, blobs, gc,
                 faults>>

acknowledge_host_delivery(s) ==
  /\ s \in active /\ s \in pending
  /\ pending' = pending \ {s}
  /\ UNCHANGED <<status, refs, active, order, job, queue, ledger, blobs, gc,
                 faults>>

-----------------------------------------------------------------------------
\* Retention.

\* Mutant: neither a lease nor a delivery keeps a session.
collectable_always(s) == s \in Sessions

\* candidate_is_inactive and no pending Host deliveries.
collectable(s) == s \notin active /\ s \notin pending

retention_candidates(excess) ==
  First(Kept(order, {s \in Sessions : collectable(s)}), excess)

plan_retention_gc(planned) ==
  /\ status' = [s \in Sessions |-> IF s \in Range(planned) THEN "tombstoned"
                                   ELSE status[s]]
  /\ order' = Kept(order, Sessions \ Range(planned))
  /\ job' = [s \in Sessions |-> IF s \in Range(planned)
                                THEN [NoJob EXCEPT !.phase = "planned"]
                                ELSE job[s]]
  /\ queue' = queue \o planned

\* Every visible session counts, active or not; only inactive ones go.
enforce_retention ==
  /\ Len(order) > MaxSessions
  /\ retention_candidates(Len(order) - MaxSessions) # <<>>
  /\ plan_retention_gc(retention_candidates(Len(order) - MaxSessions))
  /\ UNCHANGED <<refs, active, pending, ledger, blobs, gc, faults>>

-----------------------------------------------------------------------------
\* Collection.

At(c, pc) == gc[c].pc = pc
Job(c) == Head(gc[c].todo)

\* The job's outcome is counted and the pass goes on with the next one.
NextJob(c) ==
  [Idle EXCEPT !.todo = Tail(gc[c].todo),
               !.pc = IF Len(gc[c].todo) = 1 THEN "idle" ELSE "prepare"]

due_gc_job_ids ==
  First(Kept(queue, {s \in Sessions : job[s].phase # "complete"}), GcBudget)

run_due_gc(c) ==
  /\ At(c, "idle")
  /\ due_gc_job_ids # <<>>
  /\ gc' = [gc EXCEPT ![c] = [Idle EXCEPT !.pc = "prepare", !.todo = due_gc_job_ids]]
  /\ UNCHANGED <<store, job, queue, ledger, blobs, faults>>

\* Mutant: sessions in use are not asked.
references_of_tombstoned(s) ==
  {t \in Sessions \ {s} : refs[t] # {} /\ status[t] = "tombstoned"}

other_run_references(s) ==
  {t \in Sessions \ {s} : refs[t] # {}}

\* Sessions whose references overlap the root, the job's own included.
Owners(s, root) ==
  {s} \cup {t \in other_run_references(s) :
              \E q \in refs[t] : run_trees_overlap(root, q)}
Greatest(s, root) == \A t \in Owners(s, root) : t <= s

\* Mutant: every sharing session waits to be the last one.
allocate_all_wait(s) ==
  [ready |-> \A r \in refs[s] : Owners(s, r) = {s},
   eligible |-> refs[s], released |-> {}]

\* The greatest session id sharing a root deletes it, once it is the last one;
\* every other session gives its share up.
allocate_run_tree(s) ==
  [ready |-> \A r \in refs[s] : Greatest(s, r) => Owners(s, r) = {s},
   eligible |-> {r \in refs[s] : Greatest(s, r)},
   released |-> {r \in refs[s] : ~Greatest(s, r)}]

Allocation(s) == [eligible |-> allocate_run_tree(s).eligible,
                  released |-> allocate_run_tree(s).released]
AwaitsSnapshot(s) == job[s].phase = "planned" /\ ~job[s].snapshot
SnapshotReady(s) == collectable(s) /\ allocate_run_tree(s).ready

prepare_gc_snapshot(c) ==
  /\ At(c, "prepare")
  /\ gc' = [gc EXCEPT ![c] =
       IF ~AwaitsSnapshot(Job(c)) THEN [gc[c] EXCEPT !.pc = "execute"]
       ELSE IF SnapshotReady(Job(c))
       THEN [gc[c] EXCEPT !.pc = "list", !.allocation = Allocation(Job(c))]
       ELSE NextJob(c)]
  /\ UNCHANGED <<store, job, queue, ledger, blobs, faults>>

\* RuntimeLedger::run_ids, between the two transactions.
run_ids(c) ==
  /\ At(c, "list")
  /\ gc' = [gc EXCEPT ![c] = [@ EXCEPT !.pc = "commit_snapshot", !.listed = ledger]]
  /\ UNCHANGED <<store, job, queue, ledger, blobs, faults>>

\* Mutant: only the roots are collected, not the Runs below them.
exact_roots_only(c) == gc[c].allocation.eligible

exact_run_ids(c) ==
  gc[c].allocation.eligible \cup
  {q \in gc[c].listed : \E r \in gc[c].allocation.eligible : run_is_in_tree(q, r)}

commit_gc_snapshot(c) ==
  LET s == Job(c)
      current == SnapshotReady(s) /\ Allocation(s) = gc[c].allocation
  IN  /\ At(c, "commit_snapshot")
      /\ job' = IF AwaitsSnapshot(s) /\ current
                THEN [job EXCEPT ![s] = [@ EXCEPT !.snapshot = TRUE, !.exact = exact_run_ids(c)]]
                ELSE job
      /\ gc' = [gc EXCEPT ![c] = IF AwaitsSnapshot(s) /\ ~current THEN NextJob(c)
                                 ELSE [gc[c] EXCEPT !.pc = "execute"]]
      /\ UNCHANGED <<store, queue, ledger, blobs, faults>>

exact_tree_has_other_references(s) ==
  \E q \in job[s].exact : \E t \in other_run_references(s) :
    \E r \in refs[t] : run_trees_overlap(q, r)

destructive_stage_is_safe(s) ==
  collectable(s) /\ ~exact_tree_has_other_references(s)

Stages == {"planned", "ledger_deleted"}
completed_phase(phase) ==
  IF phase = "planned" THEN "ledger_deleted" ELSE "blobs_deleted"

\* One turn of execute_gc_phases before the deletions: the stage the job's
\* phase calls for is claimed unless another collector's claim is unexpired.
acquire_gc_stage(c) ==
  LET s == Job(c)
      free == job[s].claim = NoCollector \/ job[s].expired
  IN  /\ At(c, "execute") /\ job[s].phase \in Stages
      /\ \/ /\ destructive_stage_is_safe(s) /\ free
            /\ job' = [job EXCEPT ![s] = [@ EXCEPT !.claim = c, !.expired = FALSE]]
            /\ gc' = [gc EXCEPT ![c] = [@ EXCEPT !.pc = job[s].phase,
                                                !.left = job[s].exact]]
         \/ /\ ~(destructive_stage_is_safe(s) /\ free)
            /\ gc' = [gc EXCEPT ![c] = NextJob(c)]
            /\ UNCHANGED job
      /\ UNCHANGED <<store, queue, ledger, blobs, faults>>

\* delete_run_exact for the ledger stage, delete_local_run_outputs for blobs.
delete_exact_run(c) ==
  /\ At(c, "planned") \/ At(c, "ledger_deleted")
  /\ \E q \in gc[c].left :
       /\ gc' = [gc EXCEPT ![c] = [@ EXCEPT !.left = gc[c].left \ {q}]]
       /\ IF At(c, "planned") THEN ledger' = ledger \ {q} /\ UNCHANGED blobs
          ELSE blobs' = blobs \ {q} /\ UNCHANGED ledger
  /\ UNCHANGED <<store, job, queue, faults>>

Unclaimed(s) == [job[s] EXCEPT !.claim = NoCollector, !.expired = FALSE]
HasStage(c) ==
  LET s == Job(c) IN job[s].phase = gc[c].pc /\ job[s].claim = c

\* Mutant: a failed deletion is skipped.
skip_failed_deletion(c) ==
  /\ At(c, "planned") \/ At(c, "ledger_deleted")
  /\ gc[c].left # {} /\ faults < MaxFaults
  /\ faults' = faults + 1
  /\ gc' = [gc EXCEPT ![c] = [@ EXCEPT !.left = {}]]
  /\ UNCHANGED <<store, job, queue, ledger, blobs>>

\* A deletion fails: the claim is given back and the job left for later.
release_gc_stage_claim(c) ==
  LET s == Job(c)
  IN  /\ At(c, "planned") \/ At(c, "ledger_deleted")
      /\ gc[c].left # {} /\ faults < MaxFaults
      /\ faults' = faults + 1
      /\ job' = IF HasStage(c) THEN [job EXCEPT ![s] = Unclaimed(s)] ELSE job
      /\ gc' = [gc EXCEPT ![c] = NextJob(c)]
      /\ UNCHANGED <<store, queue, ledger, blobs>>

\* The phase advances only for the collector whose claim still stands.
commit_gc_stage(c) ==
  LET s == Job(c)
  IN  /\ At(c, "planned") \/ At(c, "ledger_deleted")
      /\ gc[c].left = {}
      /\ job' = IF HasStage(c)
                THEN [job EXCEPT ![s] =
                        IF destructive_stage_is_safe(s)
                        THEN [Unclaimed(s) EXCEPT !.phase = completed_phase(job[s].phase)]
                        ELSE Unclaimed(s)]
                ELSE job
      /\ gc' = [gc EXCEPT ![c] =
           IF job[s].phase # gc[c].pc
              \/ (HasStage(c) /\ destructive_stage_is_safe(s))
           THEN [gc[c] EXCEPT !.pc = "execute"] ELSE NextJob(c)]
      /\ UNCHANGED <<store, queue, ledger, blobs, faults>>

\* finalize_gc_metadata: the session's references, its row and its claims go;
\* the tombstone stays.  A completed job is skipped.
finalize_gc_job(c) ==
  LET s == Job(c)
      final == job[s].phase = "blobs_deleted" /\ destructive_stage_is_safe(s)
  IN  /\ At(c, "execute") /\ job[s].phase \notin Stages
      /\ status' = IF final THEN [status EXCEPT ![s] = "deleted"] ELSE status
      /\ refs' = IF final THEN [refs EXCEPT ![s] = {}] ELSE refs
      /\ job' = IF final THEN [job EXCEPT ![s] = [@ EXCEPT !.phase = "complete"]] ELSE job
      /\ gc' = [gc EXCEPT ![c] = NextJob(c)]
      /\ UNCHANGED <<active, pending, order, queue, ledger, blobs, faults>>

\* The process dies; a claim it holds stands until it expires.
Crash(c) ==
  /\ ~At(c, "idle") /\ faults < MaxFaults
  /\ faults' = faults + 1
  /\ gc' = [gc EXCEPT ![c] = Idle]
  /\ UNCHANGED <<store, job, queue, ledger, blobs>>

Holds(c, s) == gc[c].todo # <<>> /\ Job(c) = s /\ gc[c].pc \in Stages

\* GC_STAGE_CLAIM_MILLISECONDS pass, over a dead collector's claim or, as a
\* fault, over that of one still deleting.
ExpireAbandoned(s) ==
  /\ job[s].claim # NoCollector /\ ~job[s].expired /\ ~Holds(job[s].claim, s)
  /\ job' = [job EXCEPT ![s] = [@ EXCEPT !.expired = TRUE]]
  /\ UNCHANGED <<store, queue, ledger, blobs, gc, faults>>

ExpireSlow(s) ==
  /\ job[s].claim # NoCollector /\ ~job[s].expired /\ Holds(job[s].claim, s)
  /\ faults < MaxFaults
  /\ faults' = faults + 1
  /\ job' = [job EXCEPT ![s] = [@ EXCEPT !.expired = TRUE]]
  /\ UNCHANGED <<store, queue, ledger, blobs, gc>>

Collect(c) ==
  \/ run_due_gc(c) \/ prepare_gc_snapshot(c) \/ run_ids(c) \/ commit_gc_snapshot(c)
  \/ acquire_gc_stage(c) \/ delete_exact_run(c) \/ commit_gc_stage(c)
  \/ finalize_gc_job(c)

Next ==
  \/ \E s \in Sessions :
       \/ \E r \in Roots : create_active(s, r)
       \/ \E q \in Runs : RecordRun(s, q)
       \/ load_active(s) \/ save(s) \/ release(s)
       \/ enqueue_host_delivery(s) \/ acknowledge_host_delivery(s)
       \/ ExpireAbandoned(s) \/ ExpireSlow(s)
  \/ enforce_retention
  \/ \E c \in Collectors :
       Collect(c) \/ release_gc_stage_claim(c) \/ Crash(c)

Spec == Init /\ [][Next]_vars

\* Processes keep starting, each runs a pass at start-up, and wall-clock time
\* passes; nothing is demanded of the sessions themselves.
Fairness ==
  /\ \A c \in Collectors : WF_vars(Collect(c))
  /\ \A s \in Sessions : WF_vars(ExpireAbandoned(s))

-----------------------------------------------------------------------------
Phases == {"none", "planned", "ledger_deleted", "blobs_deleted", "complete"}

TypeOK ==
  /\ status \in [Sessions -> {"absent", "visible", "tombstoned", "deleted"}]
  /\ refs \in [Sessions -> SUBSET Roots]
  /\ active \subseteq {s \in Sessions : status[s] = "visible"}
  /\ Range(order) = {s \in Sessions : status[s] = "visible"}
  /\ \A s \in Sessions : /\ job[s].phase \in Phases
                         /\ job[s].exact \subseteq Runs
                         /\ job[s].claim \in Collectors \cup {NoCollector}
  /\ ledger \subseteq Runs /\ blobs \subseteq Runs
  /\ \A c \in Collectors : /\ gc[c].left \subseteq Runs
                           /\ Range(gc[c].todo) \subseteq Sessions
  /\ faults \in 0..MaxFaults

\* Collection never deletes the ledger records or the blobs of a Run that a
\* session still in use refers to, however many sessions share the Run, however
\* late a collector whose claim expired goes on, and whatever is created while
\* it deletes.
GcSparesReferenced ==
  [][\A q \in (ledger \ ledger') \cup (blobs \ blobs') :
       \A s \in Sessions : status[s] = "visible" =>
         \A r \in refs[s] : ~run_trees_overlap(q, r)]_vars

\* A job's phase is true: once it says the records are gone no Run of its exact
\* tree has any, and the same for blobs, over crashes, failed deletions and
\* collectors that overtake each other.  Restart relies on it to skip a stage.
PhaseTruth ==
  \A s \in Sessions :
    /\ job[s].phase \in {"ledger_deleted", "blobs_deleted", "complete"}
         => job[s].exact \cap ledger = {}
    /\ job[s].phase \in {"blobs_deleted", "complete"}
         => job[s].exact \cap blobs = {}

\* Nothing is leaked: records or blobs of a Run have a session row that refers
\* to its tree, so once the last sharing session is collected none are left.
NoOrphans ==
  \A q \in ledger \cup blobs :
    \E s \in Sessions : \E r \in refs[s] : run_is_in_tree(q, r)

\* Collection follows the references: the phases of a job say what is deleted,
\* nothing is left that no session or job refers to, and no step deletes what a
\* session in use refers to, over crashes and claims that expire (run_due_gc).
CollectionSafe == [](PhaseTruth /\ NoOrphans) /\ GcSparesReferenced

\* The delayed, restartable GC finishes: a tombstoned session none of whose
\* Runs a session in use refers to is eventually collected.
Unshared(s) ==
  /\ status[s] = "tombstoned"
  /\ \A t \in Sessions : status[t] = "visible" =>
       \A q \in refs[s], r \in refs[t] : ~run_trees_overlap(q, r)
GcSettles == \A s \in Sessions : Unshared(s) ~> (status[s] = "deleted")
=============================================================================
