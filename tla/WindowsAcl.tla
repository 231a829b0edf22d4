------------------------------ MODULE WindowsAcl ------------------------------
(***************************************************************************)
(* The Windows process sandbox (solaris-process/src/sandbox/windows.rs and *)
(* windows_acl.rs).  Every launch creates an AppContainer profile, grants  *)
(* its SID access to the window station and desktop, then walks the        *)
(* workspace and changes the DACL of every object: protected objects are   *)
(* sealed, the others grant the SID.  The original DACL is kept in a       *)
(* process-wide table of leases shared by concurrent launches, and the     *)
(* last holder of a lease writes it back.                                  *)
(*                                                                         *)
(* A DACL is [sids, sealed]: the launches whose SID has an entry, and      *)
(* whether the object is cut off from inheritance.  SavedDacl::open reads  *)
(* the DACL before the table is locked, so opening and leasing an object   *)
(* are two steps; everything done under the lock is one.                   *)
(***************************************************************************)
EXTENDS Naturals, Sequences, FiniteSets

LOCAL INSTANCE SequencesExt
LOCAL INSTANCE FiniteSetsExt

CONSTANTS Launches,    \* sandboxed launches, each with a SID of its own
          Objects,     \* objects that exist before any launch
          Made,        \* objects a sandboxed child may create
          Root,        \* the workspace directory, an element of Objects
          Layouts,     \* [protected, writable]: the objects of a launch, deepest first
          MaxFaults    \* bound: failing Windows calls

VARIABLES acl,      \* Objects \cup Made -> the DACL of the object
          made,     \* objects created so far
          leases,   \* ACL_LEASES: holders = 0 when the object has no lease
          desk,     \* user objects -> launches whose SID they grant
          box,      \* Launches -> the launch
          pending,  \* launches whose AclGuard is a registered recovery
          lost,     \* ghost: launches that were dropped with a failed cleanup
          mixed,    \* ghost: objects whose saved DACL held another launch's SID
          raced,    \* ghost: objects written back outside the table's lock
          undone,   \* ghost: objects a failed cleanup wrote back but left leased
          faults

vars == <<acl, made, leases, desk, box, pending, lost, mixed, raced, undone, faults>>

All == Objects \cup Made

UserObjects == {"station", "desktop"}

Modes == {"Writable", "Protected"}

Untouched == [sids |-> {}, sealed |-> FALSE]

NoLease == [saved |-> Untouched, mode |-> "Writable", holders |-> 0]

Idle == [pc |-> "idle", layout |-> [protected |-> <<>>, writable |-> <<>>], todo |-> <<>>,
         opened |-> Untouched, leased |-> [o \in All |-> 0], profile |-> FALSE]

Init ==
    /\ acl = [o \in All |-> Untouched]
    /\ made = {}
    /\ leases = [o \in All |-> NoLease]
    /\ desk = [u \in UserObjects |-> {}]
    /\ box = [l \in Launches |-> Idle]
    /\ pending = {}
    /\ lost = {}
    /\ mixed = {}
    /\ raced = {}
    /\ undone = {}
    /\ faults = 0

At(l, pc) == box[l].pc = pc

Goes(l, pc) == box' = [box EXCEPT ![l].pc = pc]

CanFail == faults < MaxFaults

Fault == CanFail /\ faults' = faults + 1

TypeOK ==
    /\ acl \in [All -> [sids : SUBSET Launches, sealed : BOOLEAN]]
    /\ made \subseteq Made
    /\ \A o \in All : leases[o].holders \in Nat /\ leases[o].mode \in Modes
    /\ desk \in [UserObjects -> SUBSET Launches]
    /\ \A l \in Launches :
        /\ box[l].pc \in {"idle", "desk", "recover", "acquire", "opened", "unwind", "failed", "network",
                          "ready", "starting", "running", "closing", "recovery", "dropping", "gone"}
        /\ box[l].leased \in [All -> Nat]
    /\ pending = {l \in Launches : At(l, "recovery")}
    /\ faults \in 0..MaxFaults

------------------------------------------------------------------------------
(* The DACL operations. *)

\* apply_acl_change: grant the SID, or revoke it and cut the object off from inheritance
apply_acl_change(dacl, mode, l) ==
    IF mode = "Writable"
    THEN [dacl EXCEPT !.sids = @ \cup {l}]
    ELSE [sids |-> dacl.sids \ {l}, sealed |-> TRUE]

\* apply_acl_entry with REVOKE_ACCESS, and remove_sid_from_acl_exact
without_sid(dacl, l) == [dacl EXCEPT !.sids = @ \ {l}]

\* collect_tree of the protected roots, then of the workspace less the protected paths
todo_of(layout) ==
    [i \in DOMAIN layout.protected |-> [object |-> layout.protected[i], mode |-> "Protected"]]
      \o [i \in 1..Cardinality(made) |-> [object |-> SetToSeq(made)[i], mode |-> "Writable"]]
      \o [i \in DOMAIN layout.writable |-> [object |-> layout.writable[i], mode |-> "Writable"]]

ProtectedBy(l) == {box[l].layout.protected[i] : i \in DOMAIN box[l].layout.protected}

------------------------------------------------------------------------------
(* AclGuard::cleanup, all of it under the table's lock.  Every call on an     *)
(* object of bad fails; late says whether the sweep of the unleased objects   *)
(* fails, or the second write of the DACLs restored by the last holder.       *)

leased_objects(l) == {o \in All : box[l].leased[o] > 0}

\* mutant: the holder that leaves first writes the original DACL back
released_never(l, bad) == {o \in leased_objects(l) \ bad : leases[o].holders > 2}

\* more launches hold the object: the own SID is revoked and the holders fall
released(l, bad) ==
    {o \in leased_objects(l) \ bad : leases[o].holders > box[l].leased[o]}

\* the launch is the last holder: the saved DACL is written back
final_restore(l, bad) ==
    (leased_objects(l) \ bad) \ released(l, bad)

\* mutant: the objects the child made keep the SID they inherited
swept_nothing(l) == {}

\* cleanup_unleased_writable_objects: objects under the writable roots with no lease
swept(l) == {o \in (Objects \cup made) \ ProtectedBy(l) : leases[o].holders = 0}

cleanup_error(l, bad, late) == bad \cap leased_objects(l) # {} \/ late # "ok"

acl_after(l, bad, late) ==
    [o \in All |->
        IF o \in final_restore(l, bad) THEN leases[o].saved
        ELSE IF o \in released(l, bad) /\ leases[o].mode = "Writable" THEN without_sid(acl[o], l)
        ELSE IF o \in swept(l) /\ ~cleanup_error(l, bad, late) THEN without_sid(acl[o], l)
        ELSE acl[o]]

leases_after(l, bad, late) ==
    [o \in All |->
        IF o \in released(l, bad) THEN [leases[o] EXCEPT !.holders = @ - box[l].leased[o]]
        ELSE IF o \in final_restore(l, bad)
             THEN IF cleanup_error(l, bad, late) THEN [leases[o] EXCEPT !.holders = 1] ELSE NoLease
        ELSE leases[o]]

leased_after(l, bad, late) ==
    [o \in All |->
        IF o \in released(l, bad) THEN 0
        ELSE IF o \in final_restore(l, bad) THEN IF cleanup_error(l, bad, late) THEN 1 ELSE 0
        ELSE box[l].leased[o]]

undone_after(l, bad, late) ==
    IF cleanup_error(l, bad, late) THEN undone \cup final_restore(l, bad) ELSE undone \ final_restore(l, bad)

Bad == {{}} \cup {{o} : o \in Objects}

Late == {"ok", "sweep", "again"}

\* the guard g is cleaned up and the launch l moves on to pc
Cleanup(l, bad, late) ==
    /\ (bad # {}) => bad \subseteq leased_objects(l)
    /\ (bad # {}) => (late = "ok")
    /\ acl' = acl_after(l, bad, late)
    /\ leases' = leases_after(l, bad, late)
    /\ undone' = undone_after(l, bad, late)
    /\ IF cleanup_error(l, bad, late) THEN Fault ELSE UNCHANGED faults

WithLeased(l, pc, bad, late) ==
    [box[l] EXCEPT !.pc = pc, !.leased = leased_after(l, bad, late)]

------------------------------------------------------------------------------
(* WindowsSandbox::prepare. *)

\* AppContainerProfile::create: a profile with a name and a SID of its own
with_profile(b) == [b EXCEPT !.profile = TRUE]

\* Drop for AppContainerProfile
without_profile(b) == [b EXCEPT !.profile = FALSE]

\* psec preflight, trusted helper, identity snapshot, then the profile; any may fail
Prepare(l) ==
    /\ At(l, "idle")
    /\ \/ \E layout \in Layouts :
            /\ box' = [box EXCEPT ![l] = with_profile([@ EXCEPT !.pc = "desk", !.layout = layout])]
            /\ UNCHANGED faults
       \/ Fault /\ Goes(l, "gone")
    /\ UNCHANGED <<undone, acl, made, leases, desk, pending, lost, mixed, raced>>

\* modify_user_object_acl, under USER_OBJECT_ACL_LOCK
granted(l, users) == [u \in UserObjects |-> IF u \in users THEN desk[u] \cup {l} ELSE desk[u]]

revoked(l, users) == [u \in UserObjects |-> IF u \in users THEN desk[u] \ {l} ELSE desk[u]]

\* UserObjectAclGuard::apply: the handle granted first is revoked when the second fails
ApplyUserObjects(l) ==
    /\ At(l, "desk")
    /\ \/ desk' = granted(l, UserObjects) /\ Goes(l, "recover") /\ UNCHANGED faults
       \/ desk' = desk /\ Goes(l, "dropping") /\ Fault
    /\ UNCHANGED <<undone, acl, made, leases, pending, lost, mixed, raced>>

\* AclGuard::apply first retries every pending recovery of its kind
RetryRecoveries(l) ==
    /\ At(l, "recover")
    /\ \/ /\ pending = {}
          /\ box' = [box EXCEPT ![l].pc = "acquire", ![l].todo = todo_of(box[l].layout)]
          /\ UNCHANGED <<acl, leases, pending, undone, faults>>
       \/ \E p \in pending, bad \in Bad, late \in Late :
            /\ Cleanup(p, bad, late)
            /\ IF cleanup_error(p, bad, late)
               THEN box' = [box EXCEPT ![p] = WithLeased(p, "recovery", bad, late), ![l].pc = "dropping"]
               ELSE box' = [box EXCEPT ![p] = WithLeased(p, "gone", bad, late)]
            /\ pending' = IF cleanup_error(p, bad, late) THEN pending ELSE pending \ {p}
    /\ UNCHANGED <<made, desk, lost, mixed, raced>>

\* SavedDacl::open, before the table is locked; collect_tree may fail as well
OpenObject(l) ==
    /\ At(l, "acquire")
    /\ box[l].todo # <<>>
    /\ \/ box' = [box EXCEPT ![l].pc = "opened", ![l].opened = acl[Head(box[l].todo).object]] /\ UNCHANGED faults
       \/ Fault /\ Goes(l, "failed")
    /\ UNCHANGED <<undone, acl, made, leases, desk, pending, lost, mixed, raced>>

Leased(l, o) ==
    [box EXCEPT ![l].pc = "acquire", ![l].todo = Tail(@), ![l].leased[o] = @ + 1, ![l].opened = Untouched]

\* mutant: a second launch does not count itself as a holder
joins_uncounted(l, o, mode) ==
    /\ leases[o].mode = mode
    /\ acl' = [acl EXCEPT ![o] = IF mode = "Writable" THEN apply_acl_change(@, mode, l) ELSE @]
    /\ leases' = leases
    /\ box' = Leased(l, o)
    /\ UNCHANGED <<mixed, raced, faults>>

\* the object has a lease of the same mode: the captured DACL is dropped, the SID granted
join_lease(l, o, mode) ==
    /\ leases[o].mode = mode
    /\ acl' = [acl EXCEPT ![o] = IF mode = "Writable" THEN apply_acl_change(@, mode, l) ELSE @]
    /\ leases' = [leases EXCEPT ![o].holders = @ + 1]
    /\ box' = Leased(l, o)
    /\ UNCHANGED <<mixed, raced, faults>>

\* the object has no lease: the DACL captured when it was opened becomes the saved one
new_lease(l, o, mode) ==
    /\ acl' = [acl EXCEPT ![o] = apply_acl_change(@, mode, l)]
    /\ leases' = [leases EXCEPT ![o] = [saved |-> box[l].opened, mode |-> mode, holders |-> 1]]
    /\ box' = Leased(l, o)
    /\ mixed' = IF box[l].opened = Untouched THEN mixed ELSE mixed \cup {o}
    /\ UNCHANGED <<raced, faults>>

\* acquire_acl_lease under the lock
AcquireLease(l) ==
    /\ At(l, "opened")
    /\ LET o == Head(box[l].todo).object
           mode == Head(box[l].todo).mode
       IN \/ leases[o].holders > 0 /\ join_lease(l, o, mode)
          \/ leases[o].holders = 0 /\ new_lease(l, o, mode)
          \/ /\ leases[o].holders > 0
             /\ IF leases[o].mode = mode THEN mode = "Writable" /\ Fault ELSE UNCHANGED faults
             /\ Goes(l, "failed")
             /\ UNCHANGED <<acl, leases, mixed, raced>>
          \/ /\ leases[o].holders = 0
             /\ Fault
             /\ Goes(l, "unwind")
             /\ UNCHANGED <<acl, leases, mixed, raced>>
    /\ UNCHANGED <<undone, made, desk, pending, lost>>

\* Drop for SavedDacl after the change failed: the lock is released before the
\* captured DACL is written back
DropOpened(l) ==
    /\ At(l, "unwind")
    /\ LET o == Head(box[l].todo).object
       IN /\ acl' = [acl EXCEPT ![o] = box[l].opened]
          /\ raced' = IF acl[o] = box[l].opened THEN raced ELSE raced \cup {o}
    /\ box' = [box EXCEPT ![l].pc = "failed", ![l].opened = Untouched]
    /\ UNCHANGED <<undone, made, leases, desk, pending, lost, mixed, faults>>

\* every object is leased
Acquired(l) ==
    /\ At(l, "acquire")
    /\ box[l].todo = <<>>
    /\ Goes(l, "network")
    /\ UNCHANGED <<undone, acl, made, leases, desk, pending, lost, mixed, raced, faults>>

\* finish_acl_apply: where the launch goes after the cleanup of a failed apply
finish_acl_apply(l, err) == IF err THEN "recovery" ELSE "dropping"

\* the first cleanup may fail and the retry of the recovery registered for it succeed:
\* only the last attempt matters, the failed one changes nothing it cannot redo.  A guard
\* that stays registered keeps its copy of the SID; the user objects and the profile are
\* dropped as prepare returns the error
FinishApply(l) ==
    /\ At(l, "failed")
    /\ \E bad \in Bad, late \in Late :
        /\ Cleanup(l, bad, late)
        /\ LET pc == finish_acl_apply(l, cleanup_error(l, bad, late))
           IN /\ box' = [box EXCEPT ![l] =
                    IF pc = "dropping" THEN WithLeased(l, pc, bad, late)
                    ELSE without_profile(WithLeased(l, pc, bad, late))]
              /\ pending' = IF pc = "recovery" THEN pending \cup {l} ELSE pending
              /\ desk' = IF pc = "dropping" THEN desk ELSE revoked(l, UserObjects)
    /\ UNCHANGED <<made, lost, mixed, raced>>

\* prepare_network_state: the proxy peer, its certificate and policy are written
PrepareNetwork(l) ==
    /\ At(l, "network")
    /\ \/ Goes(l, "ready") /\ UNCHANGED faults
       \/ Goes(l, "dropping") /\ Fault
    /\ UNCHANGED <<undone, acl, made, leases, desk, pending, lost, mixed, raced>>

------------------------------------------------------------------------------
(* The prepared sandbox runs one child. *)

\* configure_inner, once per sandbox, and verify_before_spawn
Configure(l) ==
    /\ At(l, "ready")
    /\ \/ Goes(l, "starting") /\ UNCHANGED faults
       \/ Goes(l, "closing") /\ Fault
    /\ UNCHANGED <<undone, acl, made, leases, desk, pending, lost, mixed, raced>>

\* wait_for_start: the marker confirms the start, or it is invalid, the child has
\* exited or the deadline has passed
WaitForStart(l) ==
    /\ At(l, "starting")
    /\ \/ Goes(l, "running") /\ UNCHANGED faults
       \/ Goes(l, "closing") /\ Fault
    /\ UNCHANGED <<undone, acl, made, leases, desk, pending, lost, mixed, raced>>

\* the child creates an object, which inherits the entries of the workspace directory
ChildCreates(l, n) ==
    /\ At(l, "running")
    /\ n \notin made
    /\ made' = made \cup {n}
    /\ acl' = [acl EXCEPT ![n].sids = acl[Root].sids]
    /\ UNCHANGED <<undone, leases, desk, box, pending, lost, mixed, raced, faults>>

Exit(l) ==
    /\ At(l, "running")
    /\ Goes(l, "closing")
    /\ UNCHANGED <<undone, acl, made, leases, desk, pending, lost, mixed, raced, faults>>

\* SandboxRunner::cleanup once the process tree is gone; a failure is reported and
\* the drop tries again
SandboxCleanup(l) ==
    /\ At(l, "closing")
    /\ \E bad \in Bad, late \in Late :
        /\ Cleanup(l, bad, late)
        /\ box' = [box EXCEPT ![l] = WithLeased(l, "dropping", bad, late)]
    /\ UNCHANGED <<made, desk, pending, lost, mixed, raced>>

\* the fields are dropped in order: the ACL guard, the user objects, the profile;
\* a failure is only logged
DropSandbox(l) ==
    /\ At(l, "dropping")
    /\ \E bad \in Bad, late \in Late, failing \in {{}} \cup {{u} : u \in UserObjects} :
        /\ (failing # {}) => (bad = {} /\ late = "ok" /\ CanFail /\ \A u \in failing : l \in desk[u])
        /\ acl' = acl_after(l, bad, late)
        /\ leases' = leases_after(l, bad, late)
        /\ undone' = undone_after(l, bad, late)
        /\ (bad # {}) => (bad \subseteq leased_objects(l) /\ late = "ok")
        /\ box' = [box EXCEPT ![l] = without_profile(WithLeased(l, "gone", bad, late))]
        /\ desk' = revoked(l, UserObjects \ failing)
        /\ IF cleanup_error(l, bad, late) \/ failing # {}
           THEN Fault /\ lost' = lost \cup {l}
           ELSE UNCHANGED <<faults, lost>>
    /\ UNCHANGED <<made, pending, mixed, raced>>

Next ==
    \E l \in Launches :
        \/ Prepare(l)
        \/ ApplyUserObjects(l)
        \/ RetryRecoveries(l)
        \/ OpenObject(l)
        \/ AcquireLease(l)
        \/ DropOpened(l)
        \/ Acquired(l)
        \/ FinishApply(l)
        \/ PrepareNetwork(l)
        \/ Configure(l)
        \/ WaitForStart(l)
        \/ \E n \in Made : ChildCreates(l, n)
        \/ Exit(l)
        \/ SandboxCleanup(l)
        \/ DropSandbox(l)

Spec == Init /\ [][Next]_vars

------------------------------------------------------------------------------
(* Properties. *)

\* the entries that a launch which is over left behind without a failed cleanup
Leftover(l) ==
    {o \in All : l \in acl[o].sids} \cup {u \in UserObjects : l \in desk[u]}

\* A running launch keeps what it was promised whatever other launches do: its SID on
\* every writable object, the seal on every protected one; and no protected object is
\* unsealed before the last launch that needs it has gone (the shared table of leases).
\* The two exceptions are the ones the code has: a DACL written back after the lock was
\* released, and a seal that a cleanup with another failure removed while it kept the lease,
\* which acquire_acl_lease does not apply again.
AccessKept ==
    \A l \in Launches : At(l, "running") =>
        \A o \in leased_objects(l) \ raced :
            IF leases[o].mode = "Writable" THEN l \in acl[o].sids ELSE acl[o].sealed \/ o \in undone

\* Every entry a finished launch left on an object is explained by a cleanup that failed
\* or by a DACL that was saved with the entry already on it; and a DACL with no lease is
\* the original one up to those.  The holders of a lease are exactly the guards that
\* still list the object (AclGuard::cleanup, acquire_acl_lease).
OnlyKnownResidue ==
    /\ \A l \in Launches \ lost : At(l, "gone") => Leftover(l) \subseteq mixed \cup raced
    /\ \A o \in Objects \ (mixed \cup raced) :
        leases[o].holders = 0 => acl[o] = Untouched
    /\ \A o \in All : leases[o].holders = MapThenSumSet(LAMBDA l : box[l].leased[o], Launches)

\* What concurrent launches owe one another: access while running, and nothing left behind.
LeasesShared == AccessKept /\ OnlyKnownResidue
==============================================================================
