---------------------------- MODULE MemoryStore ----------------------------
\* Long-term memory: the versioned record database several processes share
\* (solaris-memory), the one-time import of legacy Markdown files, proposals and
\* their review, and the snapshot a session freezes when it starts and must see
\* again after every restart (memory_runtime.rs, session.rs).
EXTENDS Naturals, Sequences, FiniteSets

LOCAL INSTANCE SequencesExt
LOCAL INSTANCE FiniteSetsExt

CONSTANTS
    Procs,          \* processes that open the project's memory
    Sessions,       \* session ids
    Ids,            \* record ids, each drawn once
    Texts,          \* contents of records and files
    Size,           \* bytes of a content; 0 is a blank one
    Files,          \* legacy Markdown files
    FileTexts,      \* contents a legacy file may have
    Proposals,      \* proposal ids, each drawn once
    Nothing,        \* no process, record, file or snapshot
    Review,         \* [memory].review
    RecordLimit,    \* SNAPSHOT_RECORD_LIMIT
    ContentBudget,  \* SNAPSHOT_CONTENT_BUDGET
    SearchLimit,    \* SEARCH_RESULT_LIMIT
    SearchBudget,   \* SEARCH_CONTENT_BUDGET
    MaxTextSize,    \* MAX_CONTENT_BYTES
    MaxClock, MaxOps, MaxFaults

VARIABLES
    rec,        \* memory_records
    hist,       \* memory_versions, with who wrote each one
    fts,        \* memory_fts: the text indexed for a record
    prop,       \* memory_proposals
    imported,   \* memory_import_sources
    file,       \* the legacy files on disk
    row,        \* sessions: the snapshot reference a session stores, and its lease
    blob,       \* protected snapshot blobs written for a session
    proc,       \* what each process is doing
    frozen,     \* the first snapshot a session durably refers to
    clock,      \* the wall clock
    spent       \* operations, faults, and whether the clock stepped back

vars == <<rec, hist, fts, prop, imported, file, row, blob, proc, frozen, clock, spent>>

-----------------------------------------------------------------------------
\* Values.

\* No record has been written under this id.
NoRecord == [text |-> Nothing, version |-> 0, created |-> 0, updated |-> 0, deleted |-> FALSE]

\* A process that is not running.
Out == [pc |-> "out", sess |-> Nothing, new |-> FALSE, todo |-> <<>>, got |-> Nothing, snap |-> Nothing]

\* A file is an object that holds a text; object 0 is an absent file.
Gone == [obj |-> 0, text |-> Nothing]

unwritten == {i \in Ids : rec[i].version = 0}
active == {i \in Ids : rec[i].version > 0 /\ ~rec[i].deleted}

-----------------------------------------------------------------------------
\* Validation.

\* A text that is not blank and within its limit.
validate_text(t) == Size[t] \in 1..MaxTextSize

\* A create or an edit carries a valid text; a delete carries none.
validate_mutation(m) == IF m.op = "delete" THEN TRUE ELSE validate_text(m.text)

\* The list a snapshot is built from: at most one record more than fits.
query_active_records == active

\* All contents of a list of records, in bytes.
content_bytes(records) == MapThenSumSet(LAMBDA r : Size[r.text], records)

\* The frozen form of one record.
snapshot_record(i) ==
    [id |-> i, text |-> rec[i].text, version |-> rec[i].version, created |-> rec[i].created, updated |-> rec[i].updated]

\* The list fits its limits and every record is well formed.
validate_snapshot_records(records) ==
    /\ Cardinality(records) <= RecordLimit
    /\ content_bytes(records) <= ContentBudget
    /\ \A r \in records : validate_text(r.text) /\ r.version > 0 /\ r.created <= r.updated

-----------------------------------------------------------------------------
\* One mutation, in one immediate transaction.

ensure_version(i, expected) == rec[i].version = expected
\* The current row is found, undeleted, at the version the caller expects.
mutation_admitted(m) ==
    IF m.op = "create" THEN unwritten # {}
    ELSE m.id \in active /\ ensure_version(m.id, m.version)

\* The id a mutation writes: a fresh one for a create.
target(m) == IF m.op = "create" THEN CHOOSE i \in unwritten : TRUE ELSE m.id

insert_record(m) ==
    [text |-> m.text, version |-> 1, created |-> clock, updated |-> clock, deleted |-> FALSE]

update_record(m) ==
    [rec[m.id] EXCEPT !.text = m.text, !.version = @ + 1, !.updated = clock]

delete_record(m) ==
    [rec[m.id] EXCEPT !.version = @ + 1, !.updated = clock, !.deleted = TRUE]

new_row(m) ==
    CASE m.op = "create" -> insert_record(m)
      [] m.op = "edit" -> update_record(m)
      [] OTHER -> delete_record(m)

\* A row of memory_versions: the record as written, the operation, and its writer.
insert_version(m, by) ==
    [op |-> m.op, text |-> new_row(m).text, version |-> new_row(m).version,
     based |-> m.version, by |-> by]

\* Mutant: the index keeps its row when a record is edited or deleted.
index_unless_edit(m) == IF m.op = "create" THEN m.text ELSE fts[m.id]

\* The search index follows the record: replaced on every write, dropped on delete.
index_record(m) == IF m.op = "delete" THEN Nothing ELSE m.text
\* Record, version row and index change together.
apply_mutation(m, by) ==
    /\ rec' = [rec EXCEPT ![target(m)] = new_row(m)]
    /\ hist' = [hist EXCEPT ![target(m)] = Append(@, insert_version(m, by))]
    /\ fts' = [fts EXCEPT ![target(m)] = index_record(m)]

-----------------------------------------------------------------------------
\* Searching a frozen snapshot.

cut(t, room) == IF Size[t] > room THEN room ELSE Size[t]

\* Mutant: a match is returned whole where only part of it fits.
bound_step_uncut(acc, r) ==
    [room |-> acc.room - cut(r.text, acc.room),
     out |-> Append(acc.out, [id |-> r.id, bytes |-> Size[r.text], truncated |-> FALSE])]

\* Of the ranked matches the first few are returned; each fits what is left of the
\* budget, the last one perhaps truncated; nothing follows an exhausted budget.
bound_step(acc, r) ==
    IF acc.room = 0 THEN acc
    ELSE [room |-> acc.room - cut(r.text, acc.room),
          out |-> Append(acc.out, [id |-> r.id, bytes |-> cut(r.text, acc.room),
                                   truncated |-> Size[r.text] > acc.room])]
first_ranked(ranked) == SubSeq(ranked, 1, IF Len(ranked) < SearchLimit THEN Len(ranked) ELSE SearchLimit)

bound_search_results(ranked) ==
    FoldLeft(bound_step, [room |-> SearchBudget, out |-> <<>>], first_ranked(ranked)).out

\* Every ranking of every set of records a query may match in the snapshot.
search(snap) ==
    {bound_search_results(ranked) : ranked \in UNION {SetToSeqs(found) : found \in SUBSET snap.records}}

-----------------------------------------------------------------------------
\* Steps.

Init ==
    /\ rec = [i \in Ids |-> NoRecord]
    /\ hist = [i \in Ids |-> <<>>]
    /\ fts = [i \in Ids |-> Nothing]
    /\ prop = [q \in Proposals |-> [state |-> "none", m |-> Nothing]]
    /\ imported = [f \in Files |-> Nothing]
    /\ file \in [Files -> {[obj |-> 1, text |-> t] : t \in FileTexts} \cup {Gone}]
    /\ row \in [Sessions -> [exists : BOOLEAN, ref : {Nothing}, owner : {Nothing}]]
    /\ blob = [s \in Sessions |-> {}]
    /\ proc = [p \in Procs |-> Out]
    /\ frozen = [s \in Sessions |-> Nothing]
    /\ clock = 0
    /\ spent = [ops |-> 0, faults |-> 0, slipped |-> FALSE]

Faulty == spent.faults < MaxFaults /\ spent' = [spent EXCEPT !.faults = @ + 1]

\* The session's lease is given up by the process that holds it.
released(p) ==
    [s \in Sessions |-> IF row[s].owner = p THEN [row[s] EXCEPT !.owner = Nothing] ELSE row[s]]

\* A startup error ends the process; its lease is released.
Refused(p) == proc' = [proc EXCEPT ![p] = Out] /\ row' = released(p)

\* The Markdown files of the memory directory, in order of their paths.
collect_legacy_sources == SetToSeq({f \in Files : file[f].obj # 0})

\* The lease is free, or its holder stopped renewing it.
lease_free(s) ==
    \/ row[s].owner = Nothing /\ UNCHANGED spent
    \/ row[s].owner # Nothing /\ Faulty

\* open_service begins for a new session or for one loaded under its lease.
Open(p, s) ==
    /\ proc[p].pc = "out"
    /\ proc' = [proc EXCEPT ![p] = [Out EXCEPT !.pc = "scan", !.sess = s, !.new = ~row[s].exists,
                                               !.todo = collect_legacy_sources]]
    /\ IF row[s].exists
       THEN lease_free(s) /\ row' = [row EXCEPT ![s].owner = p]
       ELSE UNCHANGED <<row, spent>>
    /\ UNCHANGED <<rec, hist, fts, prop, imported, file, blob, frozen, clock>>

\* One source is read whole; an unreadable or unstable one is skipped.
read_legacy_source(p) ==
    /\ proc[p].pc = "scan" /\ proc[p].todo # <<>>
    /\ LET f == Head(proc[p].todo) IN
       \/ /\ file[f].obj # 0
          /\ proc' = [proc EXCEPT ![p].pc = "import", ![p].got = file[f]]
          /\ UNCHANGED spent
       \/ /\ IF file[f].obj = 0 THEN UNCHANGED spent ELSE Faulty
          /\ proc' = [proc EXCEPT ![p].todo = Tail(@)]
    /\ UNCHANGED <<rec, hist, fts, prop, imported, file, row, blob, frozen, clock>>

\* The record an imported file becomes; its frontmatter is data.
imports(p) == [op |-> "create", id |-> Nothing, version |-> 0, text |-> proc[p].got.text]

\* Mutant: a legacy file is imported at every start.
never_imported(f) == FALSE

already_imported(f) == imported[f] # Nothing
\* The path still names the object that was read.
same_object(p, f) == file[f].obj = proc[p].got.obj

\* In one transaction: nothing if the path was imported, an error that ends the
\* startup if the content is invalid or the file is gone, a rollback if the path now
\* names another object, else the record and the mark.
import_legacy_source(p) ==
    /\ proc[p].pc = "import"
    /\ LET f == Head(proc[p].todo)
           Next1 == proc' = [proc EXCEPT ![p].pc = "scan", ![p].todo = Tail(@), ![p].got = Nothing] IN
       IF already_imported(f)
       THEN Next1 /\ UNCHANGED <<rec, hist, fts, imported, row>>
       ELSE IF ~validate_mutation(imports(p)) \/ file[f].obj = 0
       THEN Refused(p) /\ UNCHANGED <<rec, hist, fts, imported>>
       ELSE IF ~same_object(p, f)
       THEN Next1 /\ UNCHANGED <<rec, hist, fts, imported, row>>
       ELSE /\ mutation_admitted(imports(p))
            /\ Next1
            /\ apply_mutation(imports(p), f)
            /\ imported' = [imported EXCEPT ![f] = target(imports(p))]
            /\ UNCHANGED row
    /\ UNCHANGED <<prop, file, blob, frozen, clock, spent>>

\* What a new snapshot of the store holds.
snapshot == [at |-> clock, records |-> {snapshot_record(i) : i \in query_active_records}]

\* The blob the session's reference names can be read back and matches its digest.
restore_snapshot(s) == row[s].ref \in blob[s]

\* A session with a reference gets the blob it names or does not start at all.
FreezeRestored(p) ==
    LET s == proc[p].sess IN
    IF restore_snapshot(s)
    THEN proc' = [proc EXCEPT ![p].pc = "live", ![p].snap = row[s].ref] /\ UNCHANGED row
    ELSE Refused(p)

\* A session without one freezes the store as it is now.
FreezeCurrent(p) ==
    IF validate_snapshot_records(snapshot.records)
    THEN proc' = [proc EXCEPT ![p].pc = "prepared", ![p].snap = snapshot] /\ UNCHANGED row
    ELSE Refused(p)

\* Mutant: a missing blob is captured again instead of refused.
recaptures(p) ==
    IF row[proc[p].sess].ref # Nothing /\ restore_snapshot(proc[p].sess) THEN FreezeRestored(p)
    ELSE proc' = [proc EXCEPT ![p].pc = "live", ![p].snap = snapshot] /\ UNCHANGED row

\* Which of the two a session needs.
open_for_session(p) ==
    IF ~proc[p].new /\ row[proc[p].sess].ref # Nothing THEN FreezeRestored(p) ELSE FreezeCurrent(p)

Freeze(p) ==
    /\ proc[p].pc = "scan" /\ proc[p].todo = <<>>
    /\ open_for_session(p)
    /\ UNCHANGED <<rec, hist, fts, prop, imported, file, blob, frozen, clock, spent>>

\* Creation fails on an existing row; a resumed session's save is fenced by its lease
\* and may not replace a reference.
create_or_save(p, s) ==
    IF proc[p].new THEN ~row[s].exists
    ELSE row[s].owner = p /\ row[s].ref \in {Nothing, proc[p].snap}

\* The reference becomes durable with the session row, before the blob is written.
install_active_memory_snapshot(p) ==
    /\ proc[p].pc = "prepared"
    /\ LET s == proc[p].sess IN
       IF create_or_save(p, s)
       THEN /\ row' = [row EXCEPT ![s] = [exists |-> TRUE, ref |-> proc[p].snap, owner |-> p]]
            /\ frozen' = [frozen EXCEPT ![s] = IF @ = Nothing THEN proc[p].snap ELSE @]
            /\ proc' = [proc EXCEPT ![p].pc = "persist"]
       ELSE Refused(p) /\ UNCHANGED frozen
    /\ UNCHANGED <<rec, hist, fts, prop, imported, file, blob, clock, spent>>

\* The blob is written atomically; a failed write ends the startup.
write_protected_blob(p) ==
    /\ proc[p].pc = "persist"
    /\ \/ /\ blob' = [blob EXCEPT ![proc[p].sess] = @ \cup {proc[p].snap}]
          /\ proc' = [proc EXCEPT ![p].pc = "live"]
          /\ UNCHANGED <<row, spent>>
       \/ Refused(p) /\ Faulty /\ UNCHANGED blob
    /\ UNCHANGED <<rec, hist, fts, prop, imported, file, frozen, clock>>

\* Mutant: a child agent's change is made at once.
proposes_under_review(child) == Review

\* A child agent's change, and every change under review, is only proposed.
mutation_requires_proposal(child) == child \/ Review
Mutations ==
    [op : {"create"}, id : {Nothing}, version : {0}, text : Texts]
        \cup [op : {"edit"}, id : Ids, version : 1..MaxOps, text : Texts]
        \cup [op : {"delete"}, id : Ids, version : 1..MaxOps, text : {Nothing}]

\* The versions a model can name: those of its snapshot, or ones a later answer told it.
named(m) == IF m.op = "create" THEN TRUE ELSE m.version \in 1..rec[m.id].version

Asks == spent.ops < MaxOps /\ spent' = [spent EXCEPT !.ops = @ + 1]

fresh_proposals == {q \in Proposals : prop[q].state = "none"}

\* A create, edit or delete asked of the Memory tool.
execute_mutation(p, child, m) ==
    /\ proc[p].pc = "live" /\ named(m) /\ validate_mutation(m) /\ Asks
    /\ IF mutation_requires_proposal(child)
       THEN /\ fresh_proposals # {}
            /\ prop' = [prop EXCEPT ![CHOOSE q \in fresh_proposals : TRUE] = [state |-> "pending", m |-> m]]
            /\ UNCHANGED <<rec, hist, fts>>
       ELSE mutation_admitted(m) /\ apply_mutation(m, IF child THEN "child" ELSE "root") /\ UNCHANGED prop
    /\ UNCHANGED <<imported, file, row, blob, proc, frozen, clock>>

still_pending(q) == prop[q].state = "pending"
\* A child agent may neither list nor decide proposals.
may_review(child) == ~child

\* The root agent reviews: an approval applies the mutation in the same transaction and
\* fails with it; a rejection only marks it.
review_proposal(p, child, q) ==
    /\ proc[p].pc = "live" /\ may_review(child) /\ still_pending(q)
    /\ \/ /\ mutation_admitted(prop[q].m)
          /\ apply_mutation(prop[q].m, q)
          /\ prop' = [prop EXCEPT ![q].state = "approved"]
       \/ /\ prop' = [prop EXCEPT ![q].state = "rejected"]
          /\ UNCHANGED <<rec, hist, fts>>
    /\ UNCHANGED <<imported, file, row, blob, proc, frozen, clock, spent>>

\* The session ends and releases its lease.
Close(p) ==
    /\ proc[p].pc = "live"
    /\ Refused(p)
    /\ UNCHANGED <<rec, hist, fts, prop, imported, file, blob, frozen, clock, spent>>

\* The process dies; its lease stays until it expires.
Crash(p) ==
    /\ proc[p].pc # "out" /\ Faulty
    /\ proc' = [proc EXCEPT ![p] = Out]
    /\ UNCHANGED <<rec, hist, fts, prop, imported, file, row, blob, frozen, clock>>

\* A person replaces or removes a legacy file.
Replace(f) ==
    /\ Faulty /\ file[f].obj < 2
    /\ \/ \E t \in FileTexts : file' = [file EXCEPT ![f] = [obj |-> @.obj + 1, text |-> t]]
       \/ file[f].obj # 0 /\ file' = [file EXCEPT ![f] = Gone]
    /\ UNCHANGED <<rec, hist, fts, prop, imported, row, blob, proc, frozen, clock>>

\* The wall clock advances, or is set back.
Clock ==
    /\ \/ clock < MaxClock /\ clock' = clock + 1 /\ UNCHANGED spent
       \/ /\ clock > 0 /\ clock' = clock - 1 /\ spent.faults < MaxFaults
          /\ spent' = [spent EXCEPT !.faults = @ + 1, !.slipped = TRUE]
    /\ UNCHANGED <<rec, hist, fts, prop, imported, file, row, blob, proc, frozen>>

Next ==
    \/ \E p \in Procs :
        \/ \E s \in Sessions : Open(p, s)
        \/ read_legacy_source(p)
        \/ import_legacy_source(p)
        \/ Freeze(p)
        \/ install_active_memory_snapshot(p)
        \/ write_protected_blob(p)
        \/ \E child \in BOOLEAN, m \in Mutations : execute_mutation(p, child, m)
        \/ \E child \in BOOLEAN, q \in Proposals : review_proposal(p, child, q)
        \/ Close(p)
        \/ Crash(p)
    \/ \E f \in Files : Replace(f)
    \/ Clock

Spec == Init /\ [][Next]_vars

-----------------------------------------------------------------------------
\* Properties.

\* Every variable holds a value of its kind (service.rs, memory_runtime.rs).
TypeOK ==
    /\ \A i \in Ids : rec[i].text \in Texts \cup {Nothing} /\ rec[i].version \in 0..(MaxOps + 2)
    /\ \A i \in Ids : fts[i] \in Texts \cup {Nothing} /\ imported \in [Files -> Ids \cup {Nothing}]
    /\ \A q \in Proposals : prop[q].state \in {"none", "pending", "approved", "rejected"}
    /\ \A s \in Sessions : row[s].owner \in Procs \cup {Nothing} /\ row[s].exists \in BOOLEAN
    /\ \A p \in Procs : proc[p].pc \in {"out", "scan", "import", "prepared", "persist", "live"}
    /\ clock \in 0..MaxClock /\ spent.ops \in 0..MaxOps /\ spent.faults \in 0..MaxFaults

\* Versions of a record are consecutive, each made against the one before it, and the
\* last one is the record; a deleted record is never written again; the search index
\* holds exactly the records that are not deleted (service.rs:541-712).
VersionsLinear ==
    \A i \in Ids :
        /\ Len(hist[i]) = rec[i].version
        /\ \A k \in DOMAIN hist[i] :
            /\ hist[i][k].version = k /\ hist[i][k].based = k - 1
            /\ (hist[i][k].op = "create") <=> (k = 1)
            /\ hist[i][k].op = "delete" => k = Len(hist[i])
        /\ rec[i].version > 0 => hist[i][rec[i].version].text = rec[i].text
        /\ fts[i] = IF i \in active THEN rec[i].text ELSE Nothing

\* What a running session reads is the first snapshot the session durably referred to,
\* over crashes, lost blobs and changes by other sessions (memory_runtime.rs:81-109).
SnapshotsFrozen ==
    \A p \in Procs : proc[p].pc = "live" => proc[p].snap = frozen[proc[p].sess]

Writers == UNION {{hist[i][k].by : k \in DOMAIN hist[i]} : i \in Ids}
WrittenBy(w) == {<<i, k>> \in Ids \X (1..(MaxOps + 2)) : k \in DOMAIN hist[i] /\ hist[i][k].by = w}

\* A legacy path becomes at most one record in the life of the database, however often
\* sessions start and whatever the record or the file became (service_import.rs:47-110).
ImportedOnce ==
    \A f \in Files :
        /\ Cardinality(WrittenBy(f)) = IF imported[f] = Nothing THEN 0 ELSE 1
        /\ \A w \in WrittenBy(f) : w = <<imported[f], 1>>

\* A proposal is applied exactly when it is approved, and then once; a child agent
\* never writes, nor the root agent under review (memory_tool.rs:87-103).
ReviewedOnce ==
    /\ \A q \in Proposals : Cardinality(WrittenBy(q)) = IF prop[q].state = "approved" THEN 1 ELSE 0
    /\ "child" \notin Writers
    /\ Review => "root" \notin Writers

\* Unless the clock was set back, no change makes the store unfreezable except by its
\* size: an edit cannot produce a record that a snapshot rejects (service.rs:478-503).
StoreFreezable ==
    spent.slipped \/ validate_snapshot_records(snapshot.records)
        \/ Cardinality(active) > RecordLimit \/ content_bytes(snapshot.records) > ContentBudget

\* A search answers from the snapshot, within its limits, and says when it cut a text
\* (service.rs:849-865).
SearchBounded ==
    \A p \in Procs : proc[p].pc = "live" =>
        \A found \in search(proc[p].snap) :
            /\ Len(found) <= SearchLimit
            /\ FoldLeft(LAMBDA n, r : n + r.bytes, 0, found) <= SearchBudget
            /\ \A k \in DOMAIN found :
                \E r \in proc[p].snap.records :
                    /\ r.id = found[k].id
                    /\ found[k].truncated <=> found[k].bytes < Size[r.text]

\* Memory keeps its promises to every session that shares it.
MemoryKept ==
    /\ VersionsLinear
    /\ SnapshotsFrozen
    /\ ImportedOnce
    /\ ReviewedOnce
    /\ StoreFreezable
    /\ SearchBounded
=============================================================================
