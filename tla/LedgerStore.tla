---------------------------- MODULE LedgerStore ----------------------------
(***************************************************************************)
(* The storage below the runtime ledger (solaris-agent, runtime_ledger*.rs): *)
(* the SQLite database every process of an installation shares, the legacy  *)
(* JSONL ledger it replaces, the import of the one into the other, the      *)
(* export of the database to a JSONL file, and the readers that page        *)
(* through the journal of a Run tree.                                       *)
(*                                                                          *)
(* A database is a value: committing a transaction replaces it, and a power *)
(* failure puts back one of the values committed since the last commit that *)
(* was synchronised.  Text is abstracted: a line of the JSONL file is known *)
(* by the token of the write that made it, and its byte offset by its       *)
(* position.  Workflow leases and task admission are modelled in            *)
(* WorkflowLease and TaskCas.                                               *)
(***************************************************************************)
EXTENDS Naturals, Sequences, FiniteSets
LOCAL INSTANCE SequencesExt
LOCAL INSTANCE FiniteSetsExt

CONSTANTS
  Procs,      \* processes that open the database
  Runs,       \* Run identities
  Tree,       \* the Runs of the tree a reader follows
  Ids, Vals,  \* logical identities and the content bound to them
  Olds,       \* databases and JSONL files an earlier build may have left
  NoOne,      \* no process
  PageSize,   \* limit of one journal page
  MaxCalls,   \* bound on the calls made
  MaxFaults   \* bound on crashes, failed writes and changes by other programs

Durabilities == {"SyncCritical", "AsyncDurable", "Ephemeral"}
SqliteLedgerSchema == 4

VARIABLES
  db,        \* the database: version, next sequence, rows, logical, imports, source
  unsynced,  \* values of db a power failure may leave behind
  lock,      \* the process inside an Immediate transaction, or NoOne
  proc,      \* per process: where it is in a call that takes several steps
  log,       \* the JSONL file: terminated lines, an unterminated tail, a change stamp
  writer,    \* the legacy process that appends to it
  target,    \* the file an export replaces
  temps,     \* export temporaries on disk
  reader,    \* a journal reader: its cursor and the sequences it was given
  acks,      \* records whose append was reported as done
  deleted,   \* tokens of imported rows that a Run deletion removed
  covered,   \* tokens of the lines in the file when an import of it was completed
  litter,    \* temporaries whose export was killed
  spent

vars == <<db, unsynced, lock, proc, log, writer, target, temps, reader, acks, deleted, covered, litter, spent>>
store_vars == <<db, unsynced, lock, acks, deleted, covered>>
file_vars == <<log, writer>>
export_vars == <<target, temps, litter>>

Idle == [pc |-> "idle", once |-> FALSE, stamp |-> 0, draft |-> {}, object |-> 0, name |-> "out",
         whole |-> FALSE]
Closed == [Idle EXCEPT !.pc = "closed"]
NoTail == <<>>
ClosedWriter == [open |-> FALSE, next |-> 0, poisoned |-> FALSE, rest |-> <<>>]

Init ==
  \E old \in Olds :
    /\ db = old.db /\ unsynced = {old.db} /\ lock = NoOne
    /\ proc = [p \in Procs |-> Closed]
    /\ log = [lines |-> old.lines, tail |-> NoTail, stamp |-> 0, tok |-> Len(old.lines),
              synced |-> Len(old.lines), acked |-> {}]
    /\ writer = ClosedWriter
    /\ target = [object |-> 0, whole |-> TRUE, over |-> "out"] /\ temps = {}
    /\ reader = [cursor |-> 0, seen |-> {}]
    /\ acks = {} /\ deleted = {} /\ covered = {} /\ litter = {}
    /\ spent = [calls |-> 0, faults |-> 0]

calls(n) == spent.calls + n <= MaxCalls /\ spent' = [spent EXCEPT !.calls = @ + n]
faults(n) == spent.faults + n <= MaxFaults /\ spent' = [spent EXCEPT !.faults = @ + n]
call_may_fail(failed) ==
  /\ spent.calls < MaxCalls
  /\ failed => spent.faults < MaxFaults
  /\ spent' = [calls |-> spent.calls + 1, faults |-> spent.faults + (IF failed THEN 1 ELSE 0)]

---------------------------------------------------------------------------
(* The JSONL ledger.  One legacy process appends to the file; a record is   *)
(* one line, its sequence one more than the largest the writer knows.       *)

line(tok, seq, run, id, val) == [tok |-> tok, seq |-> seq, run |-> run, id |-> id, val |-> val, good |-> TRUE]

\* A write that lands behind an unterminated tail makes one line of both,
\* which no reader can decode.
behind_tail(l) == [l EXCEPT !.good = log.tail = NoTail]

\* Mutant: opening leaves an unterminated tail in place.
keep_tail == log

truncate_tail == IF log.tail = NoTail THEN log ELSE [log EXCEPT !.tail = NoTail, !.stamp = @ + 1]

load_sequences(lines) == Max({0} \cup {lines[i].seq : i \in DOMAIN lines})

\* Opening truncates whatever follows the last newline.
jsonl_open ==
  /\ ~writer.open
  /\ \A i \in DOMAIN log.lines : log.lines[i].good
  /\ calls(1)
  /\ writer' = [ClosedWriter EXCEPT !.open = TRUE, !.next = load_sequences(log.lines)]
  /\ log' = truncate_tail
  /\ UNCHANGED <<store_vars, export_vars, proc, reader>>

\* Mutant: the writer goes on after a partial write.
writes_regardless == TRUE

may_write == ~writer.poisoned

\* An append that is reported as done has its newline in the file.  One that
\* fails leaves nothing, a part of the line, or the line without its newline,
\* and what is missing stays in the writer's buffer; the writer then refuses
\* every later append.  A record that is written but not synchronised is kept.
jsonl_append(run, id, val, durability) ==
  /\ writer.open /\ may_write /\ durability # "Ephemeral"
  /\ LET l == behind_tail(line(log.tok + 1, writer.next + 1, run, id, val)) IN
     \/ \E sync_fails \in IF durability = "SyncCritical" THEN BOOLEAN ELSE {FALSE} :
        /\ call_may_fail(sync_fails)
        /\ log' = [log EXCEPT !.lines = Append(@, l), !.tail = NoTail, !.stamp = @ + 1, !.tok = @ + 1,
                              !.synced = IF durability = "SyncCritical" /\ ~sync_fails THEN Len(log.lines) + 1 ELSE @,
                              !.acked = IF sync_fails THEN @ ELSE @ \cup {l.tok}]
        /\ writer' = [writer EXCEPT !.next = @ + 1]
     \/ /\ call_may_fail(TRUE)
        /\ \E tail \in {NoTail, <<"torn", l>>, <<"whole", l>>} :
             log' = [log EXCEPT !.tail = IF @ = NoTail THEN tail ELSE @, !.stamp = @ + 1, !.tok = @ + 1]
        /\ writer' = [writer EXCEPT !.next = @ + 1, !.poisoned = TRUE, !.rest = <<l>>]
  /\ UNCHANGED <<store_vars, export_vars, proc, reader>>

\* Dropping the writer flushes what its buffer still holds: the line a failed
\* append left behind may be completed after all.
jsonl_close ==
  /\ writer.open
  /\ writer' = ClosedWriter
  /\ log' \in {log} \cup {[log EXCEPT !.lines = @ \o writer.rest, !.tail = NoTail, !.stamp = @ + 1]}
  /\ UNCHANGED <<store_vars, export_vars, proc, reader, spent>>

---------------------------------------------------------------------------
(* The database.                                                            *)

row(run, kind, id, val, durability) ==
  [run |-> run, kind |-> kind, id |-> id, val |-> val, rev |-> 0, from |-> 0, sync |-> durability = "SyncCritical"]

\* Mutant: the next sequence is the largest one stored, plus one.
reuses_sequence(d) == Max({0} \cup DOMAIN d.rows) + 1

allocate_sqlite_sequence(d) == d.next + 1

insert(d, r) ==
  LET sequence == allocate_sqlite_sequence(d)
  IN [d EXCEPT !.next = sequence, !.rows = [q \in DOMAIN @ \cup {sequence} |-> IF q = sequence THEN r ELSE @[q]]]

\* Mutant: the connection stays in synchronous = NORMAL.
stays_normal(durability) == FALSE

set_sqlite_synchronous(durability) == durability = "SyncCritical"

commit(d, durability) ==
  /\ db' = d
  /\ unsynced' = IF d = db THEN unsynced ELSE IF set_sqlite_synchronous(durability) THEN {d} ELSE unsynced \cup {d}

ack(sequence, r) == acks' = acks \cup {[seq |-> sequence, row |-> r]}

idle(p) == proc[p].pc = "idle" /\ lock = NoOne

\* Opening migrates an older schema in one transaction: the imports of a
\* version 1 database keep their fingerprints as version 0 rows.  A newer
\* schema is refused.  Then the legacy file is imported once.
initialize_sqlite_schema(d) ==
  [d EXCEPT !.version = SqliteLedgerSchema, !.next = Max({d.next} \cup DOMAIN d.rows)]

open(p) ==
  /\ proc[p].pc = "closed" /\ lock = NoOne
  /\ db.version <= SqliteLedgerSchema
  /\ calls(1)
  /\ commit(initialize_sqlite_schema(db), "AsyncDurable")
  /\ proc' = [proc EXCEPT ![p] = [Idle EXCEPT !.pc = "resolve", !.once = TRUE]]
  /\ UNCHANGED <<lock, acks, deleted, covered, file_vars, export_vars, reader>>

append(p, run, durability) ==
  /\ idle(p) /\ durability # "Ephemeral" /\ calls(1)
  /\ LET r == row(run, "event", "none", "none", durability) IN
     /\ commit(insert(db, r), durability)
     /\ ack(allocate_sqlite_sequence(db), r)
  /\ UNCHANGED <<lock, proc, deleted, covered, file_vars, export_vars, reader>>

canonical_identity(r) == <<r.run, r.kind, r.id>>

mapped_record(d, r) == {d.rows[m[2]] : m \in {m \in d.logical : m[1] = canonical_identity(r) /\ m[2] \in DOMAIN d.rows}}

matching(d, r) == {q \in DOMAIN d.rows : canonical_identity(d.rows[q]) = canonical_identity(r)}

require_same_payload(r, kept) == r.val = kept.val

insert_mapping(d, r, sequence) == [d EXCEPT !.logical = @ \cup {<<canonical_identity(r), sequence>>}]

\* Mutant: the records imported before the identity table existed are not searched.
inserts_unbound(d, r) == {insert(d, r)}

\* Without a binding the records stored earlier are searched: one match is
\* bound, several are an error, none means that the record is new.
backfill_or_insert(d, r) ==
  CASE Cardinality(matching(d, r)) > 1 -> {}
    [] Cardinality(matching(d, r)) = 1 ->
         {insert_mapping(d, r, q) : q \in {q \in matching(d, r) : require_same_payload(r, d.rows[q])}}
    [] OTHER -> {insert_mapping(insert(d, r), r, allocate_sqlite_sequence(d))}

compared_and_appended(d, r) ==
  IF mapped_record(d, r) = {} THEN backfill_or_insert(d, r)
  ELSE IF \E kept \in mapped_record(d, r) : require_same_payload(r, kept) THEN {d} ELSE {}

bound_to(d, r) == {m[2] : m \in {m \in d.logical : m[1] = canonical_identity(r)}}

\* A commit that reports an error is looked up again: the call succeeds when
\* the record is there, whoever wrote it.
recover_committed(d, r) == \E kept \in mapped_record(d, r) : require_same_payload(r, kept)

compare_and_append(p, run, id, val, durability) ==
  /\ idle(p) /\ durability # "Ephemeral"
  /\ LET r == row(run, "task", id, val, durability) IN
     \E d \in compared_and_appended(db, r), failed \in {"no", "before", "after"} :
       /\ call_may_fail(failed # "no")
       /\ IF failed = "before" THEN UNCHANGED <<db, unsynced>> ELSE commit(d, durability)
       /\ IF failed = "before" \/ ~recover_committed(d, r) THEN UNCHANGED acks
          ELSE \E q \in bound_to(d, r) : ack(q, d.rows[q])
  /\ UNCHANGED <<lock, proc, deleted, covered, file_vars, export_vars, reader>>

plan_artifacts(d, run) == {q \in DOMAIN d.rows : d.rows[q].run = run /\ d.rows[q].kind = "plan"}

matching_plan_artifact(d, run, msg, val) ==
  {q \in plan_artifacts(d, run) : d.rows[q].id = msg /\ d.rows[q].val = val}

next_plan_revision(d, run) == 1 + Max({0} \cup {d.rows[q].rev : q \in plan_artifacts(d, run)})

\* The same plan of the same message is found again; another one becomes the
\* next revision of its Run, read and written in one transaction.
record_plan_artifact(p, run, msg, val) ==
  /\ idle(p) /\ calls(1)
  /\ LET r == [row(run, "plan", msg, val, "SyncCritical") EXCEPT !.rev = next_plan_revision(db, run)]
         same == matching_plan_artifact(db, run, msg, val)
     IN IF same = {} THEN commit(insert(db, r), "SyncCritical") /\ ack(allocate_sqlite_sequence(db), r)
        ELSE UNCHANGED <<db, unsynced, acks>>
  /\ UNCHANGED <<lock, proc, deleted, covered, file_vars, export_vars, reader>>

imports_after_delete(d, kept) == d.imports

\* Deleting a Run takes its rows and, by the foreign key, their logical
\* bindings; the sequence counter and the import fingerprints stay.
without_run(d, run) ==
  LET kept == {q \in DOMAIN d.rows : d.rows[q].run # run}
  IN [d EXCEPT !.rows = [q \in kept |-> @[q]],
               !.logical = {m \in @ : m[2] \in kept},
               !.imports = imports_after_delete(d, kept)]

delete_run_exact(p, run) ==
  /\ idle(p) /\ calls(1)
  /\ commit(without_run(db, run), "SyncCritical")
  /\ deleted' = deleted \cup {db.rows[q].from : q \in {q \in DOMAIN db.rows : db.rows[q].run = run}}
  /\ acks' = {a \in acks : a.row.run # run}
  /\ reader' = [reader EXCEPT !.seen = @ \cap {q \in DOMAIN db.rows : db.rows[q].run # run}]
  /\ UNCHANGED <<lock, proc, covered, file_vars, export_vars>>

---------------------------------------------------------------------------
(* Importing the JSONL file.                                                *)

fail_import(p) == proc' = [proc EXCEPT ![p] = IF @.once THEN Closed ELSE Idle]

import_jsonl(p) ==
  /\ idle(p) /\ calls(1)
  /\ proc' = [proc EXCEPT ![p] = [Idle EXCEPT !.pc = "resolve"]]
  /\ UNCHANGED <<store_vars, file_vars, export_vars, reader>>

skips_source(p) == proc[p].once /\ db.source

\* The automatic import leaves a source alone that was imported before.  The
\* opened file and its metadata are kept for the comparison at the end.
open_jsonl_source(p) ==
  /\ proc[p].pc = "resolve"
  /\ proc' = [proc EXCEPT ![p] = IF skips_source(p) THEN Idle ELSE [@ EXCEPT !.pc = "opened", !.stamp = log.stamp]]
  /\ UNCHANGED <<store_vars, file_vars, export_vars, reader, spent>>

imported_sequence(d, fingerprint) == {m[2] : m \in {m \in d.imports : m[1] = fingerprint}}

raw_line_offset_fingerprint(offset, l) == <<2, offset, l.tok>>
legacy_raw_line_fingerprint(l) == <<1, 0, l.tok>>
legacy_record_fingerprint(l) == <<0, 0, l.tok>>

\* Mutant: the fingerprints of earlier builds are not consulted.
only_current_fingerprint(d, offset, l) == imported_sequence(d, raw_line_offset_fingerprint(offset, l))

already_imported(d, offset, l) ==
  UNION {imported_sequence(d, f) : f \in {raw_line_offset_fingerprint(offset, l), legacy_raw_line_fingerprint(l),
                                          legacy_record_fingerprint(l)}}

record_import_fingerprint(d, offset, l, sequence) ==
  [d EXCEPT !.imports = @ \cup {<<raw_line_offset_fingerprint(offset, l), sequence>>}]

import_complete_jsonl_line(d, offset, l) ==
  IF already_imported(d, offset, l) # {}
  THEN record_import_fingerprint(d, offset, l, Min(already_imported(d, offset, l)))
  ELSE LET e == insert(d, [row(l.run, "task", l.id, l.val, "SyncCritical") EXCEPT !.from = l.tok])
       IN record_import_fingerprint(e, offset, l, e.next)

\* The lines an import reads: the terminated ones, and a final record that
\* only lacks its newline; a torn tail is tolerated.
readable_lines == log.lines \o (IF log.tail # NoTail /\ log.tail[1] = "whole" THEN <<log.tail[2]>> ELSE <<>>)

import_lines(d, lines) ==
  FoldLeft(LAMBDA e, offset : import_complete_jsonl_line(e, offset, lines[offset]), d, [i \in DOMAIN lines |-> i])

\* The transaction is open from the first line to the end: nobody else writes.
import_jsonl_reader(p) ==
  /\ proc[p].pc = "opened" /\ lock = NoOne
  /\ IF skips_source(p) THEN proc' = [proc EXCEPT ![p] = Idle] /\ UNCHANGED lock
     ELSE IF \E i \in DOMAIN log.lines : ~log.lines[i].good THEN fail_import(p) /\ UNCHANGED lock
     ELSE /\ lock' = p
          /\ proc' = [proc EXCEPT ![p] = [@ EXCEPT !.pc = "importing",
                        !.draft = {[import_lines(db, readable_lines) EXCEPT !.source = TRUE]}]]
  /\ UNCHANGED <<db, unsynced, acks, deleted, covered, file_vars, export_vars, reader, spent>>

\* Mutant: the file is not looked at again before the commit.
trusts_source(p) == TRUE

revalidate_jsonl_source(p) == log.stamp = proc[p].stamp

import_commit(p) ==
  /\ proc[p].pc = "importing"
  /\ lock' = NoOne
  /\ IF revalidate_jsonl_source(p)
     THEN /\ \E d \in proc[p].draft : commit(d, "SyncCritical")
          /\ covered' = covered \cup {readable_lines[i].tok : i \in DOMAIN readable_lines}
          /\ proc' = [proc EXCEPT ![p] = Idle]
     ELSE fail_import(p) /\ UNCHANGED <<db, unsynced, covered>>
  /\ UNCHANGED <<acks, deleted, file_vars, export_vars, reader, spent>>

---------------------------------------------------------------------------
(* Exporting the database: to a path of its own, or by mistake to the       *)
(* database itself, named directly or through a hard link.                  *)

retain_protected_export_path == {"ledger"}
same_object(name) == IF name = "link" THEN "ledger" ELSE name

\* Mutant: the path is compared with the protected paths, the file is not.
inspects_nothing(name) == TRUE

inspect_export_target(name) ==
  name \notin retain_protected_export_path /\ same_object(name) \notin retain_protected_export_path

create_export_temporary_file(p) == temps' = temps \cup {p}

open_export(p, name) ==
  /\ idle(p) /\ calls(1)
  /\ inspect_export_target(name)
  /\ create_export_temporary_file(p)
  /\ proc' = [proc EXCEPT ![p] = [Idle EXCEPT !.pc = "export", !.object = target.object, !.name = name]]
  /\ UNCHANGED <<store_vars, file_vars, target, litter, reader>>

\* The records are read in one snapshot, written, flushed and synchronised.
write_records_to_temporary(p) ==
  /\ proc[p].pc = "export"
  /\ \E whole \in BOOLEAN :
       /\ faults(IF whole THEN 0 ELSE 1)
       /\ proc' = [proc EXCEPT ![p] = [@ EXCEPT !.pc = "written", !.whole = whole]]
  /\ UNCHANGED <<store_vars, file_vars, export_vars, reader>>

optional_identity_matches(p) == target.object = proc[p].object

may_replace(p) == proc[p].whole /\ optional_identity_matches(p)

\* The temporary becomes the target when it is whole and the target is the
\* file that was there at the start; otherwise it is removed.
replace_file_atomically(p) ==
  /\ proc[p].pc = "written"
  /\ target' = IF may_replace(p) THEN [object |-> target.object + 1, whole |-> proc[p].whole, over |-> proc[p].name] ELSE target
  /\ temps' = temps \ {p}
  /\ proc' = [proc EXCEPT ![p] = Idle]
  /\ UNCHANGED <<store_vars, file_vars, litter, reader, spent>>

\* Another program puts its own file where the export will go.
foreign_target ==
  /\ \E p \in Procs : proc[p].pc \in {"export", "written"}
  /\ faults(1)
  /\ target' = [target EXCEPT !.object = @ + 1, !.whole = TRUE]
  /\ UNCHANGED <<store_vars, file_vars, temps, litter, proc, reader>>

---------------------------------------------------------------------------
(* Reading the journal of a Run tree page by page.                          *)

in_tree(d) == {q \in DOMAIN d.rows : d.rows[q].run \in Tree}

records_after_tree(d, after, limit) ==
  LET later == {q \in in_tree(d) : q > after}
  IN {q \in later : Cardinality({r \in later : r <= q}) <= limit}

last_sequence_tree(d) == Max({0} \cup in_tree(d))

\* Mutant: the cursor of the next page is the end of the journal.
cursor_at_end(page, after) == last_sequence_tree(db)

page_cursor(page, after) == Max({after} \cup page)

build_runtime_journal_event ==
  /\ \E p \in Procs : proc[p].pc = "idle"
  /\ LET page == records_after_tree(db, reader.cursor, PageSize) IN
     /\ page # {}
     /\ reader' = [cursor |-> page_cursor(page, reader.cursor), seen |-> reader.seen \cup page]
  /\ UNCHANGED <<store_vars, file_vars, export_vars, proc, spent>>

---------------------------------------------------------------------------
(* Faults.                                                                  *)

\* A killed process rolls its transaction back and leaves its temporary behind.
crash(p) ==
  /\ proc[p].pc # "closed" /\ faults(1)
  /\ proc' = [proc EXCEPT ![p] = Closed]
  /\ lock' = IF lock = p THEN NoOne ELSE lock
  /\ temps' = temps \ {p} /\ litter' = litter \cup (temps \cap {p})
  /\ UNCHANGED <<db, unsynced, acks, deleted, covered, target, file_vars, reader>>

\* A killed legacy writer loses its buffer.
legacy_crash ==
  /\ writer.open /\ faults(1)
  /\ writer' = ClosedWriter
  /\ UNCHANGED <<store_vars, log, export_vars, proc, reader>>

\* A power failure stops everyone; what was not synchronised may be gone.
power_failure ==
  /\ faults(1)
  /\ \E d \in unsynced :
       /\ db' = d /\ unsynced' = {d}
       /\ acks' = {a \in acks : a.row.sync \/ (a.seq \in DOMAIN d.rows /\ d.rows[a.seq] = a.row)}
  /\ \E n \in log.synced..Len(log.lines) :
       log' = [log EXCEPT !.lines = SubSeq(@, 1, n), !.synced = n, !.stamp = @ + 1,
                 !.acked = @ \ {log.lines[i].tok : i \in (log.synced + 1)..Len(log.lines)},
                 !.tail = IF n < Len(log.lines) THEN <<"torn", log.lines[n + 1]>> ELSE @]
  /\ writer' = ClosedWriter /\ lock' = NoOne
  /\ proc' = [p \in Procs |-> Closed]
  /\ temps' = {} /\ litter' = litter \cup temps
  /\ reader' = [cursor |-> 0, seen |-> {}]
  /\ UNCHANGED <<deleted, covered, target>>

Next ==
  \/ jsonl_open \/ jsonl_close \/ build_runtime_journal_event \/ foreign_target \/ legacy_crash \/ power_failure
  \/ \E run \in Runs, id \in Ids, val \in Vals, durability \in Durabilities :
       \/ jsonl_append(run, id, val, durability)
       \/ \E p \in Procs : compare_and_append(p, run, id, val, durability)
  \/ \E p \in Procs :
       \/ open(p) \/ import_jsonl(p) \/ open_jsonl_source(p) \/ import_jsonl_reader(p) \/ import_commit(p)
       \/ (\E name \in {"out", "ledger", "link"} : open_export(p, name)) \/ write_records_to_temporary(p) \/ replace_file_atomically(p) \/ crash(p)
       \/ \E run \in Runs :
            \/ \E durability \in Durabilities : append(p, run, durability)
            \/ delete_run_exact(p, run)
            \/ \E msg \in Ids, val \in Vals : record_plan_artifact(p, run, msg, val)

Spec == Init /\ [][Next]_vars

---------------------------------------------------------------------------
(* Properties.                                                              *)

\* The variables have their types, and only the holder of the lock is inside
\* a transaction that takes several steps.
TypeOK ==
  /\ db.next \in Nat /\ DOMAIN db.rows \subseteq 1..db.next
  /\ db \in unsynced
  /\ lock \in Procs \cup {NoOne} /\ \A p \in Procs : (lock = p) = (proc[p].pc = "importing")
  /\ temps \subseteq Procs /\ litter \subseteq Procs
  /\ writer.poisoned => writer.open

\* A record whose append returned, in SQLite or JSONL, is where it was
\* reported to be until its Run is deleted; after a power failure this still
\* holds for the records appended as SyncCritical.
AcknowledgedKept ==
  /\ \A a \in acks : a.seq \in DOMAIN db.rows /\ db.rows[a.seq] = a.row
  /\ log.acked \subseteq {log.lines[i].tok : i \in DOMAIN log.lines}

\* Every terminated line of the JSONL file can be decoded and the sequences
\* grow, whatever partial writes, late flushes and crashes came before: a file
\* that cannot be read keeps every later process from starting.
JsonlReadable ==
  \A i \in DOMAIN log.lines :
    log.lines[i].good /\ \A j \in 1..(i - 1) : log.lines[j].seq < log.lines[i].seq

\* A line that was in the file when an import completed is in the database exactly once,
\* or was there and has been deleted with its Run: neither a second process,
\* an explicit import, an import by an earlier build, a change of the file
\* during the import nor a crash loses a line, repeats it or brings it back.
ImportedExactlyOnce ==
  /\ \A tok \in covered :
       Cardinality({q \in DOMAIN db.rows : db.rows[q].from = tok}) + (IF tok \in deleted THEN 1 ELSE 0) = 1
  /\ db.source => \A q, r \in DOMAIN db.rows : db.rows[q].from = db.rows[r].from /\ db.rows[q].from > 0 => q = r

\* A logical identity is bound to one stored record that carries it, a record
\* that compare_and_append wrote is the only one with its identity at that
\* time, and the plan revisions of a Run are distinct.
OneRecordPerIdentity ==
  /\ \A m, n \in db.logical :
       /\ m[2] \in DOMAIN db.rows /\ canonical_identity(db.rows[m[2]]) = m[1]
       /\ m[1] = n[1] => m = n
  /\ \A q, r \in DOMAIN db.rows :
       q < r /\ canonical_identity(db.rows[q]) = canonical_identity(db.rows[r]) /\ db.rows[q].kind = "task"
         => db.rows[r].from > 0
  /\ \A run \in Runs : \A q, r \in plan_artifacts(db, run) : db.rows[q].rev = db.rows[r].rev => q = r

\* A reader that follows the cursors of its pages has been given every record
\* of its Run tree up to the cursor: no record is committed behind it.
PagesComplete == \A q \in in_tree(db) : q <= reader.cursor => q \in reader.seen

\* The file an export replaces is always a whole one, it is never the
\* database, and no temporary outlives its export unless the process was
\* killed in the middle of it.
ExportWhole ==
  /\ target.whole /\ same_object(target.over) # "ledger"
  /\ temps \subseteq {p \in Procs : proc[p].pc \in {"export", "written"}}

\* The promises of the store together.
LedgerKept ==
  AcknowledgedKept /\ JsonlReadable /\ ImportedExactlyOnce /\ OneRecordPerIdentity /\ PagesComplete /\ ExportWhole
=============================================================================
