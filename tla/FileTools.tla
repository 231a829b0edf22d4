----------------------------- MODULE FileTools -----------------------------
(***************************************************************************)
(* The file tools an agent's model is given: Read, Grep, Glob, Write and   *)
(* Edit (crates/solaris-tools), with the two caches behind them and the    *)
(* compaction of the history that the caches speak about.                  *)
(*                                                                         *)
(*  - Every agent has a FileStateCache: for each path what the model was   *)
(*    last shown of it.  Edit is refused unless the cache says that the    *)
(*    model was shown the whole file as it is now.                         *)
(*  - The agents of a run share a ReadOnlyEvidenceIndex: results of Read,  *)
(*    Grep and Glob, each with the identity and the state of the objects   *)
(*    it was made from; a call whose objects are as recorded is answered   *)
(*    from the index.                                                      *)
(*  - Write and Edit replace a file by renaming a temporary over it after  *)
(*    checking, twice, that the target is still the one they saw.          *)
(*                                                                         *)
(* A name leads to an object (an inode); an open object keeps its identity *)
(* while names come and go, and its change marker moves with every change  *)
(* in place.  Another program changes, replaces and deletes files at any   *)
(* point.  The steps of a tool call are the file system calls it makes.    *)
(***************************************************************************)
EXTENDS Naturals, Sequences, FiniteSets
LOCAL INSTANCE SequencesExt
LOCAL INSTANCE FiniteSetsExt

CONSTANTS
    Agents,      \* agents of one run, each with a cache and a history of its own
    Scoped,      \* the agents whose calls carry an evidence scope
    Files,       \* paths
    Texts,       \* what a file can hold
    Numbered,    \* text -> the numbered lines Read shows of it (line ends are not shown)
    Reads,       \* the forms of Read: [range, force]
    Portion,      \* text -> the lines a Read with a limit shows of it
    Size,        \* shown text -> its size
    Shortened,   \* shown text -> what the history gets of it as a tool's result
    NoText,
    MaxEntries, MaxSize,   \* the limits of a FileStateCache
    MaxEvidence,           \* the entry limit of the evidence index
    MicroKeep,             \* compact.micro_keep_recent
    MaxCalls, MaxTrouble   \* tool calls and compactions; faults and changes by other programs

VARIABLES
    dir,         \* path -> the object it leads to, 0 if none
    obj,         \* the objects made so far: [text, ver]
    cache,       \* agent -> FileStateCache
    index,       \* the ReadOnlyEvidenceIndex
    history,     \* agent -> what its model can still see of its file calls
    call,        \* agent -> the tool call it is in
    temps,       \* agents with a temporary on disk
    forgotten,   \* agent -> entries its cache kept when a command dropped the history
    blind,       \* an Edit replaced a text its model did not know
    stranded,    \* agents whose temporary outlived the call because the re-inspection failed
    spent        \* [calls, trouble] used so far

vars == <<dir, obj, cache, index, history, call, temps, forgotten, blind, stranded, spent>>

\* What a Read of the range shows of a text.
View(range, text) == IF range = "full" THEN Numbered[text] ELSE Portion[text]

\* OpenedFileState of the object a path leads to now.
State(f) == <<dir[f], IF dir[f] = 0 THEN 0 ELSE obj[dir[f]].ver>>

Idle ==
    [pc |-> "idle", tool |-> "none", file |-> CHOOSE f \in Files : TRUE, range |-> "full",
     force |-> FALSE, id |-> 0, ver |-> 0, same |-> FALSE, text |-> NoText, new |-> NoText,
     left |-> {}, val |-> <<>>, shown |-> <<>>, tmp |-> 0]

Empty == [entries |-> <<>>, size |-> 0]

Spend(k) == spent' = [spent EXCEPT ![k] = @ + 1]

----------------------------------------------------------------------------
(* The two LRU caches, least recently used entry first. *)

Keys(c) == {c.entries[i].key : i \in DOMAIN c.entries}

Entry(c, key) == c.entries[CHOOSE i \in DOMAIN c.entries : c.entries[i].key = key]

Others(s, key) == SelectSeq(s, LAMBDA e : e.key # key)

SizeOf(s) == FoldLeft(LAMBDA n, e : n + e.size, 0, s)

remove(c, key) ==
    IF key \notin Keys(c) THEN c
    ELSE [entries |-> Others(c.entries, key), size |-> c.size - Entry(c, key).size]

\* LruCache::get moves the entry to the recently used end.
touch(c, key) ==
    IF key \notin Keys(c) THEN c
    ELSE [c EXCEPT !.entries = Append(Others(@, key), Entry(c, key))]

\* Mutant: a dropped entry keeps its share of the size.
drop_keeps_size(c, n) ==
    [entries |-> SubSeq(c.entries, n + 1, Len(c.entries)), size |-> c.size]

dropped(c, n) ==
    [entries |-> SubSeq(c.entries, n + 1, Len(c.entries)), size |-> c.size - SizeOf(SubSeq(c.entries, 1, n))]

evict_for(c, room) ==
    dropped(c, Min({n \in 0..Len(c.entries) : n = Len(c.entries) \/ dropped(c, n).size + room <= MaxSize}))

push_bounded(c, e, limit) ==
    LET d == IF Len(c.entries) >= limit THEN dropped(c, 1) ELSE c
    IN  [entries |-> Append(d.entries, e), size |-> d.size + e.size]

insert_entry(c, e, limit) ==
    LET without == remove(c, e.key)
    IN  IF e.size > MaxSize THEN without ELSE push_bounded(evict_for(without, e.size), e, limit)

insert_opened(a, f, range, id, shown) ==
    insert_entry(cache[a], [key |-> f, range |-> range, id |-> id, shown |-> shown, size |-> Size[shown]],
                 MaxEntries)

matches_opened(c, f, id, shown, range) ==
    IF f \notin Keys(c) THEN "none"
    ELSE IF Entry(c, f).range = range /\ Entry(c, f).id = id /\ Entry(c, f).shown = shown
         THEN "same" ELSE "differs"

\* ReadOnlyEvidenceIndex::lookup: the entry of the key, made from objects in the same state.
lookup_hits(key, val) == key \in Keys(index) /\ Entry(index, key).val = val

\* ReadOnlyEvidenceIndex::insert: a result too large is not kept, and leaves what was there.
insert_evidence(key, val, shown, size, raced) ==
    IF size > MaxSize THEN index
    ELSE insert_entry(index, [key |-> key, val |-> val, shown |-> shown, size |-> size, raced |-> raced],
                      MaxEvidence)

----------------------------------------------------------------------------
Init ==
    /\ dir \in [Files -> 0..Cardinality(Files)]
    /\ \A f, g \in Files : f # g /\ dir[f] # 0 => dir[f] # dir[g]
    /\ obj = [i \in 1..Cardinality(Files) |-> [text |-> CHOOSE t \in Texts : TRUE, ver |-> 0]]
    /\ cache = [a \in Agents |-> Empty]
    /\ index = Empty
    /\ history = [a \in Agents |-> <<>>]
    /\ call = [a \in Agents |-> Idle]
    /\ temps = {}
    /\ forgotten = [a \in Agents |-> {}]
    /\ blind = FALSE
    /\ stranded = {}
    /\ spent = [calls |-> 0, trouble |-> 0]

Begin(a, c) ==
    /\ call[a].pc = "idle"
    /\ spent.calls < MaxCalls
    /\ Spend("calls")
    /\ call' = [call EXCEPT ![a] = c]

Goto(a, pc) == call' = [call EXCEPT ![a].pc = pc]

Return(a) == call' = [call EXCEPT ![a] = Idle]

Fault ==
    /\ spent.trouble < MaxTrouble
    /\ Spend("trouble")

Shows(a, kind, f, range, shown) ==
    history' = [history EXCEPT ![a] =
        Append(@, [kind |-> kind, file |-> f, range |-> range, shown |-> shown, live |-> TRUE])]

\* A result beyond the tool's max_result_size loses its middle on the way to the history; the
\* caches have taken the whole of it by then.
truncate_result(shown) == Shortened[shown]

----------------------------------------------------------------------------
(* Read *)

ReadKey(f, range) == <<"Read", f, range>>

\* prepare_execution: a scoped call that does not force is answered from the index if it can be.
BeginRead(a, f, range, force) ==
    LET val == (f :> State(f))
        key == ReadKey(f, range)
        shared == a \in Scoped /\ ~force /\ dir[f] # 0
    IN  IF shared /\ lookup_hits(key, val)
        THEN /\ Begin(a, Idle)
             /\ Shows(a, "Read", f, range, truncate_result(Entry(index, key).shown))
             /\ index' = touch(index, key)
             /\ UNCHANGED <<dir, obj, cache, temps, forgotten, blind, stranded>>
        ELSE /\ Begin(a, [Idle EXCEPT !.pc = "open", !.tool = "Read", !.file = f, !.range = range,
                                      !.force = force])
             /\ index' = IF shared THEN touch(index, key) ELSE index
             /\ UNCHANGED <<dir, obj, cache, history, temps, forgotten, blind, stranded>>

OpenRead(a) ==
    LET f == call[a].file IN
    /\ call[a].pc = "open"
    /\ IF dir[f] = 0 THEN Return(a)
       ELSE call' = [call EXCEPT ![a].pc = "body", ![a].id = dir[f], ![a].ver = obj[dir[f]].ver]
    /\ UNCHANGED <<dir, obj, cache, index, history, temps, forgotten, blind, stranded, spent>>

ReadBody(a) ==
    /\ call[a].pc = "body"
    /\ call' = [call EXCEPT ![a].pc = "compare", ![a].text = obj[call[a].id].text]
    /\ UNCHANGED <<dir, obj, cache, index, history, temps, forgotten, blind, stranded, spent>>

\* Mutant: the state of the file is not compared.
always_same(a) == TRUE

state_unchanged(a) == obj[call[a].id].ver = call[a].ver

CompareState(a) ==
    /\ call[a].pc = "compare"
    /\ call' = [call EXCEPT ![a].pc = "answer", ![a].same = state_unchanged(a), ![a].ver = obj[call[a].id].ver]
    /\ UNCHANGED <<dir, obj, cache, index, history, temps, forgotten, blind, stranded, spent>>

\* The stub "File unchanged since last read" is given only to calls without an evidence scope.
AnswerRead(a) ==
    LET c == call[a]
        shown == View(c.range, c.text)
        known == matches_opened(cache[a], c.file, c.id, shown, c.range)
        val == (c.file :> <<c.id, obj[c.id].ver>>)
    IN  /\ c.pc = "answer"
        /\ Return(a)
        /\ IF a \notin Scoped /\ ~c.force /\ known = "same"
           THEN /\ cache' = [cache EXCEPT ![a] = touch(@, c.file)]
                /\ UNCHANGED <<history, index>>
           ELSE /\ cache' = [cache EXCEPT ![a] = insert_opened(a, c.file, c.range, c.id, shown)]
                /\ Shows(a, "Read", c.file, c.range, truncate_result(shown))
                /\ index' = IF a \in Scoped /\ ~c.force /\ c.same
                            THEN insert_evidence(ReadKey(c.file, c.range), val, shown, Size[shown],
                                                 obj[c.id].ver # c.ver)
                            ELSE index
        /\ UNCHANGED <<dir, obj, temps, forgotten, blind, stranded, spent>>

----------------------------------------------------------------------------
(* Grep and Glob over the workspace *)

Present == {f \in Files : dir[f] # 0}

Validation(S) == [f \in S |-> State(f)]

BeginGrep(a) ==
    LET val == Validation(Present) IN
    /\ a \in Scoped
    /\ IF lookup_hits(<<"Grep">>, val)
       THEN Begin(a, Idle)
       ELSE Begin(a, [Idle EXCEPT !.pc = "scan", !.tool = "Grep", !.left = Present, !.val = val,
                                  !.same = TRUE, !.shown = <<>>])
    /\ index' = touch(index, <<"Grep">>)
    /\ UNCHANGED <<dir, obj, cache, history, temps, forgotten, blind, stranded>>

\* One file of the search: a file that went or was replaced makes the result unfit to keep.
ScanFile(a) ==
    LET f == CHOOSE x \in call[a].left : TRUE IN
    /\ call[a].pc = "scan" /\ call[a].left # {}
    /\ call' = [call EXCEPT ![a].left = @ \ {f},
                            ![a].same = @ /\ dir[f] = call[a].val[f][1],
                            ![a].shown = IF dir[f] = 0 THEN @ ELSE @ @@ (f :> Numbered[obj[dir[f]].text])]
    /\ UNCHANGED <<dir, obj, cache, index, history, temps, forgotten, blind, stranded, spent>>

post_validation_equal(c) == c.same /\ \A f \in DOMAIN c.val : obj[c.val[f][1]].ver = c.val[f][2]

FinishGrep(a) ==
    LET c == call[a] IN
    /\ c.pc = "scan" /\ c.left = {}
    /\ Return(a)
    /\ index' = IF post_validation_equal(c) THEN insert_evidence(<<"Grep">>, c.val, c.shown, 1, FALSE) ELSE index
    /\ UNCHANGED <<dir, obj, cache, history, temps, forgotten, blind, stranded, spent>>

Glob(a) ==
    LET val == Validation(Present) IN
    /\ a \in Scoped
    /\ Begin(a, Idle)
    /\ index' = IF lookup_hits(<<"Glob">>, val) THEN touch(index, <<"Glob">>)
                ELSE insert_evidence(<<"Glob">>, val, Present, 1, FALSE)
    /\ UNCHANGED <<dir, obj, cache, history, temps, forgotten, blind, stranded>>

----------------------------------------------------------------------------
(* Write and Edit *)

BeginWrite(a, f, new) ==
    /\ Begin(a, [Idle EXCEPT !.pc = "inspect", !.tool = "Write", !.file = f, !.new = new])
    /\ UNCHANGED <<dir, obj, cache, index, history, temps, forgotten, blind, stranded>>

\* read_snapshot_limited: the object and its whole content.
BeginEdit(a, f, new) ==
    /\ dir[f] # 0
    /\ new # obj[dir[f]].text
    /\ Begin(a, [Idle EXCEPT !.pc = "verify", !.tool = "Edit", !.file = f, !.new = new, !.id = dir[f],
                             !.text = obj[dir[f]].text])
    /\ UNCHANGED <<dir, obj, cache, index, history, temps, forgotten, blind, stranded>>

VerifyEdit(a) ==
    LET c == call[a]
        known == matches_opened(cache[a], c.file, c.id, Numbered[c.text], "full")
    IN  /\ c.pc = "verify"
        /\ cache' = [cache EXCEPT ![a] = touch(@, c.file)]
        /\ IF known = "same" THEN Goto(a, "inspect") ELSE Return(a)
        /\ UNCHANGED <<dir, obj, index, history, temps, forgotten, blind, stranded, spent>>

\* Whether the target is the one the call expects: Edit expects the object and the content it
\* verified, Write has no expectation (identity_matches, opened_target_matches_content).
target_expected(c) ==
    c.tool = "Edit" => dir[c.file] = c.id /\ obj[c.id].text = c.text

InspectTarget(a) ==
    /\ call[a].pc = "inspect"
    /\ IF target_expected(call[a])
       THEN call' = [call EXCEPT ![a].pc = "stage", ![a].id = dir[call[a].file]]
       ELSE Return(a)
    /\ UNCHANGED <<dir, obj, cache, index, history, temps, forgotten, blind, stranded, spent>>

Stage(a) ==
    /\ call[a].pc = "stage"
    /\ \/ /\ call' = [call EXCEPT ![a].pc = "recheck", ![a].tmp = Len(obj) + 1]
          /\ obj' = Append(obj, [text |-> call[a].new, ver |-> 0])
          /\ temps' = temps \cup {a}
          /\ UNCHANGED spent
       \/ Return(a) /\ Fault /\ UNCHANGED <<obj, temps>>
    /\ UNCHANGED <<dir, cache, index, history, forgotten, blind, stranded>>

\* Mutant: only the identity of the file is compared.
same_identity(c) == dir[c.file] = c.id

still_expected(c) == dir[c.file] = c.id /\ target_expected(c)

\* The re-inspection: a changed target removes the temporary, an error of the inspection itself
\* leaves it behind.
Recheck(a) ==
    /\ call[a].pc = "recheck"
    /\ \/ /\ IF still_expected(call[a])
             THEN /\ call' = [call EXCEPT ![a].pc = "rename",
                                          ![a].ver = IF call[a].id = 0 THEN 0 ELSE obj[call[a].id].ver]
                  /\ UNCHANGED temps
             ELSE Return(a) /\ temps' = temps \ {a}
          /\ UNCHANGED <<stranded, spent>>
       \/ Return(a) /\ Fault /\ stranded' = stranded \cup {a} /\ UNCHANGED temps
    /\ UNCHANGED <<dir, obj, cache, index, history, forgotten, blind>>

Seen(a) == {<<history[a][i].file, history[a][i].range, history[a][i].shown>> : i \in DOMAIN history[a]}

\* The history held the text, or, of a long one, what the result of a Read shows of it.
Known(a, f, range, shown) ==
    \E s \in {shown, truncate_result(shown)} : <<f, range, s>> \in Seen(a) \cup forgotten[a]

\* The target changed between the last check and the rename.
late(c) == State(c.file) # <<c.id, c.ver>>

Rename(a) ==
    LET c == call[a] IN
    /\ c.pc = "rename"
    /\ temps' = temps \ {a}
    /\ \/ /\ dir' = [dir EXCEPT ![c.file] = c.tmp]
          /\ Goto(a, "record")
          /\ blind' = (blind \/ ( /\ c.tool = "Edit" /\ ~late(c)
                                  /\ \/ obj[dir[c.file]].text # c.text
                                     \/ ~Known(a, c.file, "full", Numbered[c.text])))
          /\ UNCHANGED spent
       \/ Return(a) /\ Fault /\ UNCHANGED <<dir, blind>>
    /\ UNCHANGED <<obj, cache, index, history, forgotten, stranded>>

\* The cache entry is bound to whatever object the path leads to after the rename.
RecordWrite(a) ==
    LET c == call[a] IN
    /\ c.pc = "record"
    /\ Return(a)
    /\ Shows(a, c.tool, c.file, "full", Numbered[c.new])
    /\ cache' = [cache EXCEPT ![a] =
                    IF dir[c.file] = 0 THEN remove(@, c.file)
                    ELSE insert_opened(a, c.file, "full", dir[c.file], Numbered[c.new])]
    /\ UNCHANGED <<dir, obj, index, temps, forgotten, blind, stranded, spent>>

----------------------------------------------------------------------------
(* Other programs *)

Editor ==
    /\ spent.trouble < MaxTrouble
    /\ Spend("trouble")
    /\ UNCHANGED <<cache, index, history, call, temps, forgotten, blind, stranded>>

ChangeInPlace(f, t) ==
    /\ dir[f] # 0 /\ t # obj[dir[f]].text
    /\ obj' = [obj EXCEPT ![dir[f]] = [text |-> t, ver |-> @.ver + 1]]
    /\ UNCHANGED dir
    /\ Editor

ReplaceFile(f, t) ==
    /\ obj' = Append(obj, [text |-> t, ver |-> 0])
    /\ dir' = [dir EXCEPT ![f] = Len(obj) + 1]
    /\ Editor

DeleteFile(f) ==
    /\ dir[f] # 0
    /\ dir' = [dir EXCEPT ![f] = 0]
    /\ UNCHANGED obj
    /\ Editor

----------------------------------------------------------------------------
(* Compaction of an agent's history, between its tool calls *)

Compacts(a) == call[a].pc = "idle" /\ spent.calls < MaxCalls /\ Spend("calls")

Live(a) == {i \in DOMAIN history[a] : history[a][i].live}

\* collect_compactable_locations, all but the most recent.
to_clear(a) == {i \in Live(a) : Cardinality({j \in Live(a) : j > i}) >= MicroKeep}

\* Mutant: a cleared result stays known as shown.
forget_nothing(c, read) == c

on_result_compacted(c, read) ==
    FoldSet(LAMBDA f, d : remove(d, f), c, read)

\* The results are replaced by a placeholder.  A cleared Read takes what it showed, and what was
\* known of the file by editing that; the text of a Write stays in the call's input.
Microcompact(a) ==
    LET gone == to_clear(a)
        read == {history[a][i].file : i \in {j \in gone : history[a][j].kind = "Read"}}
        Kept(e) == ~( \/ \E i \in gone : history[a][i] = e /\ e.kind = "Read"
                      \/ e.kind = "Edit" /\ e.file \in read)
    IN  /\ Compacts(a) /\ gone # {}
        /\ history' = [history EXCEPT ![a] =
               SelectSeq([i \in DOMAIN @ |-> IF i \in gone /\ @[i].kind # "Read"
                                             THEN [@[i] EXCEPT !.live = FALSE] ELSE @[i]], Kept)]
        /\ cache' = [cache EXCEPT ![a] = on_result_compacted(@, read)]
        /\ UNCHANGED <<dir, obj, index, call, temps, forgotten, blind, stranded>>

Autocompact(a) ==
    /\ Compacts(a) /\ history[a] # <<>>
    /\ history' = [history EXCEPT ![a] = <<>>]
    /\ cache' = [cache EXCEPT ![a] = Empty]
    /\ UNCHANGED <<dir, obj, index, call, temps, forgotten, blind, stranded>>

\* The commands /clear and /compact drop the history and leave the tools as they are.
ClearCommand(a) ==
    /\ Compacts(a) /\ history[a] # <<>>
    /\ history' = [history EXCEPT ![a] = <<>>]
    /\ forgotten' = [forgotten EXCEPT ![a] = @ \cup {<<e.key, e.range, e.shown>> : e \in ToSet(cache[a].entries)}]
    /\ UNCHANGED <<dir, obj, cache, index, call, temps, blind, stranded>>

----------------------------------------------------------------------------
Next ==
    \/ \E a \in Agents :
          \/ \E f \in Files, r \in Reads : BeginRead(a, f, r.range, r.force)
          \/ \E f \in Files, t \in Texts : BeginWrite(a, f, t) \/ BeginEdit(a, f, t)
          \/ OpenRead(a) \/ ReadBody(a) \/ CompareState(a) \/ AnswerRead(a)
          \/ BeginGrep(a) \/ ScanFile(a) \/ FinishGrep(a) \/ Glob(a)
          \/ VerifyEdit(a) \/ InspectTarget(a) \/ Stage(a) \/ Recheck(a) \/ Rename(a) \/ RecordWrite(a)
          \/ Microcompact(a) \/ Autocompact(a) \/ ClearCommand(a)
    \/ \E f \in Files : DeleteFile(f) \/ \E t \in Texts : ChangeInPlace(f, t) \/ ReplaceFile(f, t)

Spec == Init /\ [][Next]_vars

----------------------------------------------------------------------------
CallStates == {"idle", "open", "body", "compare", "answer", "scan", "verify", "inspect", "stage",
               "recheck", "rename", "record"}

\* Every name leads to an object that was made, and no two names to the same one.
TypeOK ==
    /\ \A f \in Files : dir[f] \in 0..Len(obj)
    /\ \A i \in DOMAIN obj : obj[i].text \in Texts /\ obj[i].ver \in Nat
    /\ \A a \in Agents : call[a].pc \in CallStates /\ Keys(cache[a]) \subseteq Files
    /\ temps \subseteq Agents /\ stranded \subseteq Agents /\ blind \in BOOLEAN

\* What the cache says an agent was shown is in the agent's history, unless a command dropped the
\* history (file_cache.rs, read.rs on_result_compacted and on_history_compacted): the guard of
\* Edit and the "unchanged" stub both rest on it.  Of a result that was too long the history has
\* what truncate_result left, while the cache says that all of it was shown.
CacheIsInHistory ==
    \A a \in Agents : \A e \in ToSet(cache[a].entries) : Known(a, e.key, e.range, e.shown)

\* The sizes the caches account for are the sizes of what they hold, and they stay within their
\* limits through every replacement and eviction (file_cache.rs insert_entry).
CachesWithinLimits ==
    /\ \A a \in Agents : /\ cache[a].size = SizeOf(cache[a].entries) /\ cache[a].size <= MaxSize
                         /\ Len(cache[a].entries) <= MaxEntries
    /\ index.size = SizeOf(index.entries) /\ index.size <= MaxSize /\ Len(index.entries) <= MaxEvidence

\* An entry of the evidence index whose objects are as recorded holds what the tool would answer
\* now, whoever made it and whatever was changed while it was made, unless the object changed
\* between the comparison of its states and the capture of the state that is kept
\* (read.rs:200-202, grep.rs:432-442).
EvidenceIsCurrent ==
    \A i \in DOMAIN index.entries : LET e == index.entries[i] IN
        /\ ~e.raced
        /\ e.key[1] = "Read" \/ DOMAIN e.val = Present
        /\ \A f \in DOMAIN e.val : dir[f] = e.val[f][1] /\ dir[f] # 0 /\ obj[dir[f]].ver = e.val[f][2]
        => CASE e.key[1] = "Read" -> e.shown = View(e.key[3], obj[dir[e.key[2]]].text)
             [] e.key[1] = "Grep" -> e.shown = [f \in DOMAIN e.val |-> Numbered[obj[dir[f]].text]]
             [] OTHER -> e.shown = DOMAIN e.val

\* An Edit replaces exactly the text it verified, and one its model has read or written: in full,
\* or, if it is too long for a result, without its middle.  Changes made by another agent or
\* program at any point up to the last check make it fail (write.rs write_atomic_if_unchanged,
\* edit.rs execute).
EditsAreSighted == ~blind

\* No call ends without trying to remove its temporary, except one whose re-inspection of the
\* target failed (write.rs:392); that the removal itself may fail is left out.
TemporariesRemoved == \A a \in temps : call[a].pc \in {"recheck", "rename"} \/ a \in stranded

\* What the file tools promise together.
FilesTruthful ==
    CacheIsInHistory /\ CachesWithinLimits /\ EvidenceIsCurrent /\ EditsAreSighted /\ TemporariesRemoved
=============================================================================
