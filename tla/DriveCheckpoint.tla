--------------------------- MODULE DriveCheckpoint ---------------------------
(***************************************************************************)
(* The all-files synchronisation of Drive and NAS, one case at a time       *)
(* (magi_v3/drive_file_checkpoint.py, api/osc/drive_case_sync.py,           *)
(* scripts/drive_case_sync_worker.py).                                      *)
(*                                                                         *)
(* The worker opens the checkpoint of the case under the cursor, plans which *)
(* files one side lacks, moves them, and passes the cursor on once the      *)
(* checkpoint holds a proof for every planned file.  The checkpoint is a    *)
(* file replaced as a whole plus a journal of the changes since then; the   *)
(* worker may be killed or time out anywhere, and people edit both sides    *)
(* while it runs.                                                           *)
(*                                                                         *)
(* The content of a file is the sequence of its chunks, a chunk being the   *)
(* version of the source it was read from; a hash of something is that      *)
(* thing.  A token names a file and the version of its source.  Only the    *)
(* distance between sequence numbers matters, so they are renumbered when   *)
(* the journal is empty (see Settled).                                      *)
(***************************************************************************)
EXTENDS Naturals, FiniteSets, Sequences

CONSTANTS
    Cases,          \* case numbers
    FirstListed,    \* the cases the database lists at first
    Files, CaseOf,  \* the files of all cases and the case of each
    Size,           \* chunks of each file
    Uploads,        \* files whose source is the NAS; the others come from Drive
    Checked,        \* files Drive keeps a checksum of (not the exported ones)
    Unmapped,       \* files the naming rules refuse to copy to the other side
    Large,          \* tokens beyond the size limit for a single file
    Colliding,      \* cases with names nobody can tell apart
    MaxVersion,     \* bound: versions of a source
    Edited,         \* bound: files people change
    MaxEdits,       \* bound: changes made by people
    MaxFaults       \* bound: kills, timeouts, failures and cases left out

ASSUME DriveAssumption ==
    /\ Cases \subseteq Nat /\ Cases # {} /\ IsFiniteSet(Cases)
    /\ FirstListed \subseteq Cases /\ Colliding \subseteq Cases
    /\ CaseOf \in [Files -> Cases] /\ Size \in [Files -> Nat \ {0}]
    /\ Uploads \subseteq Checked /\ Checked \subseteq Files
    /\ Unmapped \subseteq Files /\ Edited \subseteq Files
    /\ MaxVersion \in Nat /\ MaxEdits \in Nat /\ MaxFaults \in Nat

Tokens == Files \X (0 .. MaxVersion)
FileOf(t) == t[1]
Whole(t) == [i \in 1 .. Size[FileOf(t)] |-> t[2]]
Nothing == <<>>
Foreign == <<MaxVersion + 1>>   \* a file people put at a destination
NoRows == [t \in Tokens |-> Nothing]
NoItem == [token |-> <<>>, row |-> Nothing]
None == [case |-> "none"]       \* no checkpoint
Broken == [case |-> "broken"]   \* one that cannot be loaded
Torn == [op |-> "torn"]         \* an incomplete line of the journal

VARIABLES
    src, dest,      \* version of each source; content at its destination
    tmp,            \* partial downloads beside the destination, by token
    listed,         \* cases the database lists
    cursor,         \* durable: offset into the listed cases
    disk,           \* durable: the checkpoint file
    journal,        \* durable: changes since the file was written
    pc,             \* where the worker is; "idle": no worker
    mem,            \* the worker's copy of the checkpoint
    dirty,          \* the file is replaced, the journal not yet emptied
    next,           \* cursor to be committed, worked out when the run began
    todo,           \* planned tokens not dealt with yet
    current,        \* item in hand: its token, and its proof once it is there
    failed,         \* the run has something that counts as a failure
    collides,       \* the scan met names nobody can tell apart
    blame,          \* history: faults that may leave a checkpoint unreadable
    excused,        \* history: files this run does not answer for any more
    edits, faults

store == <<disk, journal, dirty, mem>>
plan == <<next, todo, current, failed, collides>>
sides == <<src, dest, listed, excused, edits>>
vars == <<sides, tmp, cursor, store, pc, plan, blame, faults>>

(***************************************************************************)
(* The checkpoint                                                           *)
(***************************************************************************)

Fresh(c) == [case |-> c, seq |-> 1, snap |-> {}, done |-> NoRows,
             part |-> NoRows, complete |-> FALSE, deferred |-> FALSE]

Completed(m) == {t \in Tokens : m.done[t] # Nothing}

\* Mutant: as many proofs as files.
ProvenByCount(m) == Cardinality(m.snap) <= Cardinality(Completed(m))

Proven(m) == m.snap \subseteq Completed(m)

\* The case of a checkpoint needs no more work.
Over(m) == m.complete \/ m.deferred

\* Mutant: lines older than the file are not skipped.
NoneOlder(base, e) == FALSE

\* A line the file already holds.
Older(base, e) == e.seq <= base

\* One line of the journal on top of what has been replayed; base is the
\* sequence number of the file.
Applied(m, base, e) ==
    IF m = Broken \/ e = Torn THEN Broken
    ELSE IF Older(base, e) THEN m
    ELSE IF e.seq # m.seq + 1 THEN Broken
    ELSE [m EXCEPT !.seq = e.seq,
                   !.done = IF e.op = "completed" THEN [@ EXCEPT ![e.token] = e.row]
                                                  ELSE @,
                   !.part = CASE e.op = "completed" -> [@ EXCEPT ![e.token] = Nothing]
                              [] e.op = "partial"   -> [@ EXCEPT ![e.token] = e.row]
                              [] OTHER              -> @]

\* The lines of a journal, one after the other, on top of the checkpoint m.
Replay(m, lines) ==
    LET upTo[i \in 0 .. Len(lines)] ==
            IF i = 0 THEN m ELSE Applied(upTo[i - 1], m.seq, lines[i])
    IN  upTo[Len(lines)]

\* What a worker that opens the checkpoint of its case now works with.
Recovered ==
    CASE disk = None -> None
      [] disk # None /\ disk.complete /\ ~Proven(disk) -> Broken
      [] OTHER -> Replay(disk, journal)

\* A case's first line follows three writes of the file (open, resolve_case,
\* scan_plan), so 3 stands for every number the file has at an empty journal.
Settled(s) == IF s > 3 THEN 3 ELSE s

\* _persist of the whole checkpoint: the file is replaced first, a journal
\* that holds anything is emptied in a step of its own.
Write(m) ==
    LET n == [m EXCEPT !.seq = IF journal = <<>> THEN Settled(@ + 1) ELSE @ + 1]
    IN /\ mem' = n /\ disk' = n
       /\ dirty' = (journal # <<>>)
       /\ blame' = blame \ {"append"}
       /\ UNCHANGED journal

EmptyJournal ==
    /\ dirty
    /\ journal' = <<>> /\ dirty' = FALSE
    /\ mem' = [mem EXCEPT !.seq = Settled(@)]
    /\ disk' = [disk EXCEPT !.seq = Settled(@)]
    /\ blame' = {}
    /\ UNCHANGED <<sides, tmp, cursor, pc, plan, faults>>

\* _persist of one line, on top of the change m to the copy in memory.
Line(m, op, t, row) == [seq |-> m.seq, op |-> op, token |-> t, row |-> row]
Log(m, op, t, row) ==
    LET n == [m EXCEPT !.seq = @ + 1]
    IN /\ mem' = n
       /\ journal' = Append(journal, Line(n, op, t, row))
       /\ UNCHANGED <<disk, dirty>>

\* A line that does not reach the journal whole.  The write may raise (the
\* number is spent all the same), or stop short without anyone looking.
LosesLine(m) ==
    /\ faults < MaxFaults /\ faults' = faults + 1
    /\ mem' = [m EXCEPT !.seq = @ + 1]
    /\ UNCHANGED <<disk, dirty>>
AppendRaises(m) ==
    LosesLine(m) /\ UNCHANGED journal /\ blame' = blame \cup {"append"}
AppendStopsShort(m) ==
    LosesLine(m) /\ journal' = Append(journal, Torn) /\ blame' = blame \cup {"torn"}

(***************************************************************************)
(* A run of the worker                                                      *)
(***************************************************************************)

FilesOf(c) == {f \in Files : CaseOf[f] = c}
CaseAt(offset) ==
    CHOOSE c \in listed :
        Cardinality({d \in listed : d < c}) = offset % Cardinality(listed)

\* Mutant: the offset never wraps around.
NextUnwrapped(offset) == offset + 1

\* Mutant: the last case of the slice is taken again.
NextSame(offset) == offset % Cardinality(listed)

NextOffset(offset) ==
    ((offset % Cardinality(listed)) + 1) % Cardinality(listed)

\* The process exits; what it knew is gone.
Ended ==
    /\ pc' = "idle" /\ mem' = None /\ dirty' = FALSE
    /\ next' = 0 /\ todo' = {} /\ current' = NoItem /\ failed' = FALSE
    /\ collides' = FALSE

\* The worker opens the checkpoint.  One of another case makes way only if
\* that case is over; lines left in the journal then wait to be emptied too.
Start ==
    /\ pc = "idle" /\ listed # {}
    /\ LET c == CaseAt(cursor)
       IN \/ /\ disk # None => disk.case # c /\ Over(disk)
             /\ disk' = Fresh(c) /\ mem' = Fresh(c)
             /\ dirty' = (journal # <<>>)
             /\ blame' = IF journal = <<>> THEN {} ELSE blame \cup {"stale"}
          \/ /\ disk # None /\ disk.case = c /\ Recovered # Broken
             /\ mem' = Recovered
             /\ blame' = blame \ {"append"}
             /\ UNCHANGED <<disk, dirty>>
    /\ next' = NextOffset(cursor)
    /\ pc' = "resolve"
    /\ UNCHANGED <<sides, tmp, cursor, journal, todo, current, failed, collides,
                   faults>>

\* set_phase, a write of the whole checkpoint before each part of the run.
After == [resolve |-> "scan", scan |-> "plan", download |-> "get",
          upload |-> "put", verify |-> "conclude"]
SetPhase ==
    /\ pc \in DOMAIN After /\ ~dirty
    /\ Write(mem) /\ pc' = After[pc]
    /\ UNCHANGED <<sides, tmp, cursor, plan, faults>>

\* A hash the scan of a file with a checksum had to compute is journalled.
CacheHash(f) ==
    /\ pc = "plan" /\ ~dirty
    /\ CaseOf[f] = mem.case /\ f \in Checked /\ dest[f] # Nothing
    /\ Log(mem, "hash", <<f, src[f]>>, Nothing)
    /\ pc' = "bind"
    /\ UNCHANGED <<sides, tmp, cursor, plan, blame, faults>>

\* resolve_case leaves out a case it cannot look up or reach, or whose Drive
\* folder it may not use, and goes on with nothing matched.
SkipCase ==
    /\ pc = "scan" /\ ~dirty
    /\ faults < MaxFaults /\ faults' = faults + 1
    /\ Write(mem) /\ pc' = "unmatched"
    /\ UNCHANGED <<sides, tmp, cursor, plan>>

\* What one side lacks, as far as it was seen, and the rules let the other give.
Missing(c, unseen) ==
    {<<f, src[f]>> : f \in {g \in FilesOf(c) \ Unmapped :
        IF g \in unseen THEN g \notin Uploads ELSE dest[g] = Nothing}}

\* A file at both sides that has no checksum cannot be compared.
Incomparable(c, unseen) ==
    {f \in FilesOf(c) \ unseen : dest[f] # Nothing /\ f \notin Checked}

Bound(m, tokens) ==
    [m EXCEPT !.snap = tokens, !.deferred = FALSE,
              !.complete = @ /\ m.snap = tokens,
              !.part = [t \in Tokens |-> IF t \in tokens THEN @[t] ELSE Nothing]]

\* build_file_sync_plan on what was seen.  Files that differ are left to
\* people; a case with colliding names plans nothing.
PlanSeen(c, unseen, collision) ==
    LET tokens == IF collision THEN {} ELSE Missing(c, unseen)
    IN /\ Write(Bound(mem, tokens)) /\ todo' = tokens
       /\ failed' = (~collision /\ Incomparable(c, unseen) # {})
       /\ collides' = collision /\ excused' = unseen \cap Uploads

\* A case folder that is not there, or a file without a size, is passed over
\* like something that does not exist; a NAS that answers no read while it is
\* scanned, and a case that could not be resolved, leave an empty plan that
\* counts as a failure.
Plan ==
    /\ pc \in {"plan", "bind"} /\ ~dirty
    /\ LET c == mem.case
       IN \/ PlanSeen(c, {}, c \in Colliding) /\ UNCHANGED faults
          \/ /\ faults < MaxFaults /\ faults' = faults + 1
             /\ \/ \E unseen \in SUBSET FilesOf(c) :
                     PlanSeen(c, unseen, FALSE) \/ PlanSeen(c, unseen, c \in Colliding)
                \/ /\ Write(Bound(mem, {})) /\ failed' = TRUE
                   /\ excused' = {} /\ UNCHANGED <<todo, collides>>
    /\ pc' = "download"
    /\ UNCHANGED <<src, dest, listed, edits, tmp, cursor, next, current>>

\* Of a case that was left out nothing is planned, and nothing fails.
PlanNothing ==
    /\ pc = "unmatched" /\ ~dirty
    /\ Write(Bound(mem, {}))
    /\ excused' = FilesOf(mem.case)
    /\ pc' = "download"
    /\ UNCHANGED <<src, dest, listed, edits, tmp, cursor, plan, faults>>

Content(f) == Whole(<<f, src[f]>>)
Drops(t) == todo' = todo \ {t}
Fails(t) == Drops(t) /\ failed' = TRUE

\* execute_drive_to_nas_downloads, up to the transfer.  A file too large for
\* a single download is left for good and is no failure.  A target that is
\* there already counts when its content is what Drive says, or, without a
\* checksum, what the checkpoint proved.  A partial download is resumed when
\* it is exactly the prefix the checkpoint recorded.
GetFile(t) ==
    /\ pc = "get" /\ ~dirty /\ t \in todo /\ FileOf(t) \notin Uploads
    /\ LET there == dest[FileOf(t)]
           proof == IF FileOf(t) \in Checked THEN Whole(t) ELSE mem.done[t]
       IN CASE t \in Large ->
                 Drops(t) /\ UNCHANGED <<pc, current, tmp, failed>>
            [] t \notin Large /\ there = Nothing ->
                 /\ tmp' = [tmp EXCEPT ![t] = IF @ = mem.part[t] THEN @ ELSE Nothing]
                 /\ pc' = "fetch" /\ current' = [NoItem EXCEPT !.token = t]
                 /\ UNCHANGED <<todo, failed>>
            [] t \notin Large /\ there # Nothing /\ there = proof ->
                 /\ tmp' = IF FileOf(t) \in Checked
                           THEN [tmp EXCEPT ![t] = Nothing] ELSE tmp
                 /\ pc' = "mark" /\ current' = [token |-> t, row |-> proof]
                 /\ UNCHANGED <<todo, failed>>
            [] OTHER -> Fails(t) /\ UNCHANGED <<pc, current, tmp>>
    /\ UNCHANGED <<sides, cursor, store, next, collides, blame, faults>>

\* The item in hand is given up.
GiveUp(stage) ==
    /\ Fails(current.token)
    /\ pc' = stage /\ current' = NoItem /\ UNCHANGED <<next, collides>>

\* One chunk, of what Drive has now, is flushed to the partial file.  The size
\* of an exported file is not known beforehand, so all of it is not told from
\* a part of it, and what lies past its end is refused.
FetchChunk ==
    /\ pc = "fetch"
    /\ LET t == current.token
           f == FileOf(t)
       IN IF Len(tmp[t]) < Size[f]
          THEN /\ tmp' = [tmp EXCEPT ![t] = Append(@, src[f])]
               /\ pc' = "record" /\ UNCHANGED plan
          ELSE f \notin Checked /\ GiveUp("get") /\ UNCHANGED tmp
    /\ UNCHANGED <<sides, cursor, store, blame, faults>>

RecordPartial ==
    /\ pc = "record"
    /\ LET t == current.token
           m == [mem EXCEPT !.part[t] = tmp[t]]
       IN \/ /\ Log(m, "partial", t, tmp[t])
             /\ pc' = IF Len(tmp[t]) = Size[FileOf(t)] THEN "publish" ELSE "fetch"
             /\ UNCHANGED <<plan, blame, faults>>
          \/ AppendRaises(m) /\ GiveUp("get")
          \/ /\ AppendStopsShort(m)
             /\ pc' = IF Len(tmp[t]) = Size[FileOf(t)] THEN "publish" ELSE "fetch"
             /\ UNCHANGED plan
    /\ UNCHANGED <<sides, tmp, cursor>>

\* Mutant: the checksum of what was received is not compared.
ReceivedUnchecked(t) == TRUE

\* What was received has the checksum Drive gave when the plan was made.
Received(t) == FileOf(t) \in Checked => tmp[t] = Whole(t)

\* What was received as planned takes the final name, whatever has that name
\* by now; anything else is thrown away.
Publish ==
    /\ pc \in {"fetch", "publish"}
    /\ Len(tmp[current.token]) = Size[FileOf(current.token)]
    /\ pc = "fetch" => FileOf(current.token) \in Checked
    /\ LET t == current.token
           f == FileOf(t)
       IN IF ~Received(t)
          THEN GiveUp("get") /\ UNCHANGED dest
          ELSE /\ dest' = [dest EXCEPT ![f] = tmp[t]]
               /\ current' = [token |-> t, row |-> tmp[t]]
               /\ pc' = "mark" /\ UNCHANGED <<next, todo, failed, collides>>
    /\ tmp' = [tmp EXCEPT ![current.token] = Nothing]
    /\ UNCHANGED <<src, listed, excused, edits, cursor, store, blame, faults>>

\* upload_local_file_to_drive: a file of that name on Drive counts if it is
\* the same, and is not replaced if it is not.  The answer to an upload may be
\* lost for good after Drive took the file.
PutFile(t) ==
    /\ pc = "put" /\ ~dirty /\ t \in todo /\ FileOf(t) \in Uploads
    /\ LET f == FileOf(t)
       IN \/ /\ t \in Large /\ Drops(t)
             /\ UNCHANGED <<dest, pc, current, failed, faults>>
          \/ /\ t \notin Large /\ dest[f] \in {Nothing, Content(f)}
             /\ dest' = [dest EXCEPT ![f] = Content(f)]
             /\ pc' = "mark" /\ current' = [token |-> t, row |-> Content(f)]
             /\ UNCHANGED <<todo, failed, faults>>
          \/ /\ t \notin Large /\ dest[f] = Nothing
             /\ faults < MaxFaults /\ faults' = faults + 1
             /\ dest' = [dest EXCEPT ![f] = Content(f)]
             /\ Fails(t) /\ UNCHANGED <<pc, current>>
          \/ /\ t \notin Large /\ dest[f] \notin {Nothing, Content(f)}
             /\ Fails(t) /\ UNCHANGED <<dest, pc, current, faults>>
    /\ UNCHANGED <<src, listed, excused, edits, tmp, cursor, store, next, collides,
                   blame>>

\* The proof of the item in hand is journalled.  An uploaded file whose source
\* is no longer the one of the plan is not proven.
MarkCompleted ==
    /\ pc = "mark"
    /\ LET t == current.token
           f == FileOf(t)
           stage == IF f \in Uploads THEN "put" ELSE "get"
           m == [mem EXCEPT !.done[t] = current.row, !.part[t] = Nothing]
           goesOn == pc' = stage /\ current' = NoItem /\ Drops(t)
                     /\ UNCHANGED <<next, failed, collides>>
       IN IF f \in Uploads /\ src[f] # t[2]
          THEN GiveUp(stage) /\ UNCHANGED <<store, blame, faults>>
          ELSE \/ Log(m, "completed", t, current.row) /\ goesOn
                  /\ UNCHANGED <<blame, faults>>
               \/ AppendRaises(m) /\ GiveUp(stage)
               \/ AppendStopsShort(m) /\ goesOn
    /\ UNCHANGED <<sides, tmp, cursor>>

\* An item fails on its own; with the storage gone, so does the rest of its
\* direction.
ItemFails(t) ==
    /\ pc \in {"get", "put"} /\ ~dirty /\ t \in todo
    /\ (pc = "put") = (FileOf(t) \in Uploads)
    /\ faults < MaxFaults /\ faults' = faults + 1
    /\ \/ Fails(t)
       \/ /\ todo' = {u \in todo : (FileOf(u) \in Uploads) # (FileOf(t) \in Uploads)}
          /\ failed' = TRUE
    /\ UNCHANGED <<sides, tmp, cursor, store, pc, next, current, collides, blame>>

NextPart ==
    /\ ~dirty
    /\ \/ /\ pc = "get" /\ pc' = "upload"
          /\ \A t \in todo : FileOf(t) \in Uploads
       \/ /\ pc = "put" /\ pc' = "verify" /\ todo = {}
    /\ UNCHANGED <<sides, tmp, cursor, store, plan, blame, faults>>

\* The outcome.  A failure keeps the cursor, and so do proofs that do not
\* cover the plan; else the case is closed before the cursor moves on.
Conclude ==
    /\ pc = "conclude" /\ ~dirty
    /\ \/ /\ failed /\ cursor = next
          /\ pc' = "discard" /\ UNCHANGED <<plan, store, blame>>
       \/ /\ failed /\ cursor # next
          /\ Ended /\ UNCHANGED <<disk, journal, blame>>
       \/ /\ ~failed /\ collides
          /\ Write([mem EXCEPT !.complete = FALSE, !.deferred = TRUE])
          /\ pc' = "save" /\ UNCHANGED plan
       \/ /\ ~failed /\ ~collides /\ Proven(mem)
          /\ Write([mem EXCEPT !.complete = TRUE])
          /\ pc' = "save" /\ UNCHANGED plan
       \/ /\ ~failed /\ ~collides /\ ~Proven(mem)
          /\ Ended /\ UNCHANGED <<disk, journal, blame>>
    /\ UNCHANGED <<sides, tmp, cursor, faults>>

SaveCursor ==
    /\ pc = "save" /\ ~dirty
    /\ cursor' = next /\ pc' = "discard"
    /\ UNCHANGED <<sides, tmp, store, plan, blame, faults>>

\* discard_after_cursor_commit refuses a case that is not over.  A case that
\* is over was written as a whole, which left no line in the journal.
Discard ==
    /\ pc = "discard"
    /\ disk' = IF Over(mem) THEN None ELSE disk
    /\ journal' = IF Over(mem) THEN <<>> ELSE journal
    /\ Ended
    /\ UNCHANGED <<sides, tmp, cursor, blame, faults>>

(***************************************************************************)
(* What happens to a run                                                    *)
(***************************************************************************)

InTime == {"resolve", "scan", "plan", "bind", "download", "get", "fetch",
           "record", "publish", "mark", "upload", "put", "verify", "unmatched"}

\* The deadline strikes inside the time limit: the worker saves what it knows
\* and ends, the cursor where it was.
Timeout ==
    /\ pc \in InTime
    /\ faults < MaxFaults /\ faults' = faults + 1
    /\ Write(mem) /\ pc' = "timeout"
    /\ UNCHANGED <<sides, tmp, cursor, plan>>

EndTimeout ==
    /\ pc = "timeout" /\ ~dirty
    /\ Ended
    /\ UNCHANGED <<sides, tmp, cursor, disk, journal, blame, faults>>

\* The process is killed; a termination signal writes no checkpoint either.
Crash ==
    /\ pc # "idle"
    /\ faults < MaxFaults /\ faults' = faults + 1
    /\ Ended
    /\ UNCHANGED <<sides, tmp, cursor, disk, journal, blame>>

(***************************************************************************)
(* What people do meanwhile                                                 *)
(***************************************************************************)

Edit == edits < MaxEdits /\ edits' = edits + 1
        /\ UNCHANGED <<tmp, cursor, store, pc, plan, blame, faults>>

EditSource(f) ==
    /\ Edit /\ src[f] < MaxVersion
    /\ src' = [src EXCEPT ![f] = @ + 1]
    /\ excused' = excused \cup {f} /\ UNCHANGED <<dest, listed>>

SaveTarget(f) ==
    /\ Edit
    /\ \E x \in {Nothing, Foreign, Content(f)} : dest' = [dest EXCEPT ![f] = x]
    /\ dest' # dest
    /\ excused' = excused \cup {f} /\ UNCHANGED <<src, listed>>

Relist(c) ==
    /\ Edit
    /\ listed' = IF c \in listed THEN listed \ {c} ELSE listed \cup {c}
    /\ UNCHANGED <<src, dest, excused>>

(***************************************************************************)
(* The specification                                                        *)
(***************************************************************************)

Init ==
    /\ src = [f \in Files |-> 0] /\ dest = [f \in Files |-> Nothing]
    /\ tmp = NoRows /\ listed = FirstListed /\ cursor = 0
    /\ excused = {} /\ edits = 0
    /\ disk = None /\ journal = <<>> /\ dirty = FALSE /\ mem = None
    /\ pc = "idle" /\ next = 0 /\ todo = {} /\ current = NoItem
    /\ failed = FALSE /\ collides = FALSE /\ blame = {} /\ faults = 0

WorkerStep ==
    \/ Start \/ SetPhase \/ SkipCase \/ EmptyJournal \/ Plan \/ PlanNothing
    \/ FetchChunk \/ RecordPartial
    \/ Publish \/ MarkCompleted \/ NextPart \/ Conclude \/ SaveCursor \/ Discard
    \/ EndTimeout
    \/ \E f \in Files : CacheHash(f)
    \/ \E t \in Tokens : GetFile(t) \/ PutFile(t) \/ ItemFails(t)

People ==
    \/ \E f \in Edited : EditSource(f) \/ SaveTarget(f)
    \/ \E c \in Cases : Relist(c)

Next == WorkerStep \/ Timeout \/ Crash \/ People

Spec == Init /\ [][Next]_vars

\* The schedule starts a worker again and again, and a running worker goes on.
FairSpec == Spec /\ WF_vars(WorkerStep)

(***************************************************************************)
(* Properties                                                               *)
(***************************************************************************)

Contents == Seq(0 .. MaxVersion + 1)
Checkpoints ==
    [case : Cases, seq : Nat \ {0}, snap : SUBSET Tokens,
     done : [Tokens -> Contents], part : [Tokens -> Contents],
     complete : BOOLEAN, deferred : BOOLEAN]

\* Property.  Type correctness; a worker that runs, and no other, has a copy
\* of the checkpoint, and the cursor is an offset of some list of cases.
DriveTypeOK ==
    /\ src \in [Files -> 0 .. MaxVersion] /\ dest \in [Files -> Contents]
    /\ tmp \in [Tokens -> Contents]
    /\ \A t \in Tokens : Len(tmp[t]) <= Size[FileOf(t)]
    /\ listed \in SUBSET Cases
    /\ {cursor, next} \subseteq 0 .. Cardinality(Cases) - 1
    /\ disk = None \/ disk \in Checkpoints
    /\ mem = None \/ mem \in Checkpoints
    /\ (mem = None) = (pc = "idle")
    /\ todo \subseteq Tokens /\ excused \subseteq Files
    /\ {dirty, failed, collides} \subseteq BOOLEAN
    /\ blame \subseteq {"append", "torn", "stale"}

\* Property.  Whatever has happened to the worker, one that opens the
\* checkpoint finds exactly what the last one knew, and never something it
\* cannot load: unless a line did not reach the journal whole, or lines of
\* another case were still there when a new checkpoint replaced the old one
\* (_persist, _replay_journal).
Recoverable ==
    blame = {} => /\ mem # None => Recovered = mem
                  /\ Recovered # Broken

\* Property.  A completion proof of a file with a checksum is a proof of the
\* content the plan named, also when the partial file it was assembled from
\* was left by earlier runs and the source changed in between
\* (_download_drive_entry, execute_nas_to_drive_uploads, mark_completed).
ProofsAreOfThePlan ==
    \A m \in {mem, Recovered} \ {None, Broken} : \A t \in Completed(m) :
        FileOf(t) \in Checked => m.done[t] = Whole(t)

\* Property.  When the cursor passes a case, every file the run looked at is
\* accounted for: it is at its destination, and whole there if it was planned
\* and has a checksum, after any number of runs that ended in the middle
\* (mark_case_complete, "The case cursor is the final commit").  The code, and
\* so the property, leaves out: a case put off for people to decide; a case
\* that resolve_case skipped (drive_case_sync.py:2231, 7878); a file the naming
\* rules refuse (6846, 6974); a file on the NAS that the scan passed over
\* (1657, 1625); and what people have changed since the plan.
CursorPassesSynced ==
    [][cursor' # cursor /\ ~mem.deferred =>
        /\ \A f \in FilesOf(mem.case) \ (excused \cup Unmapped) : dest[f] # Nothing
        /\ \A t \in mem.snap : FileOf(t) \in Checked \ excused =>
                                 dest[FileOf(t)] = Whole(t)]_vars

\* The schedule cannot get past the case under the cursor by itself: the
\* checkpoint cannot be opened, a file cannot be compared, its transfer
\* cannot be resumed or is too large, or there is no other case.
Blocked ==
    \/ Cardinality(listed) < 2
    \/ Recovered = Broken
    \/ disk # None /\ disk.case # CaseAt(cursor) /\ ~Over(disk)
    \/ \E f \in FilesOf(CaseAt(cursor)) :
          \/ f \notin Unmapped /\ dest[f] = Nothing /\ <<f, src[f]>> \in Large
          \/ f \notin Checked /\ (dest[f] # Nothing \/ tmp[<<f, src[f]>>] # Nothing)

\* Property.  Unless the schedule is blocked again and again, the cursor moves
\* again and again: runs that end early do not undo each other's work.
CursorMoves == []<>Blocked \/ []<><<cursor' # cursor>>_cursor

\* What the reports of the worker call "no_overwrite_no_delete": no step of
\* it changes a file that is at its destination.
NoOverwrite ==
    [][edits' = edits =>
        \A f \in Files : dest[f] # Nothing => dest'[f] = dest[f]]_vars
==============================================================================
