---------------------------- MODULE FaissRebuild ----------------------------
(***************************************************************************)
(* The handoff from low-memory ingest to one rebuild of the vector index    *)
(* (magi_v3/faiss_maintenance.py, scripts/ops/faiss_rebuild_worker.py).     *)
(*                                                                         *)
(* A source job commits vectors to the database and, once it has succeeded, *)
(* the cron owner marks a durable request.  The owner starts at most one    *)
(* rebuild at a time and waits for its worker; the worker checks the        *)
(* request, reads the database, publishes the index and removes the request *)
(* if it is still the one it was started for.  A worker is a process in its *)
(* own session: when the owner is killed, the worker goes on as an orphan   *)
(* beside whatever the next owner starts.                                   *)
(*                                                                         *)
(* A generation counts from 1 again whenever the request has been removed,  *)
(* so only the request id, fresh at every mark, tells two requests apart.   *)
(***************************************************************************)
EXTENDS Naturals

CONSTANTS
    Batches,        \* sets of vectors, each committed by one run of a source
    Backoff,        \* time until the next attempt, by attempts before it, up to 7
    Horizon,        \* bound: the clock
    MaxCrashes,     \* bound: owners that are killed
    MaxFaults,      \* bound: rebuilds that fail by themselves
    MaxScript       \* bound: versions of the worker's script

ASSUME FaissAssumption ==
    /\ Backoff \in [0 .. 7 -> Nat \ {0}]
    /\ Horizon \in Nat /\ MaxCrashes \in Nat /\ MaxFaults \in Nat
    /\ MaxScript \in Nat \ {0}

NoRequest == [id |-> 0]
Requests == [id : Nat \ {0}, gen : Nat \ {0}, attempts : 0 .. 8, next : Nat,
             script : Nat \ {0}]

Phases == {"spawned", "loaded", "built", "published", "cleared", "passed",
           "failed"}
AtWork == {"spawned", "loaded", "built", "published", "cleared"}
NoWorker == [phase |-> "none"]
WorkersOf == [phase : Phases, id : Nat \ {0}, gen : Nat \ {0},
              script : Nat \ {0}, code : Nat \ {0}, snap : SUBSET Batches]

VARIABLES
    clock,
    db,         \* committed batches
    owing,      \* committed batches whose run has not been settled yet
    marked,     \* history: batches a rebuild has been requested for
    request,    \* durable: the request file
    issued,     \* number of request ids handed out
    script,     \* version of the worker script of the present release
    epoch,      \* number of owners that were killed
    up,         \* an owner is alive
    slot,       \* the owner has submitted a rebuild it has not begun yet
    workers,    \* the worker of each owner
    index,      \* the active index: the batches it was built from
    published,  \* history: batches that ever were in the active index
    failed,     \* history: request ids one of whose workers failed
    faults

source == <<db, owing, marked>>
built == <<index, published>>
vars == <<clock, db, owing, marked, request, issued, script, epoch, up, slot,
          workers, index, published, failed, faults>>

\* Mutant: generations alone identify a request.
IsForGeneration(w) == request # NoRequest /\ request.gen = w.gen

\* The worker (or the owner's result) belongs to the request on disk.
IsFor(w) == /\ request # NoRequest
            /\ request.gen = w.gen /\ request.id = w.id

(***************************************************************************)
(* Source jobs                                                              *)
(***************************************************************************)

Ingest(b) ==
    /\ b \notin db
    /\ db' = db \cup {b} /\ owing' = owing \cup {b}
    /\ UNCHANGED <<clock, marked, request, issued, script, epoch, up, slot,
                   workers, built, failed, faults>>

\* Mutant: a first request has generation 0, which _load_request refuses.
MarkedFromZero ==
    [id |-> issued + 1,
     gen |-> IF request = NoRequest THEN 0 ELSE request.gen + 1,
     attempts |-> IF request = NoRequest THEN 0 ELSE request.attempts,
     next |-> 0, script |-> script]

\* mark_required: a new generation and id, due at once; failed attempts stay
\* on the account.
MarkedRequest ==
    [id |-> issued + 1,
     gen |-> IF request = NoRequest THEN 1 ELSE request.gen + 1,
     attempts |-> IF request = NoRequest THEN 0 ELSE request.attempts,
     next |-> 0, script |-> script]

\* The run succeeded.  After the owner was killed in between, a recovered run
\* of the same occurrence does this.
MarkRequired(b) ==
    /\ up /\ b \in owing
    /\ request' = MarkedRequest /\ issued' = issued + 1
    /\ owing' = owing \ {b} /\ marked' = marked \cup {b}
    /\ UNCHANGED <<clock, db, script, epoch, up, slot, workers, built, failed,
                   faults>>

\* The run failed after it had committed: nothing is marked.
SourceFails(b) ==
    /\ up /\ b \in owing
    /\ owing' = owing \ {b}
    /\ UNCHANGED <<clock, db, marked, request, issued, script, epoch, up, slot,
                   workers, built, failed, faults>>

(***************************************************************************)
(* The owner                                                                *)
(***************************************************************************)

Ready == request # NoRequest /\ request.next <= clock

\* _dispatch_faiss_rebuild: one rebuild per owner.
Dispatch ==
    /\ up /\ ~slot /\ workers[epoch] = NoWorker
    /\ Ready
    /\ slot' = TRUE
    /\ UNCHANGED <<clock, source, request, issued, script, epoch, up, workers,
                   built, failed, faults>>

\* Mutant: a request of an earlier release is run as it is.
NotRebound == request

\* A request of another release is rebound to this release's worker script.
Rebound ==
    IF request.script = script THEN request
    ELSE [request EXCEPT !.gen = @ + 1, !.id = issued + 1, !.next = 0,
                         !.script = script]

\* run_rebuild up to the start of the worker.  The request is read again: it
\* may have changed, or gone, since Dispatch.
BeginRebuild ==
    /\ up /\ slot
    /\ slot' = FALSE
    /\ IF request = NoRequest
       THEN UNCHANGED <<request, issued, workers>>
       ELSE /\ request' = Rebound
            /\ issued' = IF Rebound = request THEN issued ELSE issued + 1
            /\ workers' = [workers EXCEPT ![epoch] =
                  [phase |-> "spawned", id |-> Rebound.id, gen |-> Rebound.gen,
                   script |-> Rebound.script, code |-> script, snap |-> {}]]
    /\ UNCHANGED <<clock, source, script, epoch, up, built, failed, faults>>

Earlier(s, t) == IF s <= t THEN s ELSE t
\* The delay does not grow any more after the eighth attempt.
Delayed ==
    [request EXCEPT !.attempts = Earlier(@ + 1, 8),
        !.next = Earlier(clock + Backoff[Earlier(request.attempts, 7)], Horizon)]

\* run_rebuild after the worker: a failure delays the request it was for.
Settle ==
    LET w == workers[epoch]
    IN  /\ up /\ w.phase \in {"passed", "failed"}
        /\ request' = IF w.phase = "failed" /\ IsFor(w) THEN Delayed ELSE request
        /\ workers' = [workers EXCEPT ![epoch] = NoWorker]
        /\ UNCHANGED <<clock, source, issued, script, epoch, up, slot, built,
                       failed, faults>>

(***************************************************************************)
(* A worker                                                                 *)
(***************************************************************************)

Becomes(e, phase) ==
    /\ workers' = [workers EXCEPT ![e].phase = phase]
    /\ failed' = IF phase = "failed" THEN failed \cup {workers[e].id} ELSE failed

\* The worker checks its own source, then the request (_load_request).
Load(e) ==
    LET w == workers[e]
    IN  /\ w.phase = "spawned"
        /\ Becomes(e, IF /\ w.code = w.script
                         /\ IsFor(w) /\ request.script = w.script
                      THEN "loaded" ELSE "failed")
    /\ UNCHANGED <<clock, source, request, issued, script, epoch, up, slot,
                   built, faults>>

\* build_from_db_streaming: one snapshot of the database.
Build(e) ==
    /\ workers[e].phase = "loaded"
    /\ workers' = [workers EXCEPT ![e].phase = "built", ![e].snap = db]
    /\ UNCHANGED <<clock, source, request, issued, script, epoch, up, slot,
                   built, failed, faults>>

\* save_to_disk: the active manifest is replaced, whatever it was.
Publish(e) ==
    /\ workers[e].phase = "built"
    /\ index' = workers[e].snap
    /\ published' = published \cup workers[e].snap
    /\ Becomes(e, "published")
    /\ UNCHANGED <<clock, source, request, issued, script, epoch, up, slot,
                   faults>>

\* Mutant: the request is removed unconditionally.
ClearAlways(e) ==
    /\ workers[e].phase = "published"
    /\ request' = NoRequest
    /\ Becomes(e, IF request = NoRequest THEN "failed" ELSE "cleared")
    /\ UNCHANGED <<clock, source, issued, script, epoch, up, slot, built,
                   faults>>

\* The conditional removal.  A request that is gone altogether is an error.
Clear(e) ==
    LET w == workers[e]
    IN  /\ w.phase = "published"
        /\ request' = IF IsFor(w) /\ request.script = w.script
                      THEN NoRequest ELSE request
        /\ Becomes(e, IF request = NoRequest THEN "failed" ELSE "cleared")
        /\ UNCHANGED <<clock, source, issued, script, epoch, up, slot, built,
                       faults>>

Exit(e) ==
    /\ workers[e].phase = "cleared"
    /\ Becomes(e, "passed")
    /\ UNCHANGED <<clock, source, request, issued, script, epoch, up, slot,
                   built, faults>>

\* The guard refuses, the build is invalid or too large, a write fails, or the
\* timeout kills the worker.
Fail(e) ==
    /\ faults < MaxFaults
    /\ workers[e].phase \in AtWork
    /\ Becomes(e, "failed")
    /\ faults' = faults + 1
    /\ UNCHANGED <<clock, source, request, issued, script, epoch, up, slot,
                   built>>

(***************************************************************************)
(* The environment                                                          *)
(***************************************************************************)

\* The owner is killed.  Its worker goes on.
Crash ==
    /\ up /\ epoch < MaxCrashes
    /\ up' = FALSE /\ epoch' = epoch + 1 /\ slot' = FALSE
    /\ UNCHANGED <<clock, source, request, issued, script, workers, built,
                   failed, faults>>

\* The next owner may belong to the next release.
Start ==
    /\ ~up /\ up' = TRUE
    /\ script' \in {script, script + 1} \cap (1 .. MaxScript)
    /\ UNCHANGED <<clock, source, request, issued, epoch, slot, workers, built,
                   failed, faults>>

Tick ==
    /\ clock < Horizon
    /\ clock' = clock + 1
    /\ UNCHANGED <<source, request, issued, script, epoch, up, slot, workers,
                   built, failed, faults>>

(***************************************************************************)
(* The specification                                                        *)
(***************************************************************************)

Init ==
    /\ clock = 0
    /\ db = {} /\ owing = {} /\ marked = {}
    /\ request = NoRequest /\ issued = 0 /\ script = 1
    /\ epoch = 0 /\ up = TRUE /\ slot = FALSE
    /\ workers = [e \in 0 .. MaxCrashes |-> NoWorker]
    /\ index = {} /\ published = {}
    /\ failed = {} /\ faults = 0

OwnerStep == Dispatch \/ BeginRebuild \/ Settle \/ Start

WorkerStep(e) ==
    Load(e) \/ Build(e) \/ Publish(e) \/ Clear(e) \/ Exit(e)

Next ==
    \/ \E b \in Batches : Ingest(b) \/ MarkRequired(b) \/ SourceFails(b)
    \/ OwnerStep
    \/ \E e \in 0 .. MaxCrashes : WorkerStep(e) \/ Fail(e)
    \/ Crash
    \/ Tick

FaissSpec == Init /\ [][Next]_vars

\* The owner's loop and its thread run (or the supervisor restarts them), a
\* worker that is not failing goes on, and time passes.  Nobody need ingest.
FaissFairSpec ==
    /\ FaissSpec
    /\ WF_vars(OwnerStep) /\ WF_vars(Tick)
    /\ \A e \in 0 .. MaxCrashes : WF_vars(WorkerStep(e))

(***************************************************************************)
(* Properties                                                               *)
(***************************************************************************)

\* Every variable has its type; request ids are never ahead of their counter.
FaissTypeOK ==
    /\ clock \in Nat /\ issued \in Nat /\ script \in Nat \ {0}
    /\ epoch \in 0 .. MaxCrashes /\ up \in BOOLEAN /\ slot \in BOOLEAN
    /\ faults \in Nat
    /\ db \subseteq Batches /\ owing \subseteq db /\ marked \subseteq db
    /\ index \subseteq db /\ published \subseteq db
    /\ request \in Requests \cup {NoRequest} /\ request.id <= issued
    /\ failed \subseteq 1 .. issued
    /\ workers \in [0 .. MaxCrashes -> WorkersOf \cup {NoWorker}]
    /\ \A e \in 0 .. MaxCrashes : workers[e] # NoWorker => workers[e].id <= issued

\* No owner was killed while its worker was at work or unsettled.
NoOrphan == \A e \in 0 .. MaxCrashes : e # epoch => workers[e] = NoWorker

\* When no request is left, every batch a rebuild was requested for has been
\* in the active index (the worker "does not clear newer generation created
\* during build", tests/v3/test_faiss_maintenance.py:773), and unless a worker
\* outlived its owner it still is: an orphan may publish an older snapshot
\* over a newer one (faiss_rebuild_worker.py:114).
HandoffKept ==
    request = NoRequest =>
        /\ marked \subseteq published
        /\ NoOrphan => marked \subseteq index

\* A request is delayed only by a failure of its own: "the old worker must
\* neither overwrite nor delay that pending request"
\* (faiss_maintenance.py:352), not even when generations have started over.
BackoffIsOwn ==
    request # NoRequest /\ request.next > 0 => request.id \in failed

\* Every batch a rebuild was requested for gets into the index, through
\* failures, killed owners, orphans and a change of release, provided that
\* rebuilds do not fail for ever.
RowsIndexed == \A b \in Batches : b \in marked ~> b \in published
=============================================================================
