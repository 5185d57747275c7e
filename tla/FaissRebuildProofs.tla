------------------------- MODULE FaissRebuildProofs -------------------------
(***************************************************************************)
(* HandoffKept and BackoffIsOwn, for any batches, delays and bounds.        *)
(*                                                                         *)
(* That a worker may remove the request it was started for rests on its     *)
(* snapshot: it was taken after the worker had seen that request, and any   *)
(* later mark changes the id, so while the id still matches the snapshot    *)
(* holds everything marked (SnapshotCovers).                                *)
(***************************************************************************)
EXTENDS FaissRebuild, TLAPS

Epochs == 0 .. MaxCrashes

\* Ids and snapshots come from the past; the owners to come have no worker.
WorkersSound ==
    /\ \A e \in Epochs : workers[e] # NoWorker => workers[e].snap \subseteq db
    /\ \A e \in Epochs : e > epoch => workers[e] = NoWorker
    /\ \A e \in Epochs : workers[e].phase = "failed" => workers[e].id \in failed
    /\ \A e \in Epochs : workers[e].phase = "published"
                            => workers[e].snap \subseteq published

\* A snapshot for the request on disk holds every marked batch.
SnapshotCovers ==
    \A e \in Epochs :
        workers[e].phase \in {"built", "published"} /\ IsFor(workers[e])
            => marked \subseteq workers[e].snap

\* Without orphans the request stays while its rebuild is at work, and what the
\* worker has published stays the active index.
OwnerAlone ==
    NoOrphan =>
        /\ workers[epoch].phase \in {"spawned", "loaded", "built", "published"}
              => request # NoRequest
        /\ workers[epoch].phase = "published" => index = workers[epoch].snap

IInv == /\ FaissTypeOK
        /\ WorkersSound
        /\ SnapshotCovers
        /\ OwnerAlone
        /\ HandoffKept
        /\ BackoffIsOwn

(***************************************************************************)
(* Workers                                                                  *)
(***************************************************************************)

LEMMA WorkerTyped ==
    ASSUME FaissTypeOK, NEW e \in Epochs
    PROVE  /\ workers[e] # NoWorker <=> workers[e] \in WorkersOf
           /\ workers[e].phase \in Phases <=> workers[e] \in WorkersOf
  BY DEF FaissTypeOK, Epochs, WorkersOf, NoWorker, Phases

LEMMA PhaseMoves ==
    ASSUME FaissTypeOK, NEW e \in Epochs, workers[e].phase \in Phases,
           NEW p \in Phases, workers' = [workers EXCEPT ![e].phase = p]
    PROVE  /\ workers' \in [Epochs -> WorkersOf \cup {NoWorker}]
           /\ workers[e] # NoWorker /\ workers'[e] # NoWorker
           /\ workers'[e].phase = p
           /\ workers'[e].id = workers[e].id /\ workers'[e].gen = workers[e].gen
           /\ workers'[e].snap = workers[e].snap
           /\ \A x \in Epochs : x # e => workers'[x] = workers[x]
<1> DEFINE w == workers[e]
<1>1. w \in WorkersOf /\ w # NoWorker
  BY WorkerTyped
<1>2. workers \in [Epochs -> WorkersOf \cup {NoWorker}]
  BY DEF FaissTypeOK, Epochs
<1>3. workers' = [workers EXCEPT ![e] = [w EXCEPT !.phase = p]]
  OBVIOUS
<1>4. /\ [w EXCEPT !.phase = p] \in WorkersOf
      /\ [w EXCEPT !.phase = p].phase = p
      /\ [w EXCEPT !.phase = p].id = w.id /\ [w EXCEPT !.phase = p].gen = w.gen
      /\ [w EXCEPT !.phase = p].snap = w.snap
  BY <1>1 DEF WorkersOf
<1>5. [w EXCEPT !.phase = p] # NoWorker
  BY <1>4 DEF NoWorker, Phases
<1> HIDE DEF w
<1> QED
  BY <1>1, <1>2, <1>3, <1>4, <1>5 DEF w

\* A worker that goes on, ends or fails without touching anything else.
LEMMA WorkerMoves ==
    ASSUME IInv, NEW e \in Epochs, workers[e].phase \in AtWork,
           NEW p \in {"loaded", "passed", "failed"}, Becomes(e, p),
           p = "loaded" => workers[e].phase = "spawned",
           faults' \in Nat,
           UNCHANGED <<clock, source, request, issued, script, epoch, up, slot,
                       built>>
    PROVE  IInv'
<1> USE DEF IInv, source, built
<1>1. workers[e].phase \in Phases /\ p \in Phases
  BY DEF AtWork, Phases
<1>2. /\ workers' \in [Epochs -> WorkersOf \cup {NoWorker}]
      /\ workers[e] # NoWorker /\ workers'[e] # NoWorker
      /\ workers'[e].phase = p
      /\ workers'[e].id = workers[e].id /\ workers'[e].gen = workers[e].gen
      /\ workers'[e].snap = workers[e].snap
      /\ \A x \in Epochs : x # e => workers'[x] = workers[x]
  BY <1>1, PhaseMoves DEF Becomes
<1>3. failed \subseteq failed' /\ (p = "failed" => workers[e].id \in failed')
  BY DEF Becomes
<1>4. failed' \subseteq 1 .. issued
  <2>1. workers[e].id \in 1 .. issued
    BY <1>2, WorkerTyped DEF FaissTypeOK, Epochs, WorkersOf
  <2> QED
    BY <2>1 DEF Becomes, FaissTypeOK
<1>5. FaissTypeOK'
  BY <1>2, <1>4 DEF FaissTypeOK, Epochs
<1>6. WorkersSound'
  BY <1>2, <1>3 DEF WorkersSound
<1>7. SnapshotCovers'
  BY <1>2 DEF SnapshotCovers, IsFor
<1>8. NoOrphan' => NoOrphan
  BY <1>2 DEF NoOrphan, Epochs
<1>9. OwnerAlone'
  BY <1>2, <1>8 DEF OwnerAlone, Epochs, FaissTypeOK
<1>10. HandoffKept'
  BY <1>8 DEF HandoffKept
<1>11. BackoffIsOwn'
  BY <1>3 DEF BackoffIsOwn
<1> QED
  BY <1>5, <1>6, <1>7, <1>9, <1>10, <1>11

LEMMA LoadStep == ASSUME IInv, NEW e \in Epochs, Load(e) PROVE IInv'
<1> DEFINE p == IF /\ workers[e].code = workers[e].script
                   /\ IsFor(workers[e]) /\ request.script = workers[e].script
                THEN "loaded" ELSE "failed"
<1>1. p \in {"loaded", "passed", "failed"} /\ workers[e].phase = "spawned"
      /\ Becomes(e, p)
  BY DEF Load
<1>2. faults' \in Nat
  BY DEF Load, IInv, FaissTypeOK
<1> HIDE DEF p
<1> QED
  BY <1>1, <1>2, WorkerMoves DEF Load, AtWork

LEMMA ExitStep == ASSUME IInv, NEW e \in Epochs, Exit(e) PROVE IInv'
<1>1. faults' \in Nat
  BY DEF Exit, IInv, FaissTypeOK
<1> QED
  BY <1>1, WorkerMoves DEF Exit, AtWork

LEMMA FailStep == ASSUME IInv, NEW e \in Epochs, Fail(e) PROVE IInv'
<1>1. faults' \in Nat
  BY DEF Fail, IInv, FaissTypeOK
<1> QED
  BY <1>1, WorkerMoves DEF Fail

LEMMA BuildStep == ASSUME IInv, NEW e \in Epochs, Build(e) PROVE IInv'
<1> USE DEF IInv, Build, source, built
<1> DEFINE w == workers[e]
           v == [w EXCEPT !.phase = "built", !.snap = db]
<1>1. w \in WorkersOf /\ w # NoWorker
  BY WorkerTyped DEF Phases
<1>2. v \in WorkersOf /\ v.phase = "built" /\ v.id = w.id /\ v.gen = w.gen
      /\ v.snap = db
  BY <1>1 DEF WorkersOf, FaissTypeOK, Phases
<1>3. v # NoWorker
  BY <1>2 DEF NoWorker
<1>4. workers' = [workers EXCEPT ![e] = v]
  OBVIOUS
<1>5. workers \in [Epochs -> WorkersOf \cup {NoWorker}]
  BY DEF FaissTypeOK, Epochs
<1> HIDE DEF v
<1>6. workers'[e] = v /\ \A x \in Epochs : x # e => workers'[x] = workers[x]
  BY <1>4, <1>5
<1>7. FaissTypeOK'
  <2>1. workers' \in [Epochs -> WorkersOf \cup {NoWorker}]
    BY <1>2, <1>4, <1>5
  <2> QED
    BY <1>1, <1>2, <1>6, <2>1 DEF FaissTypeOK, Epochs
<1>8. WorkersSound'
  <2>1. /\ \A x \in Epochs : x > epoch => workers[x] = NoWorker
        /\ \A x \in Epochs : workers[x].phase = "failed" => workers[x].id \in failed
        /\ \A x \in Epochs : workers[x].phase = "published"
                                => workers[x].snap \subseteq published
        /\ \A x \in Epochs : workers[x] # NoWorker => workers[x].snap \subseteq db
    BY DEF WorkersSound
  <2>2. UNCHANGED <<db, epoch, failed, published>>
    OBVIOUS
  <2> HIDE DEF Build, IInv, w
  <2>3. ~(e > epoch)
    BY <1>1, <2>1 DEF w
  <2> QED
    BY <1>2, <1>6, <2>1, <2>2, <2>3 DEF WorkersSound
<1>9. SnapshotCovers'
  BY <1>1, <1>2, <1>6 DEF SnapshotCovers, IsFor, FaissTypeOK
<1>10. NoOrphan' => NoOrphan
  BY <1>3, <1>6 DEF NoOrphan, Epochs
<1>11. OwnerAlone'
  BY <1>2, <1>6, <1>10 DEF OwnerAlone, Epochs, FaissTypeOK
<1>12. HandoffKept'
  BY <1>10 DEF HandoffKept
<1>13. BackoffIsOwn'
  BY DEF BackoffIsOwn
<1> QED
  BY <1>7, <1>8, <1>9, <1>11, <1>12, <1>13

\* Publishing over a newer index is what an orphan may do, and only an orphan.
LEMMA PublishStep == ASSUME IInv, NEW e \in Epochs, Publish(e) PROVE IInv'
<1> USE DEF IInv, Publish, source
<1>1. workers[e].phase \in Phases /\ "published" \in Phases
  BY DEF Phases
<1>2. /\ workers' \in [Epochs -> WorkersOf \cup {NoWorker}]
      /\ workers[e] # NoWorker /\ workers'[e] # NoWorker
      /\ workers'[e].phase = "published"
      /\ workers'[e].id = workers[e].id /\ workers'[e].gen = workers[e].gen
      /\ workers'[e].snap = workers[e].snap
      /\ \A x \in Epochs : x # e => workers'[x] = workers[x]
  BY <1>1, PhaseMoves DEF Becomes
<1>3. failed' = failed
  BY DEF Becomes
<1>4. workers[e].snap \subseteq db
  BY <1>2 DEF WorkersSound
<1>5. FaissTypeOK'
  BY <1>2, <1>3, <1>4 DEF FaissTypeOK, Epochs
<1>6. WorkersSound'
  BY <1>2, <1>3 DEF WorkersSound
<1>7. SnapshotCovers'
  BY <1>2 DEF SnapshotCovers, IsFor
<1>8. NoOrphan' => NoOrphan /\ e = epoch
  BY <1>2 DEF NoOrphan, Epochs
<1>9. OwnerAlone'
  BY <1>2, <1>8 DEF OwnerAlone
<1>10. NoOrphan' => request # NoRequest
  BY <1>8 DEF OwnerAlone
<1>11. HandoffKept'
  BY <1>10 DEF HandoffKept
<1>12. BackoffIsOwn'
  BY <1>3 DEF BackoffIsOwn
<1> QED
  BY <1>5, <1>6, <1>7, <1>9, <1>11, <1>12

LEMMA ClearStep == ASSUME IInv, NEW e \in Epochs, Clear(e) PROVE IInv'
<1> USE DEF IInv, Clear, source, built
<1> DEFINE p == IF request = NoRequest THEN "failed" ELSE "cleared"
<1>1. workers[e].phase \in Phases /\ p \in Phases
  BY DEF Phases
<1>2. /\ workers' \in [Epochs -> WorkersOf \cup {NoWorker}]
      /\ workers[e] # NoWorker /\ workers'[e] # NoWorker
      /\ workers'[e].phase = p
      /\ workers'[e].id = workers[e].id /\ workers'[e].gen = workers[e].gen
      /\ workers'[e].snap = workers[e].snap
      /\ \A x \in Epochs : x # e => workers'[x] = workers[x]
  <2>1. Becomes(e, p)
    OBVIOUS
  <2> HIDE DEF p
  <2> QED
    BY <1>1, <2>1, PhaseMoves DEF Becomes
<1>3. /\ p \in {"failed", "cleared"}
      /\ failed \subseteq failed' /\ (p = "failed" => workers[e].id \in failed')
  BY DEF Becomes
<1>4. failed' \subseteq 1 .. issued
  <2>1. workers[e].id \in 1 .. issued
    BY <1>2, WorkerTyped DEF FaissTypeOK, Epochs, WorkersOf
  <2> QED
    BY <2>1 DEF Becomes, FaissTypeOK
<1>5. /\ request' \in {request, NoRequest}
      /\ request' # request => IsFor(workers[e])
  OBVIOUS
<1>6. NoRequest.id <= issued
  BY DEF NoRequest, FaissTypeOK
<1> HIDE DEF p
<1>7. FaissTypeOK'
  BY <1>2, <1>4, <1>5, <1>6 DEF FaissTypeOK, Epochs
<1>8. WorkersSound'
  BY <1>2, <1>3 DEF WorkersSound
<1>9. SnapshotCovers'
  BY <1>2, <1>3, <1>5 DEF SnapshotCovers, IsFor
<1>10. NoOrphan' => NoOrphan /\ e = epoch
  BY <1>2 DEF NoOrphan, Epochs
<1>11. OwnerAlone'
  BY <1>2, <1>3, <1>10 DEF OwnerAlone
<1>12. HandoffKept'
  <2>1. CASE request = NoRequest
    BY <1>5, <1>10, <2>1 DEF HandoffKept
  <2>2. CASE request # NoRequest /\ request' = NoRequest
    <3>1. marked \subseteq workers[e].snap
      BY <1>5, <2>2 DEF SnapshotCovers
    <3>2. marked \subseteq published
      BY <3>1 DEF WorkersSound
    <3>3. NoOrphan' => marked \subseteq index
      BY <1>10, <3>1 DEF OwnerAlone
    <3> QED
      BY <3>2, <3>3 DEF HandoffKept
  <2> QED
    BY <1>5, <2>1, <2>2 DEF HandoffKept
<1>13. BackoffIsOwn'
  BY <1>3, <1>5 DEF BackoffIsOwn
<1> QED
  BY <1>7, <1>8, <1>9, <1>11, <1>12, <1>13

(***************************************************************************)
(* Source jobs, the owner and the environment                               *)
(***************************************************************************)

LEMMA IngestStep == ASSUME IInv, NEW b \in Batches, Ingest(b) PROVE IInv'
<1> USE DEF IInv, Ingest, built
<1>1. FaissTypeOK'
  BY DEF FaissTypeOK
<1>2. WorkersSound' /\ SnapshotCovers'
  BY DEF WorkersSound, SnapshotCovers, IsFor
<1>3. OwnerAlone' /\ HandoffKept' /\ BackoffIsOwn'
  BY DEF OwnerAlone, HandoffKept, BackoffIsOwn, NoOrphan
<1> QED
  BY <1>1, <1>2, <1>3

LEMMA SourceFailsStep == ASSUME IInv, NEW b \in Batches, SourceFails(b) PROVE IInv'
<1> USE DEF IInv, SourceFails, built
<1>1. FaissTypeOK'
  BY DEF FaissTypeOK
<1>2. WorkersSound' /\ SnapshotCovers'
  BY DEF WorkersSound, SnapshotCovers, IsFor
<1>3. OwnerAlone' /\ HandoffKept' /\ BackoffIsOwn'
  BY DEF OwnerAlone, HandoffKept, BackoffIsOwn, NoOrphan
<1> QED
  BY <1>1, <1>2, <1>3

\* A fresh id belongs to no worker.
LEMMA FreshId ==
    ASSUME FaissTypeOK, NEW e \in Epochs, workers[e] # NoWorker,
           request'.id = issued + 1, workers' = workers
    PROVE  ~IsFor(workers[e])'
  BY WorkerTyped DEF IsFor, FaissTypeOK, Epochs, WorkersOf

LEMMA MarkRequiredStep ==
    ASSUME IInv, NEW b \in Batches, MarkRequired(b) PROVE IInv'
<1> USE DEF IInv, MarkRequired, built
<1>1. /\ request' \in Requests /\ request' # NoRequest
      /\ request'.id = issued + 1 /\ request'.next = 0
  <2>1. request # NoRequest => request \in Requests
    BY DEF FaissTypeOK
  <2>2. CASE request = NoRequest
    BY <2>2 DEF MarkedRequest, FaissTypeOK, Requests, NoRequest
  <2>3. CASE request # NoRequest
    <3>1. request.gen + 1 \in Nat \ {0} /\ request.attempts \in 0 .. 8
          /\ script \in Nat \ {0} /\ issued + 1 \in Nat \ {0}
      BY <2>1, <2>3 DEF Requests, FaissTypeOK
    <3>2. request' = [id |-> issued + 1, gen |-> request.gen + 1,
                      attempts |-> request.attempts, next |-> 0,
                      script |-> script]
      BY <2>3 DEF MarkedRequest
    <3> QED
      BY <3>1, <3>2 DEF Requests, NoRequest
  <2> QED
    BY <2>2, <2>3
<1>2. FaissTypeOK'
  <2>1. issued' \in Nat /\ request'.id <= issued' /\ failed' \subseteq 1 .. issued'
    BY <1>1 DEF FaissTypeOK
  <2>2. \A e \in 0 .. MaxCrashes : workers[e] # NoWorker => workers[e].id <= issued'
    BY WorkerTyped DEF FaissTypeOK, Epochs, WorkersOf
  <2> QED
    BY <1>1, <2>1, <2>2 DEF FaissTypeOK
<1>3. WorkersSound'
  BY DEF WorkersSound
<1>4. SnapshotCovers'
  BY <1>1, FreshId DEF SnapshotCovers, NoWorker
<1>5. OwnerAlone' /\ HandoffKept' /\ BackoffIsOwn'
  BY <1>1 DEF OwnerAlone, HandoffKept, BackoffIsOwn, NoOrphan
<1> QED
  BY <1>2, <1>3, <1>4, <1>5

LEMMA DispatchStep == ASSUME IInv, Dispatch PROVE IInv'
<1> USE DEF IInv, Dispatch, source, built
<1>1. FaissTypeOK'
  BY DEF FaissTypeOK
<1>2. WorkersSound' /\ SnapshotCovers'
  BY DEF WorkersSound, SnapshotCovers, IsFor
<1>3. OwnerAlone' /\ HandoffKept' /\ BackoffIsOwn'
  BY DEF OwnerAlone, HandoffKept, BackoffIsOwn, NoOrphan
<1> QED
  BY <1>1, <1>2, <1>3

\* A rebound request has an id of its own, so no earlier snapshot is for it.
LEMMA BeginRebuildStep == ASSUME IInv, BeginRebuild PROVE IInv'
<1> USE DEF IInv, source, built
<1>1. CASE request = NoRequest
  <2>1. UNCHANGED <<db, owing, marked, request, issued, workers, index,
                    published, failed, clock, script, epoch, up, faults>>
        /\ slot' = FALSE
    BY <1>1 DEF BeginRebuild
  <2>2. FaissTypeOK'
    BY <2>1 DEF FaissTypeOK
  <2>3. WorkersSound' /\ SnapshotCovers'
    BY <2>1 DEF WorkersSound, SnapshotCovers, IsFor
  <2>4. OwnerAlone' /\ HandoffKept' /\ BackoffIsOwn'
    BY <2>1 DEF OwnerAlone, HandoffKept, BackoffIsOwn, NoOrphan
  <2> QED
    BY <2>2, <2>3, <2>4
<1>2. CASE request # NoRequest
  <2> DEFINE r == Rebound
             v == [phase |-> "spawned", id |-> r.id, gen |-> r.gen,
                   script |-> r.script, code |-> script, snap |-> {}]
  <2>1. request \in Requests /\ request.id <= issued
    BY <1>2 DEF FaissTypeOK
  <2>2. \/ r = request /\ issued' = issued
        \/ r.id = issued + 1 /\ issued' = issued + 1 /\ r.next = 0
    <3>1. CASE request.script = script
      BY <1>2, <3>1 DEF BeginRebuild, Rebound
    <3>2. CASE request.script # script
      <4>1. r.id = issued + 1 /\ r.next = 0
        BY <2>1, <3>2 DEF Rebound, Requests
      <4>2. r # request
        BY <2>1, <4>1 DEF FaissTypeOK
      <4> QED
        BY <1>2, <4>1, <4>2 DEF BeginRebuild
    <3> QED
      BY <3>1, <3>2
  <2>3. r \in Requests /\ r # NoRequest
    <3>1. r \in Requests
      <4>1. /\ script \in Nat \ {0} /\ issued + 1 \in Nat \ {0}
            /\ request.gen + 1 \in Nat \ {0}
        BY <2>1 DEF FaissTypeOK, Requests
      <4>2. CASE request.script = script
        BY <2>1, <4>2 DEF Rebound
      <4>3. CASE request.script # script
        <5> HIDE DEF IInv, source, built
        <5> QED
          BY <2>1, <4>1, <4>3 DEF Rebound, Requests
      <4> QED
        BY <4>2, <4>3
    <3> QED
      BY <3>1 DEF Requests, NoRequest
  <2>4. /\ request' = r /\ workers' = [workers EXCEPT ![epoch] = v]
        /\ UNCHANGED <<clock, db, owing, marked, script, epoch, up, index,
                       published, failed, faults>>
        /\ slot' = FALSE
    BY <1>2 DEF BeginRebuild
  <2>5. v \in WorkersOf /\ v.phase = "spawned" /\ v.id = r.id /\ v.snap = {}
    BY <2>3 DEF WorkersOf, Phases, Requests, FaissTypeOK
  <2>6. v # NoWorker
    BY <2>5 DEF NoWorker
  <2> HIDE DEF r, v
  <2>7. /\ epoch \in Epochs /\ workers'[epoch] = v
        /\ \A x \in Epochs : x # epoch => workers'[x] = workers[x]
    BY <2>4 DEF FaissTypeOK, Epochs
  <2>8. r.id <= issued' /\ issued <= issued' /\ issued' \in Nat
    BY <2>1, <2>2 DEF FaissTypeOK
  <2>9. FaissTypeOK'
    <3>1. workers' \in [Epochs -> WorkersOf \cup {NoWorker}]
      BY <2>4, <2>5 DEF FaissTypeOK, Epochs
    <3>2. failed' \subseteq 1 .. issued'
      BY <2>4, <2>8 DEF FaissTypeOK
    <3>3. \A x \in Epochs : workers'[x] # NoWorker => workers'[x].id <= issued'
      <4> TAKE x \in Epochs
      <4>1. CASE x = epoch
        BY <2>5, <2>7, <2>8, <4>1
      <4>2. CASE x # epoch /\ workers[x] # NoWorker
        BY <2>7, <2>8, <4>2, WorkerTyped DEF FaissTypeOK, Epochs, WorkersOf
      <4> QED
        BY <2>7, <4>1, <4>2
    <3> QED
      BY <2>3, <2>4, <2>8, <3>1, <3>2, <3>3 DEF FaissTypeOK, Epochs
  <2>10. WorkersSound'
    BY <2>4, <2>5, <2>7 DEF WorkersSound, FaissTypeOK
  <2>11. SnapshotCovers'
    <3> SUFFICES ASSUME NEW x \in Epochs,
                        workers'[x].phase \in {"built", "published"},
                        IsFor(workers[x])'
                 PROVE  marked \subseteq workers'[x].snap
      BY <2>4 DEF SnapshotCovers
    <3>1. x # epoch /\ workers'[x] = workers[x]
      BY <2>5, <2>7
    <3>2. workers[x].id <= issued
      BY <3>1 DEF FaissTypeOK, Epochs, NoWorker
    <3>3. workers[x].id \in Nat
      BY <3>1, WorkerTyped DEF Phases, WorkersOf
    <3>4. r.id = workers[x].id
      BY <2>4, <3>1 DEF IsFor
    <3>5. r = request
      BY <2>2, <3>2, <3>3, <3>4 DEF FaissTypeOK
    <3> QED
      BY <2>4, <3>1, <3>5 DEF SnapshotCovers, IsFor
  <2>12. OwnerAlone'
    BY <2>3, <2>4, <2>5, <2>7 DEF OwnerAlone
  <2>13. HandoffKept'
    BY <2>3, <2>4 DEF HandoffKept
  <2>14. BackoffIsOwn'
    <3>1. r.next > 0 => r = request
      BY <2>2
    <3> QED
      BY <1>2, <2>4, <3>1 DEF BackoffIsOwn
  <2> QED
    BY <2>9, <2>10, <2>11, <2>12, <2>13, <2>14
<1> QED
  BY <1>1, <1>2

LEMMA DelayedTyped ==
    ASSUME FaissTypeOK, request # NoRequest
    PROVE  /\ Delayed \in Requests /\ Delayed # NoRequest
           /\ Delayed.id = request.id /\ Delayed.gen = request.gen
<1>1. request \in Requests
  BY DEF FaissTypeOK
<1>2. /\ Earlier(request.attempts + 1, 8) \in 0 .. 8
      /\ Earlier(request.attempts, 7) \in 0 .. 7
  BY <1>1 DEF Earlier, Requests
<1>3. Earlier(clock + Backoff[Earlier(request.attempts, 7)], Horizon) \in Nat
  <2> DEFINE t == Earlier(request.attempts, 7)
  <2>1. t \in 0 .. 7
    BY <1>2
  <2> HIDE DEF t
  <2>2. Backoff[t] \in Nat
    BY <2>1, FaissAssumption
  <2>3. clock + Backoff[t] \in Nat
    BY <2>2 DEF FaissTypeOK
  <2>4. Earlier(clock + Backoff[t], Horizon) \in Nat
    BY <2>3, FaissAssumption DEF Earlier
  <2> QED
    BY <2>4 DEF t
<1>4. Delayed \in Requests /\ Delayed.id = request.id /\ Delayed.gen = request.gen
  BY <1>1, <1>2, <1>3 DEF Delayed, Requests
<1> QED
  BY <1>1, <1>4 DEF Requests, NoRequest

LEMMA SettleStep == ASSUME IInv, Settle PROVE IInv'
<1> USE DEF IInv, source, built
<1> DEFINE w == workers[epoch]
<1>1. /\ epoch \in Epochs
      /\ workers' = [workers EXCEPT ![epoch] = NoWorker]
      /\ UNCHANGED <<clock, db, owing, marked, issued, script, epoch, up, slot,
                     index, published, failed, faults>>
  BY DEF Settle, FaissTypeOK, Epochs
<1>2. \/ request' = request
      \/ /\ w.phase = "failed" /\ request # NoRequest /\ request.id = w.id
         /\ request' = Delayed
  BY DEF Settle, IsFor
<1>3. /\ request' # NoRequest <=> request # NoRequest
      /\ request' # NoRequest => request'.id = request.id
                                   /\ request'.gen = request.gen
      /\ request' \in Requests \cup {NoRequest} /\ request'.id <= issued
  BY <1>2, DelayedTyped DEF FaissTypeOK
<1>4. /\ workers'[epoch] = NoWorker
      /\ \A x \in Epochs : x # epoch => workers'[x] = workers[x]
      /\ workers' \in [Epochs -> WorkersOf \cup {NoWorker}]
  BY <1>1 DEF FaissTypeOK, Epochs
<1>5. FaissTypeOK'
  BY <1>1, <1>3, <1>4 DEF FaissTypeOK, Epochs
<1>6. WorkersSound'
  BY <1>1, <1>4 DEF WorkersSound, NoWorker
<1>7. SnapshotCovers'
  BY <1>1, <1>3, <1>4 DEF SnapshotCovers, IsFor, NoWorker
<1>8. NoOrphan' => NoOrphan
  BY <1>1, <1>4 DEF NoOrphan, Epochs
<1>9. OwnerAlone'
  BY <1>1, <1>4 DEF OwnerAlone, NoWorker
<1>10. HandoffKept'
  BY <1>1, <1>3, <1>8 DEF HandoffKept
<1>11. BackoffIsOwn'
  <2>1. CASE request' = request
    BY <1>1, <2>1 DEF BackoffIsOwn
  <2>2. CASE request' # request
    BY <1>1, <1>2, <1>3, <2>2 DEF BackoffIsOwn, WorkersSound
  <2> QED
    BY <2>1, <2>2
<1> QED
  BY <1>5, <1>6, <1>7, <1>9, <1>10, <1>11

\* A worker left behind makes NoOrphan false; with none left, nothing changes.
LEMMA CrashStep == ASSUME IInv, Crash PROVE IInv'
<1> USE DEF IInv, source, built
<1>1. /\ epoch \in Nat /\ MaxCrashes \in Nat /\ epoch < MaxCrashes
      /\ epoch' = epoch + 1 /\ epoch \in Epochs /\ epoch' \in Epochs
      /\ up' = FALSE /\ slot' = FALSE
      /\ UNCHANGED <<clock, db, owing, marked, request, issued, script, workers,
                     index, published, failed, faults>>
  BY FaissAssumption DEF Crash, FaissTypeOK, Epochs
<1>2. FaissTypeOK'
  BY <1>1 DEF FaissTypeOK, Epochs
<1>3. \A x \in Epochs : x > epoch' => workers[x] = NoWorker
  BY <1>1 DEF WorkersSound, Epochs
<1>4. WorkersSound'
  BY <1>1, <1>3 DEF WorkersSound
<1>5. SnapshotCovers'
  BY <1>1 DEF SnapshotCovers, IsFor
<1>6. workers[epoch'] = NoWorker
  BY <1>1 DEF WorkersSound
<1>7. NoOrphan' => NoOrphan
  BY <1>1, <1>6 DEF NoOrphan, Epochs
<1>8. OwnerAlone'
  BY <1>1, <1>6 DEF OwnerAlone, NoWorker
<1>9. HandoffKept'
  BY <1>1, <1>7 DEF HandoffKept
<1>10. BackoffIsOwn'
  BY <1>1 DEF BackoffIsOwn
<1> QED
  BY <1>2, <1>4, <1>5, <1>8, <1>9, <1>10

LEMMA StartStep == ASSUME IInv, Start PROVE IInv'
<1> USE DEF IInv, Start, source, built
<1>1. script' \in Nat \ {0}
  BY FaissAssumption
<1>2. FaissTypeOK'
  BY <1>1 DEF FaissTypeOK
<1>3. WorkersSound' /\ SnapshotCovers'
  BY DEF WorkersSound, SnapshotCovers, IsFor
<1>4. OwnerAlone' /\ HandoffKept' /\ BackoffIsOwn'
  BY DEF OwnerAlone, HandoffKept, BackoffIsOwn, NoOrphan
<1> QED
  BY <1>2, <1>3, <1>4

LEMMA TickStep == ASSUME IInv, Tick PROVE IInv'
<1> USE DEF IInv, Tick, source, built
<1>1. FaissTypeOK'
  BY DEF FaissTypeOK
<1>2. WorkersSound' /\ SnapshotCovers'
  BY DEF WorkersSound, SnapshotCovers, IsFor
<1>3. OwnerAlone' /\ HandoffKept' /\ BackoffIsOwn'
  BY DEF OwnerAlone, HandoffKept, BackoffIsOwn, NoOrphan
<1> QED
  BY <1>1, <1>2, <1>3

LEMMA StutterStep == ASSUME IInv, UNCHANGED vars PROVE IInv'
  BY DEF IInv, vars, source, built, FaissTypeOK, WorkersSound, SnapshotCovers,
         IsFor, OwnerAlone, NoOrphan, HandoffKept, BackoffIsOwn

(***************************************************************************)
(* The theorems                                                             *)
(***************************************************************************)

LEMMA InitSound == Init => IInv
<1> SUFFICES ASSUME Init PROVE IInv
  OBVIOUS
<1>1. \A e \in Epochs : workers[e] = NoWorker
  BY DEF Init, Epochs
<1>2. \A e \in Epochs : workers[e].phase = "none"
  BY <1>1 DEF NoWorker
<1>3. FaissTypeOK
  <2>1. workers \in [0 .. MaxCrashes -> WorkersOf \cup {NoWorker}]
    BY DEF Init
  <2>2. \A e \in 0 .. MaxCrashes : workers[e] = NoWorker
    BY <1>1 DEF Epochs
  <2>3. request = NoRequest /\ request.id = 0 /\ issued = 0
    BY DEF Init, NoRequest
  <2>4. epoch \in 0 .. MaxCrashes /\ failed \subseteq 1 .. issued
    BY FaissAssumption DEF Init
  <2>5. clock \in Nat /\ script \in Nat \ {0} /\ faults \in Nat
    BY SMT DEF Init
  <2>6. up \in BOOLEAN /\ slot \in BOOLEAN
    BY Zenon DEF Init
  <2>7. /\ db \subseteq Batches /\ owing \subseteq db /\ marked \subseteq db
        /\ index \subseteq db /\ published \subseteq db
    BY DEF Init
  <2> QED
    BY <2>1, <2>2, <2>3, <2>4, <2>5, <2>6, <2>7 DEF FaissTypeOK
<1>4. WorkersSound /\ SnapshotCovers
  BY <1>1, <1>2 DEF WorkersSound, SnapshotCovers
<1>5. OwnerAlone /\ HandoffKept /\ BackoffIsOwn
  <2>1. epoch \in Epochs /\ workers[epoch].phase = "none"
    BY <1>2, <1>3 DEF FaissTypeOK, Epochs
  <2>2. marked = {} /\ request = NoRequest
    BY DEF Init
  <2> QED
    BY <2>1, <2>2 DEF OwnerAlone, HandoffKept, BackoffIsOwn
<1> QED
  BY <1>3, <1>4, <1>5 DEF IInv

LEMMA NextSound == IInv /\ [Next]_vars => IInv'
<1> SUFFICES ASSUME IInv, [Next]_vars PROVE IInv'
  OBVIOUS
<1>1. CASE \E b \in Batches : Ingest(b) \/ MarkRequired(b) \/ SourceFails(b)
  BY <1>1, IngestStep, MarkRequiredStep, SourceFailsStep
<1>2. CASE OwnerStep
  BY <1>2, DispatchStep, BeginRebuildStep, SettleStep, StartStep DEF OwnerStep
<1>3. CASE \E e \in 0 .. MaxCrashes : WorkerStep(e) \/ Fail(e)
  BY <1>3, LoadStep, BuildStep, PublishStep, ClearStep, ExitStep, FailStep
     DEF WorkerStep, Epochs
<1>4. CASE Crash \/ Tick
  BY <1>4, CrashStep, TickStep
<1>5. CASE UNCHANGED vars
  BY <1>5, StutterStep
<1> QED
  BY <1>1, <1>2, <1>3, <1>4, <1>5 DEF Next

\* The inductive invariant of the handoff, from which the others follow.
THEOREM HandoffInvariance == FaissSpec => []IInv
  BY InitSound, NextSound, PTL DEF FaissSpec

\* Every variable keeps its type, and no id is ahead of its counter.
THEOREM FaissTypeCorrect == FaissSpec => []FaissTypeOK
<1>1. IInv => FaissTypeOK
  BY DEF IInv
<1> QED
  BY <1>1, HandoffInvariance, PTL

\* A request goes only when everything marked has been published, for any
\* number of batches, killed owners, failures and releases.
THEOREM HandoffIsKept == FaissSpec => []HandoffKept
<1>1. IInv => HandoffKept
  BY DEF IInv
<1> QED
  BY <1>1, HandoffInvariance, PTL

\* A failed worker delays no request but its own, though generations repeat.
THEOREM BackoffOfOwnFailure == FaissSpec => []BackoffIsOwn
<1>1. IInv => BackoffIsOwn
  BY DEF IInv
<1> QED
  BY <1>1, HandoffInvariance, PTL
=============================================================================
