------------------------- MODULE CronServiceProofs -------------------------
(***************************************************************************)
(* The safety properties of CronService, for any jobs, lanes and bounds.    *)
(*                                                                         *)
(* The owner's futures are the argument: while an owner is up it knows      *)
(* every thread at work (OwnerKnows), and when no owner is up no thread is  *)
(* left (DownIsIdle), because the lock is released after the drain, or with *)
(* the process.  So the lane check, made on the owner's futures, is a check *)
(* on the threads.  Commands a killed owner leaves behind are not threads.  *)
(***************************************************************************)
EXTENDS CronService, FiniteSetTheorems, TLAPS

OwnerKnows == mode = "up" => \A e \in execs : e.item.job \in running

DownIsIdle == mode = "down" => execs = {}

\* Two pending retries of one job are retries of different occurrences.
OnePerIdentity ==
    \A i, k \in mem :
        (/\ i.job = k.job /\ i.occ = k.occ
         /\ i.kind = "retry" /\ k.kind = "retry") => i = k

SpentExhausted ==
    \A j \in Jobs :
        receipt[j].status = "exhausted" => receipt[j].attempt >= MaxAttempts

Threads == /\ IsFiniteSet(execs)
           /\ OwnerKnows
           /\ DownIsIdle
           /\ OneExecutionPerJob
           /\ ClaimedIsOpen
           /\ LaneCapacity

Pending == OnePerIdentity /\ RunningRetryNotRequeued

IInv == CronTypeOK /\ Threads /\ Pending /\ SpentExhausted

(***************************************************************************)
(* Least and greatest elements                                              *)
(***************************************************************************)

LEMMA NatMin ==
    ASSUME NEW T, T \subseteq Nat, T # {}
    PROVE  \E m \in T : \A k \in T : m <= k
<1> DEFINE U == {0 .. n : n \in T}
<1>1. \A n \in T : 0 .. n \in FiniteSubsetsOf(Nat)
  <2> TAKE n \in T
  <2>1. IsFiniteSet(0 .. n)
    BY FS_Interval
  <2> QED
    BY <2>1 DEF FiniteSubsetsOf
<1>2. U \subseteq FiniteSubsetsOf(Nat) /\ U # {}
  BY <1>1
<1>3. \E x \in U : \A y \in U : ~ (<<y, x>> \in StrictSubsetOrdering(Nat))
  <2> HIDE DEF U
  <2> QED
    BY <1>2, FS_StrictSubsetOrderingWellFounded, WFMin
<1>4. PICK m \in T :
        \A k \in T : ~ (<<0 .. k, 0 .. m>> \in StrictSubsetOrdering(Nat))
  BY <1>3
<1>5. \A k \in T : k < m => <<0 .. k, 0 .. m>> \in StrictSubsetOrdering(Nat)
  <2> TAKE k \in T
  <2> HAVE k < m
  <2>1. 0 .. k \subseteq 0 .. m /\ m \in 0 .. m /\ m \notin 0 .. k
    OBVIOUS
  <2> QED
    BY <2>1 DEF StrictSubsetOrdering
<1>6. \A k \in T : m <= k
  <2> TAKE k \in T
  <2>1. ~ (k < m)
    BY <1>4, <1>5
  <2> QED
    BY <2>1
<1> QED
  BY <1>6

LEMMA LeastOf ==
    ASSUME NEW M, M # {}, NEW f \in [M -> Nat]
    PROVE  \E i \in M : \A k \in M : f[i] <= f[k]
<1> DEFINE T == {f[i] : i \in M}
<1>1. T \subseteq Nat /\ T # {}
  OBVIOUS
<1> HIDE DEF T
<1>2. PICK m \in T : \A k \in T : m <= k
  BY <1>1, NatMin
<1> QED
  BY <1>2 DEF T

LEMMA GreatestOf ==
    ASSUME NEW M, M # {}, NEW f \in [M -> Nat], NEW B \in Nat,
           \A i \in M : f[i] <= B
    PROVE  \E i \in M : \A k \in M : f[k] <= f[i]
<1> DEFINE g == [i \in M |-> B - f[i]]
<1>1. g \in [M -> Nat]
  OBVIOUS
<1>2. \A i \in M : g[i] = B - f[i]
  OBVIOUS
<1> HIDE DEF g
<1>3. PICK i \in M : \A k \in M : g[i] <= g[k]
  BY <1>1, LeastOf
<1>4. \A k \in M : f[k] <= f[i]
  BY <1>2, <1>3
<1> QED
  BY <1>4

(***************************************************************************)
(* Stamps, rows, items and tickets                                          *)
(***************************************************************************)

LEMMA StampBounds ==
    /\ Stamps \subseteq Nat
    /\ \A m \in 0 .. Horizon : Minute(m) \in Stamps /\ Instant(m) \in Stamps
  BY CronAssumption DEF Stamps, Minute, Instant

LEMMA FirstRowIn ==
    ASSUME NEW R, R \subseteq Rows, R # {}
    PROVE  FirstRow(R) \in R
<1> DEFINE f == [r \in R |-> r.due]
<1>1. f \in [R -> Nat]
  BY StampBounds DEF Rows
<1>2. \A r \in R : f[r] = r.due
  OBVIOUS
<1> HIDE DEF f
<1>3. \E r \in R : \A q \in R : r.due <= q.due
  BY <1>1, <1>2, LeastOf
<1> QED
  BY <1>3 DEF FirstRow

LEMMA ItemFields ==
    ASSUME NEW i \in Items
    PROVE  /\ i.job \in Jobs /\ i.kind \in {"due", "retry"}
           /\ i.at \in Stamps /\ i.def \in Defs /\ i.occ \in Occurrences
           /\ i.active \in BOOLEAN
  BY DEF Items

LEMMA ScheduledNat ==
    ASSUME NEW i \in Items
    PROVE  /\ Scheduled(i) \in Nat
           /\ Scheduled(i) <= Instant(Horizon) + 2 * Delay[i.job]
<1>1. i.at \in 0 .. Instant(Horizon) /\ i.job \in Jobs
  BY DEF Items, Stamps
<1>2. Delay[i.job] \in Nat /\ Instant(Horizon) \in Nat
  BY <1>1, CronAssumption DEF Instant
<1> QED
  BY <1>1, <1>2 DEF Scheduled

LEMMA EarliestIn ==
    ASSUME NEW M, M \subseteq Items, M # {}
    PROVE  Earliest(M) \in M
<1> DEFINE f == [i \in M |-> Scheduled(i)]
<1>1. f \in [M -> Nat]
  BY ScheduledNat
<1>2. \A i \in M : f[i] = Scheduled(i)
  OBVIOUS
<1> HIDE DEF f
<1>3. \E i \in M : \A k \in M : Scheduled(i) <= Scheduled(k)
  BY <1>1, <1>2, LeastOf
<1> QED
  BY <1>3 DEF Earliest

LEMMA FirstIn ==
    ASSUME NEW M, M \subseteq Items, M # {}
    PROVE  First(M) \in M
<1> DEFINE A == {i \in M : i.active}
           C == IF A # {} THEN A ELSE M
<1>1. C \subseteq M /\ C # {}
  OBVIOUS
<1>2. First(M) = Earliest(C)
  BY DEF First, Earliest
<1> HIDE DEF C
<1> QED
  BY <1>1, <1>2, EarliestIn

LEMMA NewestIn ==
    ASSUME NEW M, M \subseteq Items, M # {}, NEW j \in Jobs,
           \A i \in M : i.job = j
    PROVE  Newest(M) \in M
<1> DEFINE f == [i \in M |-> Scheduled(i)]
           B == Instant(Horizon) + 2 * Delay[j]
<1>1. f \in [M -> Nat]
  BY ScheduledNat
<1>2. \A i \in M : f[i] = Scheduled(i)
  OBVIOUS
<1>3. B \in Nat
  BY CronAssumption DEF Instant
<1>4. \A i \in M : f[i] <= B
  BY <1>2, ScheduledNat
<1> HIDE DEF f, B
<1>5. \E i \in M : \A k \in M : f[k] <= f[i]
  BY <1>1, <1>3, <1>4, GreatestOf
<1>6. \E i \in M : \A k \in M : Scheduled(k) <= Scheduled(i)
  BY <1>2, <1>5
<1> QED
  BY <1>6 DEF Newest

LEMMA ItemsTyped ==
    ASSUME CronTypeOK, NEW j \in Jobs
    PROVE  /\ \A s \in Stamps, act \in BOOLEAN :
                /\ DueItem(j, s, act) \in Items
                /\ DueItem(j, s, act).job = j
                /\ DueItem(j, s, act).kind = "due"
           /\ RetryItem(j) \in Items /\ RetryItem(j).job = j
<1>1. def[j] \in Defs
  BY CronAssumption DEF CronTypeOK, Defs
<1>2. receipt[j].at \in Stamps /\ receipt[j].occ \in Occurrences
  BY DEF CronTypeOK, Receipts
<1>3. \A s \in Stamps : [def |-> def[j], at |-> s] \in Occurrences
  BY <1>1 DEF Occurrences
<1> QED
  BY <1>1, <1>2, <1>3 DEF DueItem, RetryItem, Items

LEMMA PersistedTyped ==
    ASSUME CronTypeOK, NEW j \in Jobs, NEW s \in Stamps
    PROVE  Persisted(j, s) \subseteq Rows
<1>1. rows[j] \subseteq Rows
  BY DEF CronTypeOK
<1>2. [due |-> s, status |-> "queued"] \in Rows
  BY DEF Rows
<1> QED
  BY <1>1, <1>2 DEF Persisted, WithStatus

LEMMA ClaimedRowsTyped ==
    ASSUME NEW R, R \subseteq Rows
    PROVE  ClaimedRows(R) \subseteq Rows
<1>1. CASE WithStatus(R, "queued") = {}
  BY <1>1 DEF ClaimedRows
<1>2. CASE WithStatus(R, "queued") # {}
  <2> DEFINE r == FirstRow(WithStatus(R, "queued"))
  <2>1. r \in Rows
    <3>1. WithStatus(R, "queued") \subseteq Rows
      BY DEF WithStatus
    <3> QED
      BY <1>2, <3>1, FirstRowIn
  <2>2. ClaimedRows(R) = (R \ {r}) \cup {[r EXCEPT !.status = "running"]}
    BY <1>2 DEF ClaimedRows
  <2> HIDE DEF r
  <2>3. [r EXCEPT !.status = "running"] \in Rows
    BY <2>1 DEF Rows
  <2> QED
    BY <2>2, <2>3
<1> QED
  BY <1>1, <1>2

LEMMA PoppedRowsTyped == \A R : PoppedRows(R) \subseteq R
  BY DEF PoppedRows

LEMMA RetryAtTyped == \A n : RetryAt(n) \in Stamps
<1>1. Instant(Horizon) \in Stamps
  BY StampBounds, CronAssumption
<1> QED
  BY <1>1 DEF RetryAt

LEMMA NoReceiptTyped == NoReceipt \in Receipts /\ NoReceipt.status = "none"
  BY CronAssumption DEF NoReceipt, Receipts, Occurrences, Defs, Stamps, Instant

\* A ticket is exhausted exactly when its attempts are used up.
LEMMA RescheduledSound ==
    ASSUME NEW rc \in Receipts, NEW o \in Occurrences
    PROVE  /\ Rescheduled(rc, o) \in Receipts
           /\ Rescheduled(rc, o).status = "exhausted" =>
                Rescheduled(rc, o).attempt >= MaxAttempts
           /\ Rescheduled(rc, o).occ = o
           /\ (/\ rc.status # "none" /\ rc.occ = o
               /\ rc.attempt >= MaxAttempts) =>
                Rescheduled(rc, o).status = "exhausted"
<1> DEFINE prior == IF rc.status # "none" /\ rc.occ = o THEN rc.attempt ELSE 0
<1>1. prior \in 0 .. MaxAttempts
  BY CronAssumption DEF Receipts
<1>2. Rescheduled(rc, o) =
        IF prior >= MaxAttempts
        THEN [status |-> "exhausted", attempt |-> prior, at |-> 0, occ |-> o]
        ELSE [status |-> "queued", attempt |-> prior + 1,
              at |-> RetryAt(prior + 1), occ |-> o]
  BY DEF Rescheduled
<1>3. 0 \in Stamps
  BY CronAssumption DEF Stamps, Instant
<1>4. CASE prior >= MaxAttempts
  BY <1>1, <1>2, <1>3, <1>4 DEF Receipts
<1>5. CASE ~ (prior >= MaxAttempts)
  <2>1. prior + 1 \in 0 .. MaxAttempts
    BY <1>1, <1>5, CronAssumption
  <2>2. RetryAt(prior + 1) \in Stamps
    BY RetryAtTyped
  <2>3. Rescheduled(rc, o) = [status |-> "queued", attempt |-> prior + 1,
                              at |-> RetryAt(prior + 1), occ |-> o]
    BY <1>2, <1>5
  <2>4. (rc.status # "none" /\ rc.occ = o) => ~ (rc.attempt >= MaxAttempts)
    BY <1>5
  <2> HIDE DEF prior
  <2> QED
    BY <2>1, <2>2, <2>3, <2>4 DEF Receipts
<1> QED
  BY <1>4, <1>5

\* Recording an outcome never makes a spent ticket live again.
LEMMA SettledSound ==
    ASSUME NEW rc \in Receipts, NEW outcome \in Outcomes
    PROVE  SettledReceipt(rc, outcome) \in {rc, NoReceipt}
<1>1. CASE outcome \in {"success", "wait"}
  BY <1>1 DEF SettledReceipt
<1>2. CASE outcome = "failed"
  BY <1>2 DEF SettledReceipt
<1>3. CASE outcome \in {"recoverable", "held"}
  BY <1>3 DEF SettledReceipt
<1> QED
  BY <1>1, <1>2, <1>3 DEF Outcomes

LEMMA ClaimedReceiptSound ==
    ASSUME NEW rc \in Receipts
    PROVE  /\ ClaimedReceipt(rc) \in Receipts
           /\ ClaimedReceipt(rc) = rc \/ ClaimedReceipt(rc).status = "running"
           /\ rc.status = "exhausted" => ClaimedReceipt(rc) = rc
  BY DEF ClaimedReceipt, Receipts

\* What _enqueue keeps is what was pending and the new item, which has then no
\* duplicate among them.
LEMMA EnqueuedSound ==
    ASSUME CronTypeOK, NEW i \in todo
    PROVE  /\ Enqueued(i).items \subseteq ItemsOf(mem, i.job) \cup {i}
           /\ Enqueued(i).item \in ItemsOf(mem, i.job) \cup {i}
           /\ \/ Enqueued(i).items = ItemsOf(mem, i.job)
              \/ \A k \in ItemsOf(mem, i.job) : Identity(k) # Identity(i)
<1> DEFINE old == ItemsOf(mem, i.job)
           active == {k \in old : k.active}
           queued == {k \in old : ~k.active} \cup (IF i.active THEN {} ELSE {i})
           collapsed == (IF active # {} THEN active ELSE {i})
                          \cup (IF queued = {} THEN {} ELSE {Newest(queued)})
           chosen == IF old # {} /\ (i.kind = "retry" \/ First(old).kind = "retry")
                     THEN Earliest(old \cup {i}) ELSE i
           twin == \E k \in old : Identity(k) = Identity(i)
<1>1. i \in Items /\ i.job \in Jobs
  BY ItemFields DEF CronTypeOK
<1>2. old \subseteq Items /\ \A k \in old : k.job = i.job
  BY DEF ItemsOf, CronTypeOK
<1>3. queued \subseteq old \cup {i}
  OBVIOUS
<1>4. queued # {} => Newest(queued) \in old \cup {i}
  <2> SUFFICES ASSUME queued # {} PROVE Newest(queued) \in queued
    BY <1>3
  <2>1. queued \subseteq Items /\ \A k \in queued : k.job = i.job
    BY <1>1, <1>2
  <2> HIDE DEF queued
  <2> QED
    BY <1>1, <2>1, NewestIn
<1>5. collapsed \subseteq old \cup {i}
  BY <1>3, <1>4
<1>6. chosen \in old \cup {i}
  <2> HIDE DEF old
  <2>1. Earliest(old \cup {i}) \in old \cup {i}
    BY <1>1, <1>2, EarliestIn
  <2> QED
    BY <2>1
<1>7. twin => First(old) \in old
  <2> HIDE DEF old
  <2> QED
    BY <1>2, FirstIn
<1>8. Enqueued(i) =
        IF twin THEN [items |-> old, item |-> First(old)]
        ELSE IF i.job \notin Coalescing
             THEN [items |-> old \cup {i}, item |-> i]
             ELSE IF active # {} \/ i.active
                  THEN [items |-> collapsed, item |-> i]
                  ELSE [items |-> {chosen}, item |-> chosen]
  BY DEF Enqueued
<1>9. (~twin) => \A k \in old : Identity(k) # Identity(i)
  OBVIOUS
<1> HIDE DEF old, active, queued, collapsed, chosen, twin
<1>10. /\ Enqueued(i).items \subseteq old \cup {i}
       /\ Enqueued(i).item \in old \cup {i}
       /\ Enqueued(i).items = old \/ ~twin
  <2>1. CASE twin
    BY <1>7, <1>8, <2>1
  <2>2. CASE ~twin /\ i.job \notin Coalescing
    BY <1>8, <2>2
  <2>3. CASE ~twin /\ i.job \in Coalescing /\ (active # {} \/ i.active)
    BY <1>5, <1>8, <2>3
  <2>4. CASE ~twin /\ i.job \in Coalescing /\ ~ (active # {} \/ i.active)
    BY <1>6, <1>8, <2>4
  <2> QED
    BY <2>1, <2>2, <2>3, <2>4
<1> QED
  BY <1>9, <1>10 DEF old

(***************************************************************************)
(* Types                                                                    *)
(***************************************************************************)

\* The variables only the owner writes, the durable ones and the threads.
OwnerTyped == /\ mode \in {"down", "up", "stopping", "draining"}
              /\ pc \in {"poll", "enqueue", "dispatch"}
              /\ catchup \in BOOLEAN
              /\ todo \subseteq Items /\ mem \subseteq Items
              /\ running \subseteq Jobs
DurableTyped == /\ rows \in [Jobs -> SUBSET Rows]
                /\ receipt \in [Jobs -> Receipts]
                /\ claim \in [Jobs -> [at : 0 .. Horizon, open : BOOLEAN]]
                /\ \A j \in Jobs : /\ evidence[j] \in 0 .. MaxDef[j]
                                   /\ begun[j] \in 0 .. MaxDef[j]
                /\ DOMAIN evidence = Jobs /\ DOMAIN begun = Jobs
WorldTyped == /\ clock \in 1 .. Horizon
              /\ \A j \in Jobs : def[j] \in 1 .. MaxDef[j]
              /\ DOMAIN def = Jobs
              /\ orphans \subseteq Jobs
              /\ restarts \in 0 .. MaxRestarts
ExecsTyped == execs \subseteq [item : Items, phase : Phases]

LEMMA TypeParts ==
    /\ CronTypeOK <=> OwnerTyped /\ DurableTyped /\ WorldTyped /\ ExecsTyped
    /\ CronTypeOK' <=>
         OwnerTyped' /\ DurableTyped' /\ WorldTyped' /\ ExecsTyped'
  BY DEF CronTypeOK, OwnerTyped, DurableTyped, WorldTyped, ExecsTyped

LEMMA SameOwner == ASSUME CronTypeOK, UNCHANGED owner PROVE OwnerTyped'
  BY TypeParts DEF OwnerTyped, owner

LEMMA SameDurable == ASSUME CronTypeOK, UNCHANGED durable PROVE DurableTyped'
  BY TypeParts DEF DurableTyped, durable

LEMMA SameWorld ==
    ASSUME CronTypeOK, UNCHANGED <<clock, def, orphans, restarts>>
    PROVE  WorldTyped'
  BY TypeParts DEF WorldTyped

LEMMA SameExecs == ASSUME CronTypeOK, UNCHANGED execs PROVE ExecsTyped'
  BY TypeParts DEF ExecsTyped

LEMMA FewerExecs ==
    ASSUME CronTypeOK, execs' \subseteq execs PROVE ExecsTyped'
  BY TypeParts DEF ExecsTyped

LEMMA AdvanceTyped ==
    ASSUME CronTypeOK, NEW e \in execs, NEW p \in Phases, Advance(e, p)
    PROVE  ExecsTyped'
<1>1. e \in [item : Items, phase : Phases]
  BY DEF CronTypeOK
<1>2. [e EXCEPT !.phase = p] \in [item : Items, phase : Phases]
  BY <1>1
<1> QED
  BY <1>2, TypeParts DEF ExecsTyped, Advance

LEMMA ExecFields ==
    ASSUME CronTypeOK, NEW e \in execs
    PROVE  /\ e.item \in Items /\ e.item.job \in Jobs /\ e.phase \in Phases
           /\ e.item.occ \in Occurrences
<1>1. e \in [item : Items, phase : Phases]
  BY DEF CronTypeOK
<1> QED
  BY <1>1, ItemFields

LEMMA RecordTyped ==
    ASSUME CronTypeOK, NEW j \in Jobs, NEW d, NEW outcome \in Outcomes,
           Record(j, d, outcome), UNCHANGED begun
    PROVE  DurableTyped'
<1>1. /\ rows \in [Jobs -> SUBSET Rows]
      /\ receipt \in [Jobs -> Receipts]
      /\ claim \in [Jobs -> [at : 0 .. Horizon, open : BOOLEAN]]
      /\ \A k \in Jobs : /\ evidence[k] \in 0 .. MaxDef[k]
                         /\ begun[k] \in 0 .. MaxDef[k]
                         /\ def[k] \in 1 .. MaxDef[k] /\ MaxDef[k] \in Nat
      /\ DOMAIN evidence = Jobs /\ DOMAIN begun = Jobs
  BY CronAssumption DEF CronTypeOK
<1>2. claim' \in [Jobs -> [at : 0 .. Horizon, open : BOOLEAN]]
  <2>1. claim' = [claim EXCEPT ![j] = [claim[j] EXCEPT !.open = FALSE]]
    BY DEF Record
  <2>2. [claim[j] EXCEPT !.open = FALSE] \in [at : 0 .. Horizon, open : BOOLEAN]
    BY <1>1
  <2> QED
    BY <1>1, <2>1, <2>2
<1>3. rows' \in [Jobs -> SUBSET Rows]
  <2>1. rows' = rows \/ rows' = [rows EXCEPT ![j] = PoppedRows(rows[j])]
    BY DEF Record
  <2>2. PoppedRows(rows[j]) \subseteq Rows
    BY <1>1, PoppedRowsTyped
  <2> QED
    BY <1>1, <2>1, <2>2
<1>4. receipt' \in [Jobs -> Receipts]
  <2>1. \/ receipt' = receipt
        \/ receipt' = [receipt EXCEPT ![j] = SettledReceipt(receipt[j], outcome)]
    BY DEF Record
  <2>2. SettledReceipt(receipt[j], outcome) \in Receipts
    BY <1>1, SettledSound, NoReceiptTyped
  <2> QED
    BY <1>1, <2>1, <2>2
<1>5. /\ \A k \in Jobs : evidence'[k] \in 0 .. MaxDef[k]
      /\ DOMAIN evidence' = Jobs
  <2>1. \/ evidence' = evidence
        \/ d = def[j] /\ evidence' = [evidence EXCEPT ![j] = d]
    BY DEF Record
  <2> QED
    BY <1>1, <2>1
<1> QED
  BY <1>1, <1>2, <1>3, <1>4, <1>5 DEF DurableTyped

LEMMA ReceiptTyped ==
    ASSUME CronTypeOK, NEW j \in Jobs
    PROVE  /\ receipt[j] \in Receipts /\ rows[j] \in SUBSET Rows
           /\ claim[j] \in [at : 0 .. Horizon, open : BOOLEAN]
           /\ def[j] \in Defs
  BY CronAssumption DEF CronTypeOK, Defs

LEMMA LostOccurrenceTyped ==
    ASSUME CronTypeOK, NEW j \in Jobs
    PROVE  LostOccurrence(j) \in Occurrences
<1>1. Instant(claim[j].at) \in Stamps
  BY ReceiptTyped, StampBounds
<1>2. CASE rows[j] = {}
  BY <1>1, <1>2, ReceiptTyped DEF LostOccurrence, Occurrences
<1>3. CASE rows[j] # {}
  <2>1. FirstRow(rows[j]).due \in Stamps
    BY <1>3, ReceiptTyped, FirstRowIn DEF Rows
  <2> QED
    BY <1>3, <2>1, ReceiptTyped DEF LostOccurrence, Occurrences
<1> QED
  BY <1>2, <1>3

\* What a new owner does to a ticket.
LEMMA StartReceipt ==
    ASSUME CronTypeOK, Start, NEW j \in Jobs
    PROVE  \/ receipt'[j] = receipt[j]
           \/ /\ receipt[j].status \in {"queued", "running"}
              /\ receipt'[j] = [receipt[j] EXCEPT !.status = "queued", !.at = Now]
           \/ receipt'[j] = Rescheduled(receipt[j], LostOccurrence(j))
<1>1. receipt'[j] = CASE Requeued(j) ->
                           [receipt[j] EXCEPT !.status = "queued", !.at = Now]
                      [] Lost(j) -> Rescheduled(receipt[j], LostOccurrence(j))
                      [] OTHER -> receipt[j]
  BY DEF Start
<1>2. Requeued(j) => ~Lost(j)
  BY DEF Lost
<1>3. Requeued(j) => receipt[j].status \in {"queued", "running"}
  BY DEF Requeued
<1> QED
  BY <1>1, <1>2, <1>3

LEMMA StartTyped == ASSUME CronTypeOK, Start PROVE CronTypeOK'
<1>1. ExecsTyped' /\ WorldTyped'
  BY SameExecs, SameWorld DEF Start
<1>2. OwnerTyped'
  <2>1. catchup' \in BOOLEAN
    BY Zenon DEF Start
  <2> QED
    BY <2>1, TypeParts DEF OwnerTyped, Start
<1>3. receipt' \in [Jobs -> Receipts]
  <2>1. \A j \in Jobs : receipt'[j] \in Receipts
    <3> TAKE j \in Jobs
    <3>1. Now \in Stamps
      BY StampBounds DEF Now, CronTypeOK
    <3>2. [receipt[j] EXCEPT !.status = "queued", !.at = Now] \in Receipts
      BY <3>1, ReceiptTyped DEF Receipts
    <3>3. Rescheduled(receipt[j], LostOccurrence(j)) \in Receipts
      BY ReceiptTyped, RescheduledSound, LostOccurrenceTyped
    <3>4. receipt[j] \in Receipts
      BY ReceiptTyped
    <3> QED
      BY <3>2, <3>3, <3>4, StartReceipt
  <2> DEFINE F(j) == CASE Requeued(j) ->
                            [receipt[j] EXCEPT !.status = "queued", !.at = Now]
                       [] Lost(j) -> Rescheduled(receipt[j], LostOccurrence(j))
                       [] OTHER -> receipt[j]
  <2>2. receipt' = [j \in Jobs |-> F(j)]
    BY DEF Start
  <2> HIDE DEF F
  <2>3. \A j \in Jobs : receipt'[j] = F(j)
    BY <2>2
  <2> QED
    BY <2>1, <2>2, <2>3
<1>4. rows' \in [Jobs -> SUBSET Rows]
  <2>1. rows' = [j \in Jobs |-> IF Closed(j) THEN PoppedRows(rows[j]) ELSE rows[j]]
    BY DEF Start
  <2>2. \A j \in Jobs : PoppedRows(rows[j]) \subseteq Rows /\ rows[j] \subseteq Rows
    BY ReceiptTyped, PoppedRowsTyped
  <2> QED
    BY <2>1, <2>2
<1>5. claim' \in [Jobs -> [at : 0 .. Horizon, open : BOOLEAN]]
  <2>1. claim' = [j \in Jobs |-> IF Closed(j) THEN [claim[j] EXCEPT !.open = FALSE]
                                 ELSE claim[j]]
    BY DEF Start
  <2>2. \A j \in Jobs :
           /\ claim[j] \in [at : 0 .. Horizon, open : BOOLEAN]
           /\ [claim[j] EXCEPT !.open = FALSE] \in
                [at : 0 .. Horizon, open : BOOLEAN]
    BY ReceiptTyped
  <2> QED
    BY <2>1, <2>2
<1>6. DurableTyped'
  BY <1>3, <1>4, <1>5, TypeParts DEF DurableTyped, Start
<1> QED
  BY <1>1, <1>2, <1>6, TypeParts

LEMMA LoadedTyped ==
    ASSUME CronTypeOK
    PROVE  /\ Retries \subseteq Items /\ DueNow \subseteq Items
           /\ \A j \in Jobs : Recovered(j) \subseteq Items
<1>1. clock \in 1 .. Horizon /\ Minute(clock) \in Stamps
  BY StampBounds DEF CronTypeOK
<1>2. Retries \subseteq Items
  BY ItemsTyped DEF Retries
<1>3. DueNow \subseteq Items
  BY <1>1, ItemsTyped DEF DueNow
<1>4. ASSUME NEW j \in Jobs PROVE Recovered(j) \subseteq Items
  <2>1. CASE rows[j] = {}
    <3>1. \A m \in Missed(j) : m \in 1 .. Horizon
      BY CronAssumption DEF Missed
    <3>2. \A m \in Missed(j) : Minute(m) \in Stamps
      BY <3>1, StampBounds
    <3>3. Recovered(j) = {DueItem(j, Minute(m), FALSE) : m \in Missed(j)}
      BY <2>1 DEF Recovered
    <3> QED
      BY <3>2, <3>3, ItemsTyped
  <2>2. CASE rows[j] # {}
    <3> DEFINE r == FirstRow(rows[j])
    <3>1. r.due \in Stamps
      BY <2>2, ReceiptTyped, FirstRowIn DEF Rows
    <3>2. Recovered(j) = {DueItem(j, r.due, r.status = "running")}
      BY <2>2 DEF Recovered
    <3> HIDE DEF r
    <3>3. (r.status = "running") \in BOOLEAN
      OBVIOUS
    <3> QED
      BY <3>1, <3>2, <3>3, ItemsTyped
  <2> QED
    BY <2>1, <2>2
<1> QED
  BY <1>2, <1>3, <1>4

LEMMA PollTyped == ASSUME CronTypeOK, Poll PROVE CronTypeOK'
<1>1. ExecsTyped' /\ WorldTyped'
  BY SameExecs, SameWorld DEF Poll
<1>2. todo' \subseteq Items
  <2> DEFINE regular == Retries \cup DueNow
             unseen == {j \in Jobs : ItemsOf(regular, j) = {}}
             missed == UNION {Recovered(j) : j \in unseen}
  <2>1. todo' \subseteq regular \cup missed
    BY DEF Poll
  <2>2. regular \subseteq Items
    BY LoadedTyped
  <2>3. missed \subseteq Items
    BY LoadedTyped
  <2> QED
    BY <2>1, <2>2, <2>3
<1>3. running' \subseteq Jobs /\ catchup' \in BOOLEAN
  <2>1. running' \subseteq Jobs
    BY DEF Poll, Live, CronTypeOK
  <2>2. catchup' \in BOOLEAN
    BY Zenon DEF Poll
  <2> QED
    BY <2>1, <2>2
<1>4. OwnerTyped'
  <2>1. /\ mode' = mode /\ pc' = "enqueue" /\ mem' = mem
    BY DEF Poll
  <2> QED
    BY <1>2, <1>3, <2>1, TypeParts DEF OwnerTyped
<1>5. DurableTyped'
  <2>1. receipt' \in [Jobs -> Receipts]
    BY ReceiptTyped, NoReceiptTyped DEF Poll
  <2> QED
    BY <2>1, TypeParts DEF DurableTyped, Poll
<1> QED
  BY <1>1, <1>4, <1>5, TypeParts

LEMMA RaiseTyped == ASSUME CronTypeOK, Raise PROVE OwnerTyped'
  BY TypeParts DEF Raise, OwnerTyped

LEMMA EnqueueTyped ==
    ASSUME CronTypeOK, NEW i \in todo, Enqueue(i) PROVE CronTypeOK'
<1>1. ExecsTyped' /\ WorldTyped'
  BY SameExecs, SameWorld DEF Enqueue
<1> DEFINE queued == Enqueued(i)
           s == queued.item.at
<1>2. i \in Items /\ i.job \in Jobs
  BY ItemFields DEF CronTypeOK
<1>3. queued.items \subseteq Items /\ s \in Stamps
  <2>1. ItemsOf(mem, i.job) \cup {i} \subseteq Items
    BY <1>2 DEF ItemsOf, CronTypeOK
  <2> QED
    BY <2>1, EnqueuedSound, ItemFields
<1>4. \/ UNCHANGED rows
      \/ rows' = [rows EXCEPT ![i.job] = Persisted(i.job, s)]
  BY DEF Enqueue
<1>5. \/ Raise
      \/ /\ UNCHANGED <<mode, pc, catchup, running>>
         /\ todo' \subseteq todo
         /\ mem' = mem \/ mem' = (mem \ ItemsOf(mem, i.job)) \cup queued.items
  BY DEF Enqueue
<1> HIDE DEF queued, s
<1>6. OwnerTyped'
  BY <1>3, <1>5, RaiseTyped, TypeParts DEF OwnerTyped
<1>7. rows' \in [Jobs -> SUBSET Rows]
  <2>1. Persisted(i.job, s) \in SUBSET Rows
    BY <1>2, <1>3, PersistedTyped
  <2>2. rows \in [Jobs -> SUBSET Rows]
    BY DEF CronTypeOK
  <2> QED
    BY <1>4, <2>1, <2>2
<1>8. DurableTyped'
  BY <1>7, TypeParts DEF DurableTyped, Enqueue
<1> QED
  BY <1>1, <1>6, <1>8, TypeParts

LEMMA SubmitTyped ==
    ASSUME CronTypeOK, NEW i \in mem, Submit(i) PROVE CronTypeOK'
<1>1. WorldTyped' /\ DurableTyped'
  BY SameWorld, SameDurable DEF Submit
<1>2. i \in Items /\ i.job \in Jobs
  BY ItemFields DEF CronTypeOK
<1>3. ExecsTyped'
  <2>1. [item |-> i, phase |-> "submitted"] \in [item : Items, phase : Phases]
    BY <1>2 DEF Phases
  <2> QED
    BY <2>1, TypeParts DEF ExecsTyped, Submit
<1>4. OwnerTyped'
  BY <1>2, TypeParts DEF OwnerTyped, Submit, Live
<1> QED
  BY <1>1, <1>3, <1>4, TypeParts

LEMMA LoopTyped ==
    ASSUME CronTypeOK, EnqueueDone \/ EndIteration PROVE CronTypeOK'
<1>1. WorldTyped' /\ DurableTyped' /\ ExecsTyped'
  BY SameWorld, SameDurable, SameExecs DEF EnqueueDone, EndIteration
<1>2. CASE EnqueueDone
  BY <1>1, <1>2, TypeParts DEF OwnerTyped, EnqueueDone
<1>3. CASE EndIteration
  <2>1. \/ Raise
        \/ /\ pc' = "poll" /\ running' = Live
           /\ UNCHANGED <<mode, catchup, todo, mem>>
    BY <1>3 DEF EndIteration
  <2>2. OwnerTyped'
    BY <2>1, RaiseTyped, TypeParts DEF OwnerTyped, Live
  <2> QED
    BY <1>1, <2>2, TypeParts
<1> QED
  BY <1>2, <1>3

LEMMA ClaimTyped ==
    ASSUME CronTypeOK, NEW e \in execs, Claim(e) PROVE CronTypeOK'
<1> DEFINE j == e.item.job
<1>1. j \in Jobs
  BY ExecFields
<1>2. OwnerTyped' /\ WorldTyped'
  BY SameOwner, SameWorld DEF Claim
<1>3. ExecsTyped'
  BY AdvanceTyped DEF Claim, Phases
<1>4. /\ ClaimedRows(rows[j]) \in SUBSET Rows
      /\ ClaimedReceipt(receipt[j]) \in Receipts
      /\ [at |-> clock, open |-> TRUE] \in [at : 0 .. Horizon, open : BOOLEAN]
  <2>1. clock \in 0 .. Horizon
    BY CronAssumption DEF CronTypeOK
  <2>2. TRUE \in BOOLEAN
    OBVIOUS
  <2>3. [at |-> clock, open |-> TRUE] \in [at : 0 .. Horizon, open : BOOLEAN]
    BY <2>1, <2>2
  <2> QED
    BY <1>1, <2>3, ReceiptTyped, ClaimedRowsTyped, ClaimedReceiptSound
<1>5. /\ rows' = [rows EXCEPT ![j] = ClaimedRows(rows[j])]
      /\ receipt' = [receipt EXCEPT ![j] = ClaimedReceipt(receipt[j])]
      /\ claim' = [claim EXCEPT ![j] = [at |-> clock, open |-> TRUE]]
      /\ UNCHANGED <<evidence, begun>>
  BY DEF Claim
<1>6. DurableTyped'
  <2> HIDE DEF j
  <2>1. rows \in [Jobs -> SUBSET Rows] /\ receipt \in [Jobs -> Receipts]
        /\ claim \in [Jobs -> [at : 0 .. Horizon, open : BOOLEAN]]
    BY DEF CronTypeOK
  <2>2. rows' \in [Jobs -> SUBSET Rows]
    BY <1>4, <1>5, <2>1
  <2>3. receipt' \in [Jobs -> Receipts]
    BY <1>4, <1>5, <2>1
  <2>4. claim' \in [Jobs -> [at : 0 .. Horizon, open : BOOLEAN]]
    BY <1>4, <1>5, <2>1
  <2> QED
    BY <1>5, <2>2, <2>3, <2>4, TypeParts DEF DurableTyped
<1> QED
  BY <1>2, <1>3, <1>6, TypeParts

LEMMA BeginTyped ==
    ASSUME CronTypeOK, NEW e \in execs, Begin(e) PROVE CronTypeOK'
<1>1. OwnerTyped' /\ WorldTyped'
  BY SameOwner, SameWorld DEF Begin
<1>2. ExecsTyped'
  BY AdvanceTyped DEF Begin, Phases
<1>3. e.item.job \in Jobs /\ e.item.def = def[e.item.job]
  BY ExecFields DEF Begin
<1>4. def[e.item.job] \in 0 .. MaxDef[e.item.job]
  BY <1>3, CronAssumption DEF CronTypeOK
<1>5. DurableTyped'
  BY <1>3, <1>4, TypeParts DEF DurableTyped, Begin
<1> QED
  BY <1>1, <1>2, <1>5, TypeParts

LEMMA EndedTyped ==
    ASSUME CronTypeOK, NEW e \in execs, Rejected(e) \/ Dropped(e) \/ Cancelled(e)
    PROVE  CronTypeOK'
<1>1. ExecsTyped'
  BY FewerExecs DEF Rejected, Dropped, Cancelled
<1>2. OwnerTyped' /\ WorldTyped' /\ DurableTyped'
  BY SameOwner, SameWorld, SameDurable DEF Rejected, Dropped, Cancelled
<1> QED
  BY <1>1, <1>2, TypeParts

LEMMA FinishTyped ==
    ASSUME CronTypeOK, NEW e \in execs,
           (\E o \in Outcomes : Finish(e, o)) \/ RecordRetry(e)
    PROVE  CronTypeOK'
<1>1. ExecsTyped'
  BY FewerExecs DEF Finish, RecordRetry
<1>2. OwnerTyped' /\ WorldTyped'
  BY SameOwner, SameWorld DEF Finish, RecordRetry
<1>3. PICK o \in Outcomes : Record(e.item.job, e.item.def, o)
  BY DEF Finish, RecordRetry, Outcomes
<1>4. DurableTyped'
  <2>1. e.item.job \in Jobs /\ UNCHANGED begun
    BY ExecFields DEF Finish, RecordRetry
  <2> QED
    BY <1>3, <2>1, RecordTyped
<1> QED
  BY <1>1, <1>2, <1>4, TypeParts

LEMMA ScheduleRetryTyped ==
    ASSUME CronTypeOK, NEW e \in execs, ScheduleRetry(e) PROVE CronTypeOK'
<1> DEFINE j == e.item.job
           new == Rescheduled(receipt[j], e.item.occ)
<1>1. ExecsTyped'
  BY AdvanceTyped DEF ScheduleRetry, Phases
<1>2. OwnerTyped' /\ WorldTyped'
  BY SameOwner, SameWorld DEF ScheduleRetry
<1>3. j \in Jobs /\ new \in Receipts
  BY ExecFields, ReceiptTyped, RescheduledSound
<1>4. receipt' = receipt \/ receipt' = [receipt EXCEPT ![j] = new]
  BY DEF ScheduleRetry
<1> HIDE DEF j, new
<1>5. receipt' \in [Jobs -> Receipts]
  BY <1>3, <1>4 DEF CronTypeOK
<1>6. DurableTyped'
  BY <1>5, TypeParts DEF DurableTyped, ScheduleRetry
<1> QED
  BY <1>1, <1>2, <1>6, TypeParts

LEMMA EnvironmentTyped ==
    ASSUME CronTypeOK,
           \/ Tick \/ (\E j \in Jobs : Reload(j)) \/ Kill \/ StopRequest
           \/ (\E j \in orphans : OrphanEnds(j)) \/ Release
    PROVE  CronTypeOK'
<1>1. CASE Tick
  <2>1. WorldTyped'
    BY <1>1, CronAssumption, TypeParts DEF WorldTyped, Tick
  <2> QED
    BY <1>1, <2>1, SameOwner, SameDurable, SameExecs, TypeParts DEF Tick
<1>2. CASE \E j \in Jobs : Reload(j)
  <2>1. PICK j \in Jobs : Reload(j)
    BY <1>2
  <2>2. WorldTyped'
    BY <2>1, CronAssumption, TypeParts DEF WorldTyped, Reload
  <2> QED
    BY <2>1, <2>2, SameOwner, SameDurable, SameExecs, TypeParts DEF Reload
<1>3. CASE Kill
  <2>1. OwnerTyped'
    BY <1>3, TypeParts DEF OwnerTyped, Kill
  <2>2. WorldTyped'
    BY <1>3, CronAssumption, TypeParts DEF WorldTyped, Kill
  <2>3. ExecsTyped'
    BY <1>3 DEF ExecsTyped, Kill
  <2> QED
    BY <1>3, <2>1, <2>2, <2>3, SameDurable, TypeParts DEF Kill
<1>4. CASE StopRequest
  <2>1. OwnerTyped'
    BY <1>4, TypeParts DEF OwnerTyped, StopRequest
  <2>2. WorldTyped'
    BY <1>4, CronAssumption, TypeParts DEF WorldTyped, StopRequest
  <2> QED
    BY <1>4, <2>1, <2>2, SameDurable, SameExecs, TypeParts DEF StopRequest
<1>5. CASE Release
  <2>1. OwnerTyped'
    BY <1>5, TypeParts DEF OwnerTyped, Release
  <2> QED
    BY <1>5, <2>1, SameWorld, SameDurable, SameExecs, TypeParts DEF Release
<1>6. CASE \E j \in orphans : OrphanEnds(j)
  <2>1. WorldTyped'
    BY <1>6, TypeParts DEF WorldTyped, OrphanEnds
  <2> QED
    BY <1>6, <2>1, SameOwner, SameDurable, SameExecs, TypeParts DEF OrphanEnds
<1> QED
  BY <1>1, <1>2, <1>3, <1>4, <1>5, <1>6

LEMMA InitTyped == Init => CronTypeOK
<1> SUFFICES ASSUME Init PROVE CronTypeOK
  OBVIOUS
<1>1. OwnerTyped
  <2>1. catchup \in BOOLEAN
    BY Zenon DEF Init
  <2> QED
    BY <2>1 DEF Init, OwnerTyped
<1>2. DurableTyped
  <2>1. claim \in [Jobs -> [at : 0 .. Horizon, open : BOOLEAN]]
    <3>1. FALSE \in BOOLEAN /\ 0 \in 0 .. Horizon
      BY CronAssumption
    <3>2. [at |-> 0, open |-> FALSE] \in [at : 0 .. Horizon, open : BOOLEAN]
      BY <3>1
    <3> QED
      BY <3>2 DEF Init
  <2>2. \A j \in Jobs : 0 \in 0 .. MaxDef[j]
    BY CronAssumption
  <2> QED
    BY <2>1, <2>2, NoReceiptTyped DEF Init, DurableTyped
<1>3. WorldTyped
  BY CronAssumption DEF Init, WorldTyped
<1>4. ExecsTyped
  BY DEF Init, ExecsTyped
<1> QED
  BY <1>1, <1>2, <1>3, <1>4, TypeParts

LEMMA NextTyped == CronTypeOK /\ [Next]_vars => CronTypeOK'
<1> SUFFICES ASSUME CronTypeOK, [Next]_vars PROVE CronTypeOK'
  OBVIOUS
<1>1. CASE OwnerStep
  BY <1>1, StartTyped, PollTyped, EnqueueTyped, SubmitTyped, LoopTyped,
     EnvironmentTyped DEF OwnerStep
<1>2. CASE \E e \in execs : ThreadStep(e)
  BY <1>2, ClaimTyped, BeginTyped, EndedTyped, FinishTyped, ScheduleRetryTyped
     DEF ThreadStep
<1>3. CASE \/ Tick \/ (\E j \in Jobs : Reload(j)) \/ Kill \/ StopRequest
           \/ (\E j \in orphans : OrphanEnds(j))
  BY <1>3, EnvironmentTyped
<1>4. CASE UNCHANGED vars
  BY <1>4, SameOwner, SameWorld, SameDurable, SameExecs, TypeParts
     DEF vars, owner, durable
<1> QED
  BY <1>1, <1>2, <1>3, <1>4 DEF Next

\* Every variable keeps its type, for any jobs, lanes and bounds: no attempt
\* number passes the bound of schedule_job_v3_retry on any path.
THEOREM CronTypeCorrect == CronSpec => []CronTypeOK
  BY InitTyped, NextTyped, PTL DEF CronSpec

(***************************************************************************)
(* Threads: how a step changes the set of threads at work                   *)
(***************************************************************************)

LEMMA BusyFinite ==
    ASSUME IsFiniteSet(execs), NEW L
    PROVE  IsFiniteSet(Busy(L))
<1> DEFINE S == {e.item.job : e \in execs}
           f == [e \in execs |-> e.item.job]
<1>1. IsFiniteSet(S)
  <2>1. f \in Surjection(execs, S)
    BY DEF Surjection
  <2> HIDE DEF f, S
  <2> QED
    BY <2>1, FS_Surjection
<1>2. Busy(L) \subseteq S
  BY DEF Busy
<1> QED
  BY <1>1, <1>2, FS_Subset

\* Fewer jobs at work take no more slots.
LEMMA FewerBusy ==
    ASSUME IsFiniteSet(execs), LaneCapacity,
           \A f \in execs' : \E e \in execs : e.item.job = f.item.job
    PROVE  LaneCapacity'
<1>1. ASSUME NEW L
      PROVE  /\ Busy(L)' \subseteq Busy(L)
             /\ Cardinality(Busy(L)) \in Nat /\ Cardinality(Busy(L)') \in Nat
             /\ Cardinality(Busy(L)') <= Cardinality(Busy(L))
  <2>1. Busy(L)' \subseteq Busy(L)
    BY DEF Busy
  <2>2. IsFiniteSet(Busy(L))
    BY BusyFinite
  <2> QED
    BY <2>1, <2>2, FS_Subset, FS_CardinalityType
<1>2. Cardinality(Busy(Lanes)') <= Workers
  BY <1>1, CronAssumption DEF LaneCapacity
<1>3. \A lane \in Lanes : Cardinality(Busy({lane})') <= LaneCap
  BY <1>1, CronAssumption DEF LaneCapacity
<1>4. Cardinality(Busy(HeavyLanes)') <= HeavyCap
  BY <1>1, CronAssumption DEF LaneCapacity
<1> QED
  BY <1>2, <1>3, <1>4 DEF LaneCapacity

\* A step that leaves the threads alone, whatever it does to the owner.
LEMMA ThreadsSame ==
    ASSUME Threads, UNCHANGED execs, OwnerKnows', DownIsIdle',
           \A e \in execs : claim'[e.item.job].open = claim[e.item.job].open
    PROVE  Threads'
<1>1. LaneCapacity'
  BY FewerBusy DEF Threads
<1>2. ClaimedIsOpen'
  BY DEF Threads, ClaimedIsOpen
<1>3. OneExecutionPerJob' /\ IsFiniteSet(execs')
  BY DEF Threads, OneExecutionPerJob
<1> QED
  BY <1>1, <1>2, <1>3 DEF Threads

\* A thread that ends, having closed at most its own job's dispatch.
LEMMA ThreadEnds ==
    ASSUME CronTypeOK, Threads, NEW e \in execs, execs' = execs \ {e},
           UNCHANGED <<mode, running>>,
           \A k \in Jobs : k # e.item.job => claim'[k] = claim[k]
    PROVE  Threads'
<1>1. IsFiniteSet(execs')
  BY FS_Subset DEF Threads
<1>2. LaneCapacity'
  BY FewerBusy DEF Threads
<1>3. OwnerKnows' /\ DownIsIdle' /\ OneExecutionPerJob'
  BY DEF Threads, OwnerKnows, DownIsIdle, OneExecutionPerJob
<1>4. ClaimedIsOpen'
  <2> SUFFICES ASSUME NEW f \in execs', f.phase # "submitted"
               PROVE  claim'[f.item.job].open
    BY DEF ClaimedIsOpen
  <2>1. f \in execs /\ f # e
    OBVIOUS
  <2>2. f.item.job # e.item.job /\ f.item.job \in Jobs
    BY <2>1, ExecFields DEF Threads, OneExecutionPerJob
  <2>3. claim[f.item.job].open
    BY <2>1 DEF Threads, ClaimedIsOpen
  <2> QED
    BY <2>2, <2>3
<1> QED
  BY <1>1, <1>2, <1>3, <1>4 DEF Threads

\* A thread that goes on, once its job's dispatch is open.
LEMMA ThreadMoves ==
    ASSUME CronTypeOK, Threads, NEW e \in execs, NEW p, Advance(e, p),
           UNCHANGED <<mode, running>>, claim'[e.item.job].open,
           \A k \in Jobs : k # e.item.job => claim'[k] = claim[k]
    PROVE  Threads'
<1> DEFINE n == [e EXCEPT !.phase = p]
<1>1. execs' = (execs \ {e}) \cup {n}
  BY DEF Advance
<1>2. n.item = e.item
  <2>1. e \in [item : Items, phase : Phases]
    BY DEF CronTypeOK
  <2> QED
    BY <2>1
<1> HIDE DEF n
<1>3. IsFiniteSet(execs')
  <2>1. IsFiniteSet(execs \ {e})
    BY FS_Subset DEF Threads
  <2> QED
    BY <1>1, <2>1, FS_AddElement
<1>4. LaneCapacity'
  BY <1>1, <1>2, FewerBusy DEF Threads
<1>5. OwnerKnows' /\ DownIsIdle'
  BY <1>1, <1>2 DEF Threads, OwnerKnows, DownIsIdle
<1>6. OneExecutionPerJob'
  BY <1>1, <1>2 DEF Threads, OneExecutionPerJob
<1>7. ClaimedIsOpen'
  <2> SUFFICES ASSUME NEW f \in execs', f.phase # "submitted"
               PROVE  claim'[f.item.job].open
    BY DEF ClaimedIsOpen
  <2>1. CASE f = n
    BY <1>2, <2>1
  <2>2. CASE f # n
    <3>1. f \in execs /\ f # e
      BY <1>1, <2>2
    <3>2. f.item.job # e.item.job /\ f.item.job \in Jobs
      BY <3>1, ExecFields DEF Threads, OneExecutionPerJob
    <3>3. claim[f.item.job].open
      BY <3>1 DEF Threads, ClaimedIsOpen
    <3> QED
      BY <3>2, <3>3
  <2> QED
    BY <2>1, <2>2
<1> QED
  BY <1>3, <1>4, <1>5, <1>6, <1>7 DEF Threads

\* No thread at work: every statement about threads holds.
LEMMA ThreadsNone ==
    ASSUME execs' = {} PROVE Threads'
<1>1. IsFiniteSet(execs')
  BY FS_EmptySet
<1>3. Cardinality({}) = 0
  BY FS_EmptySet
<1>4. /\ Cardinality(Busy(Lanes)') <= Workers
      /\ Cardinality(Busy(HeavyLanes)') <= HeavyCap
      /\ \A lane \in Lanes : Cardinality(Busy({lane})') <= LaneCap
  <2>1. /\ Busy(Lanes)' = {} /\ Busy(HeavyLanes)' = {}
        /\ \A lane \in Lanes : Busy({lane})' = {}
    BY DEF Busy
  <2>2. 0 <= Workers /\ 0 <= LaneCap /\ 0 <= HeavyCap
    BY CronAssumption
  <2> QED
    BY <1>3, <2>1, <2>2
<1>5. LaneCapacity'
  BY <1>4 DEF LaneCapacity
<1> QED
  BY <1>1, <1>5
     DEF Threads, OwnerKnows, DownIsIdle, OneExecutionPerJob, ClaimedIsOpen

\* While an owner is up, the futures it counts are the threads at work.
LEMMA LiveIsBusy ==
    ASSUME CronTypeOK, Threads, mode = "up"
    PROVE  /\ Live = Busy(Lanes)
           /\ \A L : {j \in Live : Lane[j] \in L} = Busy(L)
<1>1. \A e \in execs : e.item.job \in running /\ e.item.job \in Jobs
  BY ExecFields DEF Threads, OwnerKnows
<1>2. running \subseteq Jobs /\ \A j \in Jobs : Lane[j] \in Lanes
  BY CronAssumption DEF CronTypeOK
<1> QED
  BY <1>1, <1>2 DEF Live, Busy

LEMMA SubmitThreads ==
    ASSUME CronTypeOK, Threads, NEW i \in mem, Submit(i)
    PROVE  Threads'
<1> DEFINE j == i.job
           n == [item |-> i, phase |-> "submitted"]
<1>1. /\ mode = "up" /\ mode' = mode /\ claim' = claim
      /\ j \notin Live /\ CanStartLane(Lane[j], Live)
      /\ running' = Live \cup {j} /\ execs' = execs \cup {n}
  BY DEF Submit, Eligible, durable
<1>2. n.item = i /\ n.item.job = j /\ n.phase = "submitted"
  OBVIOUS
<1>3. j \in Jobs /\ Lane[j] \in Lanes
  BY ItemFields, CronAssumption DEF CronTypeOK
<1>4. \A e \in execs : e.item.job # j
  BY <1>1, LiveIsBusy, <1>3, ExecFields DEF Busy
<1> HIDE DEF n
<1>5. IsFiniteSet(execs')
  BY <1>1, FS_AddElement DEF Threads
<1>6. OwnerKnows'
  <2>1. \A e \in execs : e.item.job \in Live
    BY <1>1, ExecFields DEF Live, Threads, OwnerKnows
  <2> QED
    BY <1>1, <1>2, <2>1 DEF OwnerKnows
<1>7. DownIsIdle'
  BY <1>1 DEF DownIsIdle
<1>8. OneExecutionPerJob'
  BY <1>1, <1>2, <1>4 DEF Threads, OneExecutionPerJob
<1>9. ClaimedIsOpen'
  BY <1>1, <1>2 DEF Threads, ClaimedIsOpen
<1>10. LaneCapacity'
  <2>1. ASSUME NEW L
        PROVE  /\ Cardinality(Busy(L)) \in Nat
               /\ (Lane[j] \notin L) => Busy(L)' = Busy(L)
               /\ (Lane[j] \in L) =>
                    Cardinality(Busy(L)') = Cardinality(Busy(L)) + 1
    <3>1. IsFiniteSet(Busy(L))
      BY BusyFinite DEF Threads
    <3>2. (Lane[j] \notin L) => Busy(L)' = Busy(L)
      BY <1>1, <1>2 DEF Busy
    <3>3. (Lane[j] \in L) => Busy(L)' = Busy(L) \cup {j}
      BY <1>1, <1>2, <1>3 DEF Busy
    <3>4. j \notin Busy(L)
      BY <1>4 DEF Busy
    <3> QED
      BY <3>1, <3>2, <3>3, <3>4, FS_AddElement, FS_CardinalityType
  <2>2. /\ Cardinality(Busy(Lanes)) < Workers
        /\ Cardinality(Busy({Lane[j]})) < LaneCap
        /\ Lane[j] \in HeavyLanes => Cardinality(Busy(HeavyLanes)) < HeavyCap
    <3>1. /\ Live = Busy(Lanes)
          /\ {k \in Live : Lane[k] \in {Lane[j]}} = Busy({Lane[j]})
          /\ {k \in Live : Lane[k] \in HeavyLanes} = Busy(HeavyLanes)
      BY <1>1, LiveIsBusy
    <3>2. {k \in Live : Lane[k] = Lane[j]} = Busy({Lane[j]})
      BY <3>1
    <3> QED
      BY <1>1, <3>1, <3>2 DEF CanStartLane
  <2>3. Workers \in Nat /\ LaneCap \in Nat /\ HeavyCap \in Nat
    BY CronAssumption
  <2>4. Cardinality(Busy(Lanes)') <= Workers
    BY <1>3, <2>1, <2>2, <2>3
  <2>5. Cardinality(Busy(HeavyLanes)') <= HeavyCap
    <3>1. CASE Lane[j] \in HeavyLanes
      BY <3>1, <2>1, <2>2, <2>3
    <3>2. CASE Lane[j] \notin HeavyLanes
      BY <3>2, <2>1 DEF Threads, LaneCapacity
    <3> QED
      BY <3>1, <3>2
  <2>6. ASSUME NEW lane \in Lanes PROVE Cardinality(Busy({lane})') <= LaneCap
    <3>1. CASE Lane[j] = lane
      BY <3>1, <2>1, <2>2, <2>3
    <3>2. CASE Lane[j] # lane
      BY <3>2, <2>1 DEF Threads, LaneCapacity
    <3> QED
      BY <3>1, <3>2
  <2> QED
    BY <2>4, <2>5, <2>6 DEF LaneCapacity
<1> QED
  BY <1>5, <1>6, <1>7, <1>8, <1>9, <1>10 DEF Threads

LEMMA OwnerThreads == ASSUME CronTypeOK, Threads, OwnerStep PROVE Threads'
<1>1. CASE Start
  <2>1. execs' = {}
    BY <1>1 DEF Start, Threads, DownIsIdle
  <2> QED
    BY <2>1, ThreadsNone
<1>2. CASE Poll
  <2>1. OwnerKnows' /\ DownIsIdle' /\ UNCHANGED <<execs, claim>>
    BY <1>2 DEF Poll, Live, Threads, OwnerKnows, DownIsIdle
  <2> QED
    BY <2>1, ThreadsSame
<1>3. CASE \E i \in todo : Enqueue(i)
  <2>1. \/ Raise
        \/ UNCHANGED <<mode, running>>
    BY <1>3 DEF Enqueue
  <2>2. UNCHANGED <<execs, claim>> /\ mode = "up"
    BY <1>3 DEF Enqueue
  <2>3. OwnerKnows' /\ DownIsIdle'
    BY <2>1, <2>2 DEF Raise, Threads, OwnerKnows, DownIsIdle
  <2> QED
    BY <2>2, <2>3, ThreadsSame
<1>4. CASE EnqueueDone
  <2>1. OwnerKnows' /\ DownIsIdle' /\ UNCHANGED <<execs, claim>>
    BY <1>4 DEF EnqueueDone, durable, Threads, OwnerKnows, DownIsIdle
  <2> QED
    BY <2>1, ThreadsSame
<1>5. CASE \E i \in mem : Submit(i)
  BY <1>5, SubmitThreads
<1>6. CASE EndIteration
  <2>1. \/ Raise
        \/ UNCHANGED mode /\ running' = Live
    BY <1>6 DEF EndIteration
  <2>2. UNCHANGED <<execs, claim>> /\ mode = "up"
    BY <1>6 DEF EndIteration, durable
  <2>3. OwnerKnows' /\ DownIsIdle'
    BY <2>1, <2>2 DEF Raise, Live, Threads, OwnerKnows, DownIsIdle
  <2> QED
    BY <2>2, <2>3, ThreadsSame
<1>7. CASE Release
  <2>1. execs' = {}
    BY <1>7 DEF Release
  <2> QED
    BY <2>1, ThreadsNone
<1> QED
  BY <1>1, <1>2, <1>3, <1>4, <1>5, <1>6, <1>7 DEF OwnerStep

\* What mark_job_result leaves of the other jobs' dispatches.
LEMMA RecordClaim ==
    ASSUME CronTypeOK, NEW j \in Jobs, NEW d, NEW o, Record(j, d, o)
    PROVE  \A k \in Jobs : k # j => claim'[k] = claim[k]
<1>1. claim' = [claim EXCEPT ![j] = [claim[j] EXCEPT !.open = FALSE]]
  BY DEF Record
<1>2. DOMAIN claim = Jobs
  BY DEF CronTypeOK
<1> QED
  BY <1>1, <1>2

LEMMA ThreadThreads ==
    ASSUME CronTypeOK, Threads, NEW e \in execs, ThreadStep(e) PROVE Threads'
<1>1. e.item.job \in Jobs /\ DOMAIN claim = Jobs
  BY ExecFields DEF CronTypeOK
<1>2. CASE Claim(e)
  <2>1. claim' = [claim EXCEPT ![e.item.job] = [at |-> clock, open |-> TRUE]]
    BY <1>2 DEF Claim
  <2>2. Advance(e, "claimed") /\ UNCHANGED <<mode, running>>
    BY <1>2 DEF Claim, owner
  <2> QED
    BY <1>1, <2>1, <2>2, ThreadMoves
<1>3. CASE Begin(e) \/ ScheduleRetry(e)
  <2>1. /\ claim' = claim /\ UNCHANGED <<mode, running>>
        /\ e.phase # "submitted" /\ \E p \in Phases : Advance(e, p)
    BY <1>3 DEF Begin, ScheduleRetry, owner, Phases
  <2>2. claim'[e.item.job].open
    BY <2>1 DEF Threads, ClaimedIsOpen
  <2> QED
    BY <2>1, <2>2, ThreadMoves
<1>4. CASE Rejected(e) \/ Dropped(e) \/ Cancelled(e)
  <2>1. execs' = execs \ {e} /\ claim' = claim /\ UNCHANGED <<mode, running>>
    BY <1>4 DEF Rejected, Dropped, Cancelled, owner, durable
  <2> QED
    BY <2>1, ThreadEnds
<1>5. CASE (\E o \in Outcomes : Finish(e, o)) \/ RecordRetry(e)
  <2>1. execs' = execs \ {e} /\ UNCHANGED <<mode, running>>
    BY <1>5 DEF Finish, RecordRetry, owner
  <2>2. \A k \in Jobs : k # e.item.job => claim'[k] = claim[k]
    BY <1>1, <1>5, RecordClaim DEF Finish, RecordRetry
  <2> QED
    BY <2>1, <2>2, ThreadEnds
<1> QED
  BY <1>2, <1>3, <1>4, <1>5 DEF ThreadStep

LEMMA EnvironmentThreads ==
    ASSUME CronTypeOK, Threads,
           \/ Tick \/ (\E j \in Jobs : Reload(j)) \/ Kill \/ StopRequest
           \/ (\E j \in orphans : OrphanEnds(j))
    PROVE  Threads'
<1>1. CASE Kill
  BY <1>1, ThreadsNone DEF Kill
<1>2. CASE \/ Tick \/ (\E j \in Jobs : Reload(j)) \/ StopRequest
           \/ (\E j \in orphans : OrphanEnds(j))
  <2>1. UNCHANGED <<execs, claim>>
    BY <1>2 DEF Tick, Reload, StopRequest, OrphanEnds, durable
  <2>2. OwnerKnows' /\ DownIsIdle'
    BY <1>2 DEF Tick, Reload, StopRequest, OrphanEnds, owner, Threads, OwnerKnows,
                DownIsIdle
  <2> QED
    BY <2>1, <2>2, ThreadsSame
<1> QED
  BY <1>1, <1>2

(***************************************************************************)
(* Pending retries                                                          *)
(***************************************************************************)

\* Dropping pending items and threads disturbs nothing about pending retries,
\* and neither does a thread that goes on with the item it has.
LEMMA PendingFewer ==
    ASSUME Pending, mem' \subseteq mem,
           \A f \in execs' : \E e \in execs : f.item = e.item
    PROVE  Pending'
  BY DEF Pending, OnePerIdentity, RunningRetryNotRequeued

LEMMA EnqueuePending ==
    ASSUME CronTypeOK, Threads, Pending, NEW i \in todo, Enqueue(i)
    PROVE  Pending'
<1> DEFINE old == ItemsOf(mem, i.job)
           kept == Enqueued(i).items
<1>1. \/ mem' \subseteq mem
      \/ ~AlreadyRunning(i) /\ mem' = (mem \ old) \cup kept
  BY DEF Enqueue, Raise
<1>2. mode = "up" /\ UNCHANGED execs
  BY DEF Enqueue
<1>3. CASE mem' \subseteq mem
  BY <1>2, <1>3, PendingFewer
<1>4. CASE ~AlreadyRunning(i) /\ mem' = (mem \ old) \cup kept
  <2>1. /\ kept \subseteq old \cup {i}
        /\ kept = old \/ \A k \in old : Identity(k) # Identity(i)
    BY EnqueuedSound
  <2>2. \A k \in old : k \in mem /\ k.job = i.job
    BY DEF ItemsOf
  <2>3. \A k \in mem : k.job = i.job => k \in old
    BY DEF ItemsOf
  <2>4. mem' \subseteq mem \cup {i}
    BY <1>4, <2>1, <2>2
  <2>5. ASSUME NEW k \in mem, k \in mem', k.job = i.job, k.occ = i.occ,
               k.kind = "retry", i.kind = "retry"
        PROVE  k = i \/ mem' \subseteq mem
    <3>1. Identity(k) = Identity(i) /\ k \in old
      BY <2>3, <2>5 DEF Identity
    <3>2. kept = old
      BY <2>1, <3>1
    <3> QED
      BY <1>4, <2>2, <3>2
  <2>6. OnePerIdentity'
    <3> SUFFICES ASSUME NEW k \in mem', NEW l \in mem',
                        k.job = l.job, k.occ = l.occ,
                        k.kind = "retry", l.kind = "retry"
                 PROVE  k = l
      BY DEF OnePerIdentity
    <3>1. CASE k \in mem /\ l \in mem
      BY <3>1 DEF Pending, OnePerIdentity
    <3>2. CASE ~ (k \in mem /\ l \in mem)
      <4>1. k = i \/ l = i
        BY <2>4, <3>2
      <4>2. ~ (mem' \subseteq mem)
        BY <3>2
      <4> QED
        BY <2>4, <2>5, <4>1, <4>2
    <3> QED
      BY <3>1, <3>2
  <2>7. RunningRetryNotRequeued'
    <3> SUFFICES ASSUME NEW e \in execs, e.item.kind = "retry",
                        NEW k \in mem', k.job = e.item.job, k.kind = "retry",
                        k.occ = e.item.occ
                 PROVE  FALSE
      BY <1>2 DEF RunningRetryNotRequeued
    <3>1. CASE k \in mem
      BY <3>1 DEF Pending, RunningRetryNotRequeued
    <3>2. CASE k = i
      <4>1. e.item.job \in running
        BY <1>2 DEF Threads, OwnerKnows
      <4> QED
        BY <1>4, <3>2, <4>1 DEF AlreadyRunning
    <3> QED
      BY <2>4, <3>1, <3>2
  <2> QED
    BY <2>6, <2>7 DEF Pending
<1> QED
  BY <1>1, <1>3, <1>4

LEMMA SubmitPending ==
    ASSUME Pending, NEW i \in mem, Submit(i) PROVE Pending'
<1>1. mem' = mem \ {i} /\ execs' = execs \cup {[item |-> i, phase |-> "submitted"]}
  BY DEF Submit
<1>2. OnePerIdentity'
  BY <1>1 DEF Pending, OnePerIdentity
<1>3. RunningRetryNotRequeued'
  <2> SUFFICES ASSUME NEW e \in execs', e.item.kind = "retry",
                      NEW k \in mem', k.job = e.item.job, k.kind = "retry",
                      k.occ = e.item.occ
               PROVE  FALSE
    BY DEF RunningRetryNotRequeued
  <2>1. k \in mem /\ k # i
    BY <1>1
  <2>2. CASE e \in execs
    BY <2>1, <2>2 DEF Pending, RunningRetryNotRequeued
  <2>3. CASE e.item = i
    BY <2>1, <2>3 DEF Pending, OnePerIdentity
  <2> QED
    BY <1>1, <2>2, <2>3
<1> QED
  BY <1>2, <1>3 DEF Pending

LEMMA ThreadPending ==
    ASSUME CronTypeOK, Pending, NEW e \in execs, ThreadStep(e) PROVE Pending'
<1>1. mem' = mem
  BY DEF ThreadStep, Claim, Begin, Rejected, Finish, ScheduleRetry,
         RecordRetry, Dropped, Cancelled, owner
<1>2. execs' = execs \ {e} \/ \E p \in Phases : Advance(e, p)
  BY DEF ThreadStep, Claim, Begin, Rejected, Finish, ScheduleRetry,
         RecordRetry, Dropped, Cancelled, Phases
<1>3. \A f \in execs' : \E g \in execs : f.item = g.item
  <2>1. CASE execs' = execs \ {e}
    BY <2>1
  <2>2. CASE \E p \in Phases : Advance(e, p)
    <3>1. PICK p \in Phases : execs' = (execs \ {e}) \cup {[e EXCEPT !.phase = p]}
      BY <2>2 DEF Advance
    <3>2. [e EXCEPT !.phase = p].item = e.item
      <4>1. e \in [item : Items, phase : Phases]
        BY DEF CronTypeOK
      <4> QED
        BY <4>1
    <3> QED
      BY <3>1, <3>2
  <2> QED
    BY <1>2, <2>1, <2>2
<1> QED
  BY <1>1, <1>3, PendingFewer

LEMMA NextPending ==
    ASSUME CronTypeOK, Threads, Pending, [Next]_vars PROVE Pending'
<1>1. CASE \E i \in todo : Enqueue(i)
  BY <1>1, EnqueuePending
<1>2. CASE \E i \in mem : Submit(i)
  BY <1>2, SubmitPending
<1>3. CASE \E e \in execs : ThreadStep(e)
  BY <1>3, ThreadPending
<1>4. CASE \/ Start \/ Poll \/ EnqueueDone \/ EndIteration \/ Release
           \/ Tick \/ (\E j \in Jobs : Reload(j)) \/ Kill \/ StopRequest
           \/ (\E j \in orphans : OrphanEnds(j)) \/ UNCHANGED vars
  <2>1. mem' \subseteq mem
    BY <1>4 DEF Start, Poll, EnqueueDone, EndIteration, Raise, Release, Tick,
                Reload, Kill, StopRequest, OrphanEnds, owner, vars
  <2>2. execs' \subseteq execs
    BY <1>4 DEF Start, Poll, EnqueueDone, EndIteration, Release, Tick,
                Reload, Kill, StopRequest, OrphanEnds, vars
  <2> QED
    BY <2>1, <2>2, PendingFewer
<1> QED
  BY <1>1, <1>2, <1>3, <1>4 DEF Next, OwnerStep

(***************************************************************************)
(* Tickets                                                                  *)
(***************************************************************************)

\* The three things a step may do to a job's ticket: clear it, renew it with
\* its attempts kept, or count one more attempt of some occurrence.
LEMMA ReceiptStep ==
    ASSUME CronTypeOK, [Next]_vars, NEW j \in Jobs
    PROVE  \/ receipt'[j] \in {receipt[j], NoReceipt}
           \/ /\ receipt[j].status \in {"queued", "running"}
              /\ receipt'[j].status \in {"queued", "running"}
           \/ \E o \in Occurrences : receipt'[j] = Rescheduled(receipt[j], o)
<1>1. DOMAIN receipt = Jobs /\ receipt[j] \in Receipts
  BY DEF CronTypeOK
<1>2. CASE Start
  <2>1. [receipt[j] EXCEPT !.status = "queued", !.at = Now].status = "queued"
    BY <1>1 DEF Receipts
  <2> QED
    BY <1>2, <2>1, StartReceipt, LostOccurrenceTyped
<1>3. CASE Poll
  BY <1>3 DEF Poll
<1>4. CASE \E e \in execs : Claim(e)
  <2>1. PICK e \in execs : Claim(e)
    BY <1>4
  <2>2. receipt' = [receipt EXCEPT
                      ![e.item.job] = ClaimedReceipt(receipt[e.item.job])]
    BY <2>1 DEF Claim
  <2>3. receipt'[j] = receipt[j] \/ receipt'[j] = ClaimedReceipt(receipt[j])
    BY <1>1, <2>2
  <2>4. \/ ClaimedReceipt(receipt[j]) = receipt[j]
        \/ /\ receipt[j].status = "queued"
           /\ ClaimedReceipt(receipt[j]).status = "running"
    BY <1>1 DEF ClaimedReceipt, Receipts
  <2> QED
    BY <2>3, <2>4
<1>5. CASE \E e \in execs : (\E o \in Outcomes : Finish(e, o)) \/ RecordRetry(e)
  <2>1. PICK e \in execs, o \in Outcomes : Record(e.item.job, e.item.def, o)
    BY <1>5 DEF Finish, RecordRetry, Outcomes
  <2>2. \/ receipt' = receipt
        \/ receipt' = [receipt EXCEPT
              ![e.item.job] = SettledReceipt(receipt[e.item.job], o)]
    BY <2>1 DEF Record
  <2>3. receipt'[j] = receipt[j] \/ receipt'[j] = SettledReceipt(receipt[j], o)
    BY <1>1, <2>2
  <2> QED
    BY <1>1, <2>3, SettledSound
<1>6. CASE \E e \in execs : ScheduleRetry(e)
  <2>1. PICK e \in execs : ScheduleRetry(e)
    BY <1>6
  <2>2. \/ receipt' = receipt
        \/ receipt' = [receipt EXCEPT
              ![e.item.job] = Rescheduled(receipt[e.item.job], e.item.occ)]
    BY <2>1 DEF ScheduleRetry
  <2>3. \/ receipt'[j] = receipt[j]
        \/ receipt'[j] = Rescheduled(receipt[j], e.item.occ)
    BY <1>1, <2>2
  <2>4. e.item.occ \in Occurrences
    BY ExecFields
  <2> QED
    BY <2>3, <2>4
<1>7. CASE \/ (\E i \in todo : Enqueue(i)) \/ EnqueueDone
           \/ (\E i \in mem : Submit(i)) \/ EndIteration \/ Release
           \/ (\E e \in execs : \/ Begin(e) \/ Rejected(e)
                                \/ Dropped(e) \/ Cancelled(e))
           \/ Tick \/ (\E k \in Jobs : Reload(k)) \/ Kill \/ StopRequest
           \/ (\E k \in orphans : OrphanEnds(k)) \/ UNCHANGED vars
  <2>1. receipt' = receipt
    BY <1>7 DEF Enqueue, EnqueueDone, Submit, EndIteration, Release, Begin,
                Rejected, Dropped, Cancelled, Tick, Reload, Kill, StopRequest,
                OrphanEnds, durable, vars
  <2> QED
    BY <2>1
<1> QED
  BY <1>2, <1>3, <1>4, <1>5, <1>6, <1>7 DEF Next, OwnerStep, ThreadStep

LEMMA NextSpent ==
    ASSUME CronTypeOK, SpentExhausted, [Next]_vars PROVE SpentExhausted'
<1> SUFFICES ASSUME NEW j \in Jobs, receipt'[j].status = "exhausted"
             PROVE  receipt'[j].attempt >= MaxAttempts
  BY DEF SpentExhausted
<1>1. receipt[j] \in Receipts
  BY ReceiptTyped
<1>2. CASE receipt'[j] \in {receipt[j], NoReceipt}
  BY <1>2, NoReceiptTyped DEF SpentExhausted
<1>3. CASE \E o \in Occurrences : receipt'[j] = Rescheduled(receipt[j], o)
  BY <1>1, <1>3, RescheduledSound
<1> QED
  BY <1>2, <1>3, ReceiptStep

(***************************************************************************)
(* The theorems                                                             *)
(***************************************************************************)

LEMMA InitInvariant == Init => IInv
<1> SUFFICES ASSUME Init PROVE IInv
  OBVIOUS
<1>1. Threads
  <2>1. execs = {}
    BY DEF Init
  <2>2. IsFiniteSet(execs)
    BY <2>1, FS_EmptySet
  <2>3. LaneCapacity
    <3>1. /\ Busy(Lanes) = {} /\ Busy(HeavyLanes) = {}
          /\ \A lane \in Lanes : Busy({lane}) = {}
      BY <2>1 DEF Busy
    <3>2. Cardinality({}) = 0
      BY FS_EmptySet
    <3>3. 0 <= Workers /\ 0 <= LaneCap /\ 0 <= HeavyCap
      BY CronAssumption
    <3> QED
      BY <3>1, <3>2, <3>3 DEF LaneCapacity
  <2> QED
    BY <2>1, <2>2, <2>3
       DEF Threads, OwnerKnows, DownIsIdle, OneExecutionPerJob, ClaimedIsOpen
<1>2. Pending
  BY DEF Init, Pending, OnePerIdentity, RunningRetryNotRequeued
<1>3. SpentExhausted
  BY NoReceiptTyped DEF Init, SpentExhausted
<1> QED
  BY <1>1, <1>2, <1>3, InitTyped DEF IInv

LEMMA NextInvariant == IInv /\ [Next]_vars => IInv'
<1> SUFFICES ASSUME IInv, [Next]_vars PROVE IInv'
  OBVIOUS
<1>1. CronTypeOK /\ Threads /\ Pending /\ SpentExhausted
  BY DEF IInv
<1>2. Threads'
  <2>1. CASE UNCHANGED vars
    <3>1. UNCHANGED <<execs, claim, mode, running>>
      BY <2>1 DEF vars
    <3>2. OwnerKnows' /\ DownIsIdle'
      BY <1>1, <3>1 DEF Threads, OwnerKnows, DownIsIdle
    <3> QED
      BY <1>1, <3>1, <3>2, ThreadsSame
  <2> QED
    BY <1>1, <2>1, OwnerThreads, ThreadThreads, EnvironmentThreads DEF Next
<1> QED
  BY <1>1, <1>2, NextTyped, NextPending, NextSpent DEF IInv

\* The inductive invariant of the owner and its threads.
THEOREM CronInvariance == CronSpec => []IInv
  BY InitInvariant, NextInvariant, PTL DEF CronSpec

\* No lane, no heavy budget and no executor is ever overbooked by the threads
\* of any number of owners that raise, are stopped or are killed; the orphans
\* of a killed one are not counted.
THEOREM LanesHold == CronSpec => []LaneCapacity
<1>1. IInv => LaneCapacity
  BY DEF IInv, Threads
<1> QED
  BY <1>1, CronInvariance, PTL

\* No job has two executions that an owner answers for, over any number of
\* owners that raise or are stopped: the next one finds no thread of the last
\* one at work.  An orphan, left by an owner that was killed, is none of these.
THEOREM JobsRunOnce == CronSpec => []OneExecutionPerJob
<1>1. IInv => OneExecutionPerJob
  BY DEF IInv, Threads
<1> QED
  BY <1>1, CronInvariance, PTL

\* What is at work can be reconciled from the durable state at any moment.
THEOREM ClaimsAreOpen == CronSpec => []ClaimedIsOpen
<1>1. IInv => ClaimedIsOpen
  BY DEF IInv, Threads
<1> QED
  BY <1>1, CronInvariance, PTL

\* The retry that is being run is not pending a second time.
THEOREM RunningRetriesNotPending == CronSpec => []RunningRetryNotRequeued
<1>1. IInv => RunningRetryNotRequeued
  BY DEF IInv, Pending
<1> QED
  BY <1>1, CronInvariance, PTL

\* An occurrence whose attempts are used up is never queued again.
THEOREM ExhaustedStaysExhausted == CronSpec => ExhaustedIsFinal
<1>1. ASSUME IInv, [Next]_vars, NEW j \in Jobs,
             receipt[j].status = "exhausted", receipt'[j].status # "none",
             receipt'[j].occ = receipt[j].occ
      PROVE  receipt'[j].status = "exhausted"
  <2>1. CronTypeOK /\ receipt[j] \in Receipts
    BY <1>1, ReceiptTyped DEF IInv
  <2>2. receipt[j].attempt >= MaxAttempts
    BY <1>1 DEF IInv, SpentExhausted
  <2>3. CASE receipt'[j] \in {receipt[j], NoReceipt}
    BY <1>1, <2>3, NoReceiptTyped
  <2>4. CASE \E o \in Occurrences : receipt'[j] = Rescheduled(receipt[j], o)
    BY <1>1, <2>1, <2>2, <2>4, RescheduledSound
  <2> QED
    BY <1>1, <2>1, <2>3, <2>4, ReceiptStep
<1>2. IInv /\ [Next]_vars =>
        [\A j \in Jobs : receipt[j].status = "exhausted" =>
           \/ receipt'[j].status \in {"none", "exhausted"}
           \/ receipt'[j].occ # receipt[j].occ]_vars
  BY <1>1
<1> QED
  BY <1>2, CronInvariance, PTL DEF CronSpec, ExhaustedIsFinal

\* Evidence of a success is always of the command definition in force.
THEOREM EvidenceIsCurrent == CronSpec => EvidenceOfCurrentDefinition
<1>1. ASSUME CronTypeOK, [Next]_vars, NEW j \in Jobs
      PROVE  evidence'[j] # evidence[j] => evidence'[j] = def[j]
  <2>1. CASE \E e \in execs : (\E o \in Outcomes : Finish(e, o)) \/ RecordRetry(e)
    <3>1. PICK e \in execs, o \in Outcomes : Record(e.item.job, e.item.def, o)
      BY <2>1 DEF Finish, RecordRetry, Outcomes
    <3>2. \/ evidence' = evidence
          \/ evidence' = [evidence EXCEPT ![e.item.job] = def[e.item.job]]
      BY <3>1 DEF Record
    <3>3. DOMAIN evidence = Jobs
      BY <1>1 DEF CronTypeOK
    <3> QED
      BY <3>2, <3>3
  <2>2. CASE ~ \E e \in execs : (\E o \in Outcomes : Finish(e, o)) \/ RecordRetry(e)
    <3>1. OwnerStep => UNCHANGED evidence
      BY DEF OwnerStep, Start, Poll, Enqueue, EnqueueDone, Submit,
             EndIteration, Release, durable
    <3>2. (\E e \in execs : ThreadStep(e)) => UNCHANGED evidence
      BY <2>2 DEF ThreadStep, Claim, Begin, Rejected, ScheduleRetry, Dropped,
                  Cancelled, durable
    <3>3. Tick \/ (\E k \in Jobs : Reload(k)) \/ Kill \/ StopRequest
            => UNCHANGED evidence
      BY DEF Tick, Reload, Kill, StopRequest, durable
    <3>4. (\E k \in orphans : OrphanEnds(k)) => UNCHANGED evidence
      BY DEF OrphanEnds, durable
    <3>5. UNCHANGED vars => UNCHANGED evidence
      BY DEF vars
    <3>6. Next => UNCHANGED evidence
      BY <3>1, <3>2, <3>3, <3>4 DEF Next
    <3> QED
      BY <1>1, <3>5, <3>6
  <2> QED
    BY <2>1, <2>2
<1>2. CronTypeOK /\ [Next]_vars =>
        [\A j \in Jobs : evidence'[j] # evidence[j] => evidence'[j] = def[j]]_vars
  BY <1>1
<1> QED
  BY <1>2, CronTypeCorrect, PTL DEF CronSpec, EvidenceOfCurrentDefinition
=============================================================================
