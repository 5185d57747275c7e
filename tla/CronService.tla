----------------------------- MODULE CronService -----------------------------
(***************************************************************************)
(* The dedicated cron owner of MAGI V3 (magi_v3/cron_service.py) over the   *)
(* durable scheduler state it shares with its executor threads              *)
(* (skills/ops/cron_scheduler.py).                                          *)
(*                                                                         *)
(* One owner loop polls the definitions, queues what is due, persists every *)
(* queued occurrence and submits the eligible ones to a bounded executor.   *)
(* An executor thread claims its occurrence, checks the command definition, *)
(* runs the command and records the outcome, which may be a durable retry.  *)
(* The owner may be killed, asked to stop, or stop itself by an exception;  *)
(* whatever it then holds in memory is gone and the next owner starts from  *)
(* the durable part.                                                        *)
(*                                                                         *)
(* Time.  The clock counts minutes.  A stamp is an instant: 2*m is the full *)
(* minute m, which is where a cron expression fires; 2*m + 1 is an instant  *)
(* inside minute m, which is where a retry falls.  Horizon ends the model's *)
(* time; a retry computed past it falls on the last instant.                *)
(***************************************************************************)
EXTENDS Naturals, FiniteSets

CONSTANTS
    Jobs,           \* the enabled cron definitions
    Coalescing,     \* jobs whose pending work collapses to the newest snapshot
    Lane,           \* Jobs -> Lanes (long or guarded jobs are maintenance)
    Due,            \* the minutes at which each job's cron expression fires
    Delay,          \* phase delay of each job, in minutes
    Timeout,        \* timeout of each job, in minutes (0: none declared)
    RetryDelay,     \* attempt -> minutes until that retry
    MaxAttempts,    \* automatic retries of one occurrence
    MaxPending,     \* pending occurrences of one job (256 in the policy)
    LaneCap, HeavyCap, Workers,     \* slots: 2, 2 and 4 in the policy
    CatchupWindow,  \* minutes a new owner looks back for missed work
    Horizon,        \* bound: minutes of the model
    MaxDef,         \* bound: versions of each job's command definition
    MaxRestarts     \* bound: kills and stop requests

Lanes == {"light", "batch", "maintenance"}
HeavyLanes == {"batch", "maintenance"}

ASSUME CronAssumption ==
    /\ Coalescing \subseteq Jobs
    /\ Lane \in [Jobs -> Lanes]
    /\ Horizon \in Nat \ {0}
    /\ Due \in [Jobs -> SUBSET (1 .. Horizon)]
    /\ Delay \in [Jobs -> Nat] /\ Timeout \in [Jobs -> Nat]
    /\ MaxAttempts \in Nat \ {0}
    /\ RetryDelay \in [1 .. MaxAttempts -> Nat]
    /\ MaxPending \in Nat \ {0}
    /\ LaneCap \in Nat /\ HeavyCap \in Nat /\ Workers \in Nat
    /\ CatchupWindow \in Nat
    /\ MaxDef \in [Jobs -> Nat \ {0}] /\ MaxRestarts \in Nat

Minute(m) == 2 * m
Instant(m) == 2 * m + 1
Stamps == 0 .. Instant(Horizon)
Defs == Nat \ {0}

\* An occurrence's identity: hash of job, command definition and due time.
Occurrences == [def : Defs, at : Stamps]

\* A PendingCronJob of the owner.  "active" is the recovered row's status:
\* the occurrence was already claimed when its owner went away.
Items == [job : Jobs, kind : {"due", "retry"}, at : Stamps, def : Defs,
          occ : Occurrences, active : BOOLEAN]

\* A row of v3_pending_occurrences.
Rows == [due : Stamps, status : {"queued", "running"}]

\* The v3_retry ticket of a job.
Receipts == [status : {"none", "queued", "running", "exhausted"},
             attempt : 0 .. MaxAttempts, at : Stamps, occ : Occurrences]
NoReceipt == [status |-> "none", attempt |-> 0, at |-> 0,
              occ |-> [def |-> 1, at |-> 0]]

Outcomes == {"success", "recoverable", "failed", "wait", "held"}

VARIABLES
    clock,
    def,        \* version of each job's command in the definitions file
    rows,       \* durable: pending occurrences of each job
    receipt,    \* durable: retry ticket of each job
    claim,      \* durable: minute of the last dispatch, and whether it is open
    evidence,   \* durable: definition of the last recorded success, 0 if none
    begun,      \* durable: definition of the last run that was begun, 0 if none
    mode,       \* "down", "up", "stopping" (asked to) or "draining" (raised)
    pc,         \* where the owner loop is: "poll", "enqueue" or "dispatch"
    catchup,    \* the owner has not looked for missed work yet
    todo,       \* occurrences loaded by the poll and not yet queued
    mem,        \* the owner's pending occurrences
    running,    \* jobs whose future the owner still holds
    execs,      \* occurrences an executor thread is at, with its progress
    orphans,    \* jobs of which a killed owner's command still runs
    restarts

durable == <<rows, receipt, claim, evidence, begun>>
owner == <<mode, pc, catchup, todo, mem, running>>
vars == <<clock, def, rows, receipt, claim, evidence, begun, mode, pc,
          catchup, todo, mem, running, execs, orphans, restarts>>

Phases == {"submitted", "claimed", "started", "retrying"}

(***************************************************************************)
(* What an item, a row and a ticket say                                     *)
(***************************************************************************)

Now == Instant(clock)

\* A retry is exempt from its job's phase delay.
Scheduled(i) == IF i.kind = "retry" THEN i.at ELSE i.at + 2 * Delay[i.job]
LatestStart(i) ==
    Scheduled(i) + 2 * (IF Timeout[i.job] = 0 THEN 10 ELSE Timeout[i.job])

Identity(i) == <<i.kind, IF i.kind = "retry" THEN i.occ ELSE i.at>>

DueItem(j, s, active) ==
    [job |-> j, kind |-> "due", at |-> s, def |-> def[j],
     occ |-> [def |-> def[j], at |-> s], active |-> active]

RetryItem(j) ==
    [job |-> j, kind |-> "retry", at |-> receipt[j].at, def |-> def[j],
     occ |-> receipt[j].occ, active |-> FALSE]

ItemsOf(M, j) == {i \in M : i.job = j}

\* The first pending item of a job: a recovered running one, else the earliest.
First(M) ==
    LET A == {i \in M : i.active}
        C == IF A # {} THEN A ELSE M
    IN  CHOOSE i \in C : \A k \in C : Scheduled(i) <= Scheduled(k)

Earliest(M) == CHOOSE i \in M : \A k \in M : Scheduled(i) <= Scheduled(k)
Newest(M) == CHOOSE i \in M : \A k \in M : Scheduled(k) <= Scheduled(i)

FirstRow(R) == CHOOSE r \in R : \A q \in R : r.due <= q.due
WithStatus(R, s) == {r \in R : r.status = s}

(***************************************************************************)
(* Durable operations of the scheduler                                      *)
(***************************************************************************)

\* mark_job_v3_pending: rows of j after occurrence s has been queued.
Persisted(j, s) ==
    IF \E r \in rows[j] : r.due = s THEN rows[j]
    ELSE LET new == [due |-> s, status |-> "queued"]
             queued == WithStatus(rows[j], "queued") \cup {new}
         IN  IF j \in Coalescing
             THEN WithStatus(rows[j], "running")
                    \cup {r \in queued : \A q \in queued : q.due <= r.due}
             ELSE rows[j] \cup {new}

\* It refuses a loss-sensitive occurrence that does not fit.
Refused(j, s) ==
    /\ j \notin Coalescing
    /\ \A r \in rows[j] : r.due # s
    /\ Cardinality(rows[j]) >= MaxPending

\* mark_job_dispatched: the first queued row becomes the running one.
ClaimedRows(R) ==
    IF WithStatus(R, "queued") = {} THEN R
    ELSE LET r == FirstRow(WithStatus(R, "queued"))
         IN  (R \ {r}) \cup {[r EXCEPT !.status = "running"]}

ClaimedReceipt(rc) ==
    IF rc.status = "queued" THEN [rc EXCEPT !.status = "running"] ELSE rc

\* mark_job_result: the first running row is done, else the first row.
PoppedRows(R) ==
    IF R = {} THEN {}
    ELSE R \ {FirstRow(IF WithStatus(R, "running") # {}
                       THEN WithStatus(R, "running") ELSE R)}

\* schedule_job_v3_retry: the ticket after occurrence o has failed again.
RetryAt(n) ==
    LET s == Instant(clock + RetryDelay[n])
    IN  IF s \in Stamps THEN s ELSE Instant(Horizon)

\* Mutant: the bound on the attempts is not checked.
RescheduledUnbounded(rc, o) ==
    LET prior == IF rc.status # "none" /\ rc.occ = o THEN rc.attempt ELSE 0
    IN  [status |-> "queued", attempt |-> prior + 1,
         at |-> Instant(Horizon), occ |-> o]

\* Mutant: an exhausted ticket counts as no ticket.
RescheduledAfresh(rc, o) ==
    LET prior == IF rc.status \in {"queued", "running"} /\ rc.occ = o
                 THEN rc.attempt ELSE 0
    IN  IF prior >= MaxAttempts
        THEN [status |-> "exhausted", attempt |-> prior, at |-> 0, occ |-> o]
        ELSE [status |-> "queued", attempt |-> prior + 1,
              at |-> RetryAt(prior + 1), occ |-> o]

Rescheduled(rc, o) ==
    LET prior == IF rc.status # "none" /\ rc.occ = o THEN rc.attempt ELSE 0
    IN  IF prior >= MaxAttempts
        THEN [status |-> "exhausted", attempt |-> prior, at |-> 0, occ |-> o]
        ELSE [status |-> "queued", attempt |-> prior + 1,
              at |-> RetryAt(prior + 1), occ |-> o]

\* What a recorded outcome does to the ticket: success and a terminal wait
\* clear it, a failure keeps only an exhausted one, any other deferral leaves
\* it as it is.
SettledReceipt(rc, outcome) ==
    CASE outcome \in {"success", "wait"} -> NoReceipt
      [] outcome = "failed" -> IF rc.status = "exhausted" THEN rc ELSE NoReceipt
      [] OTHER -> rc

(***************************************************************************)
(* A new owner: reconcile_incomplete_jobs                                   *)
(***************************************************************************)

\* A dispatch without a completion whose timeout (at least a minute) is over.
Expired(j) ==
    /\ claim[j].open /\ Timeout[j] > 0
    /\ clock > claim[j].at + (IF Timeout[j] > 1 THEN Timeout[j] ELSE 1)

\* A live ticket is queued again at once, for the same attempt.
Requeued(j) == Expired(j) /\ receipt[j].status \in {"queued", "running"}

\* Otherwise the lost run becomes a retry of the occurrence at the head.
Lost(j) == Expired(j) /\ ~Requeued(j)

LostOccurrence(j) ==
    [def |-> def[j],
     at |-> IF rows[j] = {} THEN Instant(claim[j].at)
            ELSE FirstRow(rows[j]).due]

\* Its result is refused when the last run was begun under another definition,
\* unless its retries are used up: that result names no definition.
Closed(j) ==
    /\ Lost(j)
    /\ \/ begun[j] \in {0, def[j]}
       \/ Rescheduled(receipt[j], LostOccurrence(j)).status = "exhausted"

Start ==
    /\ mode = "down"
    /\ receipt' = [j \in Jobs |->
          CASE Requeued(j) ->
                 [receipt[j] EXCEPT !.status = "queued", !.at = Now]
            [] Lost(j) -> Rescheduled(receipt[j], LostOccurrence(j))
            [] OTHER -> receipt[j]]
    /\ rows' = [j \in Jobs |->
          IF Closed(j) THEN PoppedRows(rows[j]) ELSE rows[j]]
    /\ claim' = [j \in Jobs |->
          IF Closed(j) THEN [claim[j] EXCEPT !.open = FALSE] ELSE claim[j]]
    /\ mode' = "up" /\ pc' = "poll" /\ catchup' = TRUE
    /\ UNCHANGED <<clock, def, evidence, begun, todo, mem, running, execs,
                   orphans, restarts>>

(***************************************************************************)
(* The owner loop                                                           *)
(***************************************************************************)

\* _prune: a future is kept while its thread is still at work.
Live == {j \in running : \E e \in execs : e.item.job = j}

Stale(j) == receipt[j].status \in {"queued", "running"}
              /\ receipt[j].occ.def # def[j]

\* Mutant: the durable retries are loaded once per owner.
RetriesAtBoot == {RetryItem(j) : j \in {k \in Jobs : catchup
                /\ receipt[k].status \in {"queued", "running"} /\ ~Stale(k)}}

\* recover_v3_retry_jobs, peek_due_jobs, and once per owner the durable queue
\* and get_missed_jobs_v3, which only add a job the first two do not mention.
Retries == {RetryItem(j) : j \in {k \in Jobs :
                receipt[k].status \in {"queued", "running"} /\ ~Stale(k)}}
DueNow == {DueItem(j, Minute(clock), FALSE) : j \in {k \in Jobs :
                clock \in Due[k] /\ claim[k].at # clock}}

Missed(j) ==
    LET past == {m \in Due[j] : m <= clock /\ m + CatchupWindow >= clock}
    IN  {m \in past : (\A n \in past : n <= m) /\ claim[j].at < m}

Recovered(j) ==
    IF rows[j] # {}
    THEN LET r == FirstRow(rows[j])
         IN  {DueItem(j, r.due, r.status = "running")}
    ELSE {DueItem(j, Minute(m), FALSE) : m \in Missed(j)}

Poll ==
    /\ mode = "up" /\ pc = "poll"
    /\ LET regular == Retries \cup DueNow
           unseen == {j \in Jobs : ItemsOf(regular, j) = {}}
       IN  todo' = regular \cup
                     (IF catchup THEN UNION {Recovered(j) : j \in unseen}
                      ELSE {})
    /\ receipt' = [j \in Jobs |-> IF Stale(j) THEN NoReceipt ELSE receipt[j]]
    /\ running' = Live
    /\ catchup' = FALSE
    /\ pc' = "enqueue"
    /\ UNCHANGED <<clock, def, rows, claim, evidence, begun, mode, mem, execs,
                   orphans, restarts>>

\* An exception leaves the loop: what is in memory is dropped, and the owner
\* lock is released once the executor has drained.
Raise ==
    /\ mode' = "draining"
    /\ pc' = "poll" /\ todo' = {} /\ mem' = {} /\ running' = {}
    /\ UNCHANGED catchup

\* _enqueue: the job's pending items after item i, and the item to persist.
Enqueued(i) ==
    LET old == ItemsOf(mem, i.job)
        active == {k \in old : k.active}
        queued == {k \in old : ~k.active} \cup (IF i.active THEN {} ELSE {i})
        collapsed == (IF active # {} THEN active ELSE {i})
                       \cup (IF queued = {} THEN {} ELSE {Newest(queued)})
        chosen == IF old # {} /\ (i.kind = "retry" \/ First(old).kind = "retry")
                  THEN Earliest(old \cup {i}) ELSE i
    IN  CASE \E k \in old : Identity(k) = Identity(i) ->
               [items |-> old, item |-> First(old)]
          [] OTHER ->
               IF i.job \notin Coalescing
               THEN [items |-> old \cup {i}, item |-> i]
               ELSE IF active # {} \/ i.active
                    THEN [items |-> collapsed, item |-> i]
                    ELSE [items |-> {chosen}, item |-> chosen]

Overflow(i) ==
    LET old == ItemsOf(mem, i.job)
    IN  /\ i.job \notin Coalescing
        /\ \A k \in old : Identity(k) # Identity(i)
        /\ Cardinality(old) >= MaxPending

\* Mutant: the owner's futures are not consulted.
NeverRunning(i) == FALSE

\* A live owner's future is authoritative: its running ticket is not queued.
AlreadyRunning(i) == i.kind = "retry" /\ i.job \in running

Enqueue(i) ==
    /\ mode = "up" /\ pc = "enqueue"
    /\ i \in todo
    /\ i.kind # "retry" => \A k \in todo : k.kind # "retry"
    /\ LET queued == Enqueued(i)
           s == queued.item.at
       IN  CASE AlreadyRunning(i) ->
                  /\ todo' = todo \ {i}
                  /\ UNCHANGED <<rows, mem, mode, pc, catchup, running>>
             [] ~AlreadyRunning(i) /\ (Overflow(i) \/ Refused(i.job, s)) ->
                  Raise /\ UNCHANGED rows
             [] OTHER ->
                  /\ todo' = todo \ {i}
                  /\ mem' = (mem \ ItemsOf(mem, i.job)) \cup queued.items
                  /\ rows' = [rows EXCEPT ![i.job] = Persisted(i.job, s)]
                  /\ UNCHANGED <<mode, pc, catchup, running>>
    /\ UNCHANGED <<clock, def, receipt, claim, evidence, begun, execs,
                   orphans, restarts>>

EnqueueDone ==
    /\ mode = "up" /\ pc = "enqueue" /\ todo = {}
    /\ pc' = "dispatch"
    /\ UNCHANGED <<clock, def, durable, mode, catchup, todo, mem, running,
                   execs, orphans, restarts>>

\* Mutant: the heavy lanes share no budget.
CanStartAlone(lane, busy) ==
    /\ Cardinality(busy) < Workers
    /\ Cardinality({j \in busy : Lane[j] = lane}) < LaneCap

CanStartLane(lane, busy) ==
    /\ Cardinality(busy) < Workers
    /\ Cardinality({j \in busy : Lane[j] = lane}) < LaneCap
    /\ lane \in HeavyLanes =>
         Cardinality({j \in busy : Lane[j] \in HeavyLanes}) < HeavyCap

Eligible == {i \in mem : /\ Scheduled(i) <= Now
                         /\ i.job \notin Live
                         /\ CanStartLane(Lane[i.job], Live)}

\* Earliest latest start, then scheduled time; the order of arrival, which
\* breaks the remaining ties, is left open.
Before(i, k) == \/ LatestStart(i) < LatestStart(k)
                \/ /\ LatestStart(i) = LatestStart(k)
                   /\ Scheduled(i) <= Scheduled(k)

Submit(i) ==
    /\ mode = "up" /\ pc = "dispatch"
    /\ i \in Eligible
    /\ \A k \in Eligible : Before(i, k)
    /\ mem' = mem \ {i}
    /\ running' = Live \cup {i.job}
    /\ execs' = execs \cup {[item |-> i, phase |-> "submitted"]}
    /\ UNCHANGED <<clock, def, durable, mode, pc, catchup, todo,
                   orphans, restarts>>

\* Nothing more to submit.  The idle wait reads not_before of every entry of
\* the pending map, but an entry of two or more occurrences is a list.
EndIteration ==
    /\ mode = "up" /\ pc = "dispatch"
    /\ Eligible = {}
    /\ IF \E j \in Jobs : Cardinality(ItemsOf(mem, j)) >= 2
       THEN Raise
       ELSE /\ pc' = "poll" /\ running' = Live
            /\ UNCHANGED <<mode, catchup, todo, mem>>
    /\ UNCHANGED <<clock, def, durable, execs, orphans, restarts>>

(***************************************************************************)
(* An executor thread                                                       *)
(***************************************************************************)

Advance(e, phase) == execs' = (execs \ {e}) \cup {[e EXCEPT !.phase = phase]}

Claim(e) ==
    /\ e \in execs /\ e.phase = "submitted"
    /\ LET j == e.item.job
       IN  /\ rows' = [rows EXCEPT ![j] = ClaimedRows(@)]
           /\ receipt' = [receipt EXCEPT ![j] = ClaimedReceipt(@)]
           /\ claim' = [claim EXCEPT ![j] = [at |-> clock, open |-> TRUE]]
    /\ Advance(e, "claimed")
    /\ UNCHANGED <<clock, def, evidence, begun, owner, orphans, restarts>>

\* mark_job_started: a command other than the one queued is never run.
Begin(e) ==
    /\ e \in execs /\ e.phase = "claimed"
    /\ e.item.def = def[e.item.job]
    /\ begun' = [begun EXCEPT ![e.item.job] = e.item.def]
    /\ Advance(e, "started")
    /\ UNCHANGED <<clock, def, rows, receipt, claim, evidence, owner,
                   orphans, restarts>>

Rejected(e) ==
    /\ e \in execs /\ e.phase = "claimed"
    /\ e.item.def # def[e.item.job]
    /\ execs' = execs \ {e}
    /\ UNCHANGED <<clock, def, durable, owner, orphans, restarts>>

\* Mutant: a result is recorded under the definition it ran with.
RecordAnyway(j, d, outcome) ==
    /\ claim' = [claim EXCEPT ![j].open = FALSE]
    /\ rows' = [rows EXCEPT ![j] = PoppedRows(@)]
    /\ receipt' = [receipt EXCEPT ![j] = SettledReceipt(@, outcome)]
    /\ evidence' = IF outcome = "success"
                   THEN [evidence EXCEPT ![j] = d] ELSE evidence

\* mark_job_result, for a run of command definition d.
Record(j, d, outcome) ==
    /\ claim' = [claim EXCEPT ![j].open = FALSE]
    /\ IF d # def[j]
       THEN UNCHANGED <<rows, receipt, evidence>>
       ELSE /\ rows' = [rows EXCEPT ![j] = PoppedRows(@)]
            /\ receipt' = [receipt EXCEPT ![j] = SettledReceipt(@, outcome)]
            /\ evidence' = IF outcome = "success"
                           THEN [evidence EXCEPT ![j] = d] ELSE evidence

Finish(e, outcome) ==
    /\ e \in execs /\ e.phase = "started"
    /\ outcome # "recoverable"
    /\ Record(e.item.job, e.item.def, outcome)
    /\ execs' = execs \ {e}
    /\ UNCHANGED <<clock, def, begun, owner, orphans, restarts>>

\* A recoverable outcome is two durable writes: the ticket, then the result.
ScheduleRetry(e) ==
    /\ e \in execs /\ e.phase = "started"
    /\ LET j == e.item.job
       IN  receipt' = IF e.item.def = def[j]
                      THEN [receipt EXCEPT ![j] = Rescheduled(@, e.item.occ)]
                      ELSE receipt
    /\ Advance(e, "retrying")
    /\ UNCHANGED <<clock, def, rows, claim, evidence, begun, owner,
                   orphans, restarts>>

RecordRetry(e) ==
    /\ e \in execs /\ e.phase = "retrying"
    /\ Record(e.item.job, e.item.def, "recoverable")
    /\ execs' = execs \ {e}
    /\ UNCHANGED <<clock, def, begun, owner, orphans, restarts>>

\* The executor's shutdown drops what no thread has taken up.
Dropped(e) ==
    /\ mode \in {"stopping", "draining"}
    /\ e \in execs /\ e.phase = "submitted"
    /\ execs' = execs \ {e}
    /\ UNCHANGED <<clock, def, durable, owner, orphans, restarts>>

\* A stop request reaps the command; no result is recorded.
Cancelled(e) ==
    /\ mode = "stopping"
    /\ e \in execs /\ e.phase = "started"
    /\ execs' = execs \ {e}
    /\ UNCHANGED <<clock, def, durable, owner, orphans, restarts>>

(***************************************************************************)
(* The environment                                                          *)
(***************************************************************************)

Tick ==
    /\ clock < Horizon
    /\ clock' = clock + 1
    /\ UNCHANGED <<def, durable, owner, execs, orphans, restarts>>

\* The definitions file is replaced; every operation reloads it first.
Reload(j) ==
    /\ def[j] < MaxDef[j]
    /\ def' = [def EXCEPT ![j] = @ + 1]
    /\ UNCHANGED <<clock, durable, owner, execs, orphans, restarts>>

\* The owner is killed, and its threads with it.  A command runs in a session
\* of its own (safe_process.py:1168): it goes on as an orphan nobody waits for,
\* and the next owner recovers its row and may run it again beside it.
Kill ==
    /\ mode # "down" /\ restarts < MaxRestarts
    /\ mode' = "down" /\ pc' = "poll"
    /\ todo' = {} /\ mem' = {} /\ running' = {} /\ execs' = {}
    /\ orphans' = orphans \cup
         {j \in Jobs : \E e \in execs : e.item.job = j /\ e.phase = "started"}
    /\ restarts' = restarts + 1
    /\ UNCHANGED <<clock, def, durable, catchup>>

\* An orphan ends at some time, if ever; nothing records its outcome.
OrphanEnds(j) ==
    /\ j \in orphans
    /\ orphans' = orphans \ {j}
    /\ UNCHANGED <<clock, def, durable, owner, execs, restarts>>

\* The stop event is read between iterations and during the idle wait.
StopRequest ==
    /\ mode = "up" /\ pc = "poll" /\ restarts < MaxRestarts
    /\ mode' = "stopping" /\ pc' = "poll"
    /\ todo' = {} /\ mem' = {} /\ running' = {}
    /\ restarts' = restarts + 1
    /\ UNCHANGED <<clock, def, durable, catchup, execs, orphans>>

\* Mutant: the owner lock is released while threads are at work.
ReleaseEarly ==
    /\ mode \in {"draining", "stopping"}
    /\ mode' = "down"
    /\ UNCHANGED <<clock, def, durable, pc, catchup, todo, mem, running, execs,
                   orphans, restarts>>

\* The executor has been waited for, and the owner lock is released.
Release ==
    /\ mode \in {"draining", "stopping"}
    /\ execs = {}
    /\ mode' = "down"
    /\ UNCHANGED <<clock, def, durable, pc, catchup, todo, mem, running, execs,
                   orphans, restarts>>

(***************************************************************************)
(* The specification                                                        *)
(***************************************************************************)

Init ==
    /\ clock = 1
    /\ def = [j \in Jobs |-> 1]
    /\ rows = [j \in Jobs |-> {}]
    /\ receipt = [j \in Jobs |-> NoReceipt]
    /\ claim = [j \in Jobs |-> [at |-> 0, open |-> FALSE]]
    /\ evidence = [j \in Jobs |-> 0] /\ begun = [j \in Jobs |-> 0]
    /\ mode = "down" /\ pc = "poll" /\ catchup = FALSE
    /\ todo = {} /\ mem = {} /\ running = {} /\ execs = {}
    /\ orphans = {} /\ restarts = 0

OwnerStep ==
    \/ Start
    \/ Poll
    \/ \E i \in todo : Enqueue(i)
    \/ EnqueueDone
    \/ \E i \in mem : Submit(i)
    \/ EndIteration
    \/ Release

\* A command ends by itself or by its timeout.
ThreadStep(e) ==
    \/ Claim(e)
    \/ Begin(e)
    \/ Rejected(e)
    \/ \E o \in Outcomes : Finish(e, o)
    \/ ScheduleRetry(e)
    \/ RecordRetry(e)
    \/ Dropped(e)
    \/ Cancelled(e)

Next ==
    \/ OwnerStep
    \/ \E e \in execs : ThreadStep(e)
    \/ Tick
    \/ \E j \in Jobs : Reload(j)
    \/ Kill
    \/ \E j \in orphans : OrphanEnds(j)
    \/ StopRequest

CronSpec == Init /\ [][Next]_vars

\* The supervisor restarts the owner, the owner's loop and its threads run,
\* and time passes.  Nothing obliges the environment to reload, kill or stop.
ThreadsStep == \E e \in execs : ThreadStep(e)
CronFairSpec ==
    CronSpec /\ WF_vars(OwnerStep) /\ WF_vars(ThreadsStep) /\ WF_vars(Tick)

(***************************************************************************)
(* Properties                                                               *)
(***************************************************************************)

\* Every variable has its type; in particular no attempt number passes the
\* bound schedule_job_v3_retry enforces.
CronTypeOK ==
    /\ clock \in 1 .. Horizon
    /\ \A j \in Jobs : /\ def[j] \in 1 .. MaxDef[j]
                       /\ evidence[j] \in 0 .. MaxDef[j]
                       /\ begun[j] \in 0 .. MaxDef[j]
    /\ DOMAIN def = Jobs /\ DOMAIN evidence = Jobs /\ DOMAIN begun = Jobs
    /\ rows \in [Jobs -> SUBSET Rows]
    /\ receipt \in [Jobs -> Receipts]
    /\ claim \in [Jobs -> [at : 0 .. Horizon, open : BOOLEAN]]
    /\ mode \in {"down", "up", "stopping", "draining"}
    /\ pc \in {"poll", "enqueue", "dispatch"}
    /\ catchup \in BOOLEAN
    /\ todo \subseteq Items /\ mem \subseteq Items
    /\ running \subseteq Jobs
    /\ execs \subseteq [item : Items, phase : Phases]
    /\ orphans \subseteq Jobs
    /\ restarts \in 0 .. MaxRestarts

\* The threads at work never exceed the executor, a lane or the shared heavy
\* budget, through a failed or stopping owner, its drain and the owner that
\* follows it ("Two light slots and a two-slot shared heavy budget",
\* cron_policy.py:4).  No owner knows the orphans of a killed one, so they are
\* not counted and may exceed the budget.
Busy(L) == {j \in Jobs : Lane[j] \in L /\ \E e \in execs : e.item.job = j}
LaneCapacity ==
    /\ Cardinality(Busy(Lanes)) <= Workers
    /\ \A lane \in Lanes : Cardinality(Busy({lane})) <= LaneCap
    /\ Cardinality(Busy(HeavyLanes)) <= HeavyCap

\* No job has two executions that an owner answers for: neither one owner nor
\* two that follow each other by an exception or a stop request, where the
\* drain leaves nothing to overlap with ("so the next release cannot run
\* concurrently with an orphan from the previous one", cron_service.py:1009).
\* A killed owner does not drain.  This says nothing of its commands: a job in
\* "orphans" may be at work a second time beside the orphan.
OneExecutionPerJob ==
    \A e, f \in execs : e.item.job = f.item.job => e = f

\* While a thread is at work on a claimed occurrence the durable state shows a
\* dispatch without a completion, which is what a later owner reconciles from.
\* (Not while only an orphan is: the reconciliation closes its dispatch.)
ClaimedIsOpen ==
    \A e \in execs : e.phase # "submitted" => claim[e.item.job].open

\* The retry being run is not pending a second time: the loader returns
\* running tickets too, and only the owner's future tells them apart
\* (cron_service.py:653).
RunningRetryNotRequeued ==
    \A e \in execs : e.item.kind = "retry" =>
        \A i \in mem : ~(/\ i.job = e.item.job
                        /\ i.kind = "retry" /\ i.occ = e.item.occ)

\* A success is recorded only for the definition in force when it is recorded,
\* whatever was reloaded while the command ran (scheduler mark_job_result).
EvidenceOfCurrentDefinition ==
    [][\A j \in Jobs : evidence'[j] # evidence[j] => evidence'[j] = def[j]]_vars

\* An occurrence whose retries are used up is never queued again by itself,
\* neither by another failure of a leftover run nor by a new owner.
ExhaustedIsFinal ==
    [][\A j \in Jobs : receipt[j].status = "exhausted" =>
         \/ receipt'[j].status \in {"none", "exhausted"}
         \/ receipt'[j].occ # receipt[j].occ]_vars

\* A queued retry does not stay queued: it is run, or cleared by a later
\* result, or retired when its command changes.  It may wait for ever in three
\* situations only: a durable queue is full, so that every owner raises while
\* it persists a retry (cron_service.py:975); some job's ticket is still
\* "running" after its run has ended, so that it is run again at every poll
\* ahead of younger work; or two retries of one job are pending over the job's
\* only ticket, and each of them resets the attempts of the other
\* (cron_scheduler.py:706).
RetryResolved ==
    \A j \in Jobs : receipt[j].status = "queued" ~>
        \/ receipt[j].status # "queued"
        \/ \E k \in Jobs : Cardinality(rows[k]) >= MaxPending
        \/ \E k \in Jobs : receipt[k].status = "running" /\ ~claim[k].open
        \/ \E i, k \in {m \in mem : m.kind = "retry"} : i # k /\ i.job = k.job

\* "Retries are bounded and reason-coded" (README.md:230).  A job fires
\* finitely often in the model, so its retries must come to an end.
RetriesBounded ==
    \A j \in Jobs :
        <>[](\A e \in execs : ~(e.item.job = j /\ e.item.kind = "retry"))

\* "Everything else must retain each distinct scheduled occurrence so a
\* restart or a busy lane cannot silently lose work" (cron_policy.py:24): once
\* an owner has polled, every queued row of a loss-sensitive job is pending.
QueuedRowsArePending ==
    mode = "up" /\ pc = "dispatch" =>
        \A j \in Jobs \ Coalescing :
            \A r \in WithStatus(rows[j], "queued") :
                \/ \E i \in mem : i.job = j /\ i.at = r.due
                \/ \E e \in execs : e.item.job = j /\ e.item.at = r.due
==============================================================================
