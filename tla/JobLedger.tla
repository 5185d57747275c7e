----------------------------- MODULE JobLedger ------------------------------
(***************************************************************************)
(* The durable job ledger of magi_v3/ledger.py: three SQLite tables (jobs, *)
(* attempts, leases) that only immediate transactions change.  Every       *)
(* public operation is one transaction, so it is one action here, enabled  *)
(* exactly when the operation commits; an operation that raises rolls back *)
(* and is a stutter.                                                       *)
(*                                                                         *)
(* A lease token is a fresh uuid per lease_next, so a caller's credential  *)
(* (token, owner, attempt number) is the pair (job, attempt number); a     *)
(* stale credential is a number that no longer matches the lease row.      *)
(* Operations read the clock BEFORE they wait for the write lock: t is the *)
(* timestamp read, at most MaxLag behind the time now of the commit.       *)
(***************************************************************************)
EXTENDS Naturals, FiniteSets, JobStatus

CONSTANTS
    Job,           \* job ids
    Envelope,      \* the job envelopes submitted, see EnvelopeType
    Token,         \* confirmation challenge tokens
    NoToken,       \* a NULL challenge digest
    NoKey,         \* a NULL idempotency key
    LeaseSeconds,  \* the lease and heartbeat extensions callers ask for
    MaxLag,        \* bound: how long a transaction waits for the write lock
    MaxTime,       \* bound on the clock
    MaxAttemptNo,  \* bound on attempt rows per job (preemptions are refunded)
    MaxFence       \* bound on fence_generation

Effect == {"none", "read_only", "local_draft", "reversible_write",
           "external_commit", "destructive"}
Writing == {"local_draft", "reversible_write", "external_commit", "destructive"}
Dangerous == {"external_commit", "destructive"}
Priority == {"P0", "P1", "P2", "P3", "P4"}
Phase == {"not_applicable", "prepared", "committing", "committed",
          "ambiguous", "verified"}

\* PRIORITY_WEIGHTS and PRIORITY_PREEMPTIBLE.
Weight == [p \in Priority |-> CASE p = "P0" -> 100 [] p = "P1" -> 90
                                [] p = "P2" -> 70 [] p = "P3" -> 40
                                [] p = "P4" -> 10]
Preemptible(env) == env.priority \in {"P2", "P3", "P4"}

\* JobSpec as validated: heavy is worker_class # "light"; deadline leaves at
\* least one second of timeout after latestStart.
EnvelopeType ==
    [effect : Effect, priority : Priority, heavy : BOOLEAN,
     maxAttempts : Nat \ {0}, notBefore : Nat, latestStart : Nat,
     deadline : Nat, key : STRING, token : Token \cup {NoToken},
     tokenExpires : Nat]

ASSUME EnvelopeAssumption ==
    /\ Envelope # {}
    /\ Envelope \subseteq EnvelopeType
    /\ \A env \in Envelope :
          /\ env.notBefore <= env.latestStart /\ env.latestStart < env.deadline
          /\ env.effect \in Writing => env.key # NoKey
          /\ env.effect \in Dangerous <=> env.token # NoToken

ASSUME BoundsAssumption ==
    /\ NoToken \notin Token
    /\ NoKey \in STRING
    /\ LeaseSeconds \subseteq Nat \ {0}
    /\ MaxLag \in Nat /\ MaxTime \in Nat /\ MaxFence \in Nat
    /\ MaxAttemptNo \in Nat

\* worker_pid is modelled by whether it is bound; a row with status "none" is
\* an attempt that was never inserted.
OpenAttempt == {"leased", "running"}
AttemptStatus == Status \cup {"none", "preempted", "preempted_recovery_required"}
Attempt == [status : AttemptStatus, bound : BOOLEAN]
NoAttempt == [status |-> "none", bound |-> FALSE]

\* fence is fence_reason: none, lease expiry, or preemption by a priority class.
FenceReason == {"none", "lease_expired"} \cup Priority
Lease == [attempt : 0 .. MaxAttemptNo, expires : Nat, fence : FenceReason,
          gen : 0 .. MaxFence]
NoLease == [attempt |-> 0, expires |-> 0, fence |-> "none", gen |-> 0]

Row == [status : Status \cup {"absent"}, env : Envelope,
        attemptCount : 0 .. MaxAttemptNo, phase : Phase, ambiguous : BOOLEAN,
        challenge : Token \cup {NoToken}, challengeExpires : Nat,
        confirmed : BOOLEAN, completed : BOOLEAN, finished : BOOLEAN,
        error : BOOLEAN, receipts : BOOLEAN]

VARIABLES
    jobs,      \* the jobs table: a row per job id, "absent" before create_job
    attempts,  \* the attempts table: attempts[j][n] is attempt n of job j
    leases,    \* the leases table: at most one row per job, NoLease if none
    now        \* wall clock, in abstract seconds

vars == <<jobs, attempts, leases, now>>

NewRow(env) ==
    [status |-> IF env.effect \in Dangerous THEN "needs_confirmation" ELSE "queued",
     env |-> env, attemptCount |-> 0,
     phase |-> IF env.effect \in Writing THEN "prepared" ELSE "not_applicable",
     ambiguous |-> FALSE, challenge |-> env.token,
     challengeExpires |-> env.tokenExpires, confirmed |-> FALSE,
     completed |-> FALSE, finished |-> FALSE, error |-> FALSE,
     receipts |-> FALSE]

AbsentRow == [NewRow(CHOOSE env \in Envelope : TRUE) EXCEPT !.status = "absent"]

Exists(j) == jobs[j].status # "absent"
Leased(j) == leases[j].attempt # 0
Fenced(j) == leases[j].fence # "none"
Stamps == {t \in 0 .. now : now <= t + MaxLag}

TypeOK ==
    /\ jobs \in [Job -> Row]
    /\ attempts \in [Job -> [1 .. MaxAttemptNo -> Attempt]]
    /\ leases \in [Job -> Lease]
    /\ now \in Nat

Init ==
    /\ jobs = [j \in Job |-> AbsentRow]
    /\ attempts = [j \in Job |-> [n \in 1 .. MaxAttemptNo |-> NoAttempt]]
    /\ leases = [j \in Job |-> NoLease]
    /\ now = 0

-----------------------------------------------------------------------------
(* Submission and confirmation.                                            *)

CreateJob(j, env, t) ==
    /\ ~Exists(j)
    /\ env.key = NoKey \/ \A i \in Job : Exists(i) => jobs[i].env.key # env.key
    /\ env.effect \in Dangerous => env.tokenExpires > t
    /\ jobs' = [jobs EXCEPT ![j] = NewRow(env)]
    /\ UNCHANGED <<attempts, leases, now>>

ConfirmedRow(row) ==
    [row EXCEPT !.status = "queued", !.confirmed = TRUE, !.phase = "prepared",
                !.ambiguous = FALSE, !.challenge = NoToken, !.challengeExpires = 0]

ChallengedRow(row, token, expires) ==
    [row EXCEPT !.challenge = token, !.challengeExpires = expires,
                !.confirmed = FALSE]

\* confirm_job consumes the challenge: the digest is cleared, so a replay of
\* the same token finds nothing to match.
ConfirmJob(j, token, t) ==
    /\ jobs[j].status = "needs_confirmation"
    /\ jobs[j].challenge = token
    /\ jobs[j].challengeExpires > t
    /\ jobs' = [jobs EXCEPT ![j] = ConfirmedRow(jobs[j])]
    /\ UNCHANGED <<attempts, leases, now>>

IssueConfirmationChallenge(j, token, expires, t) ==
    /\ expires > t
    /\ jobs[j].status = "needs_confirmation"
    /\ jobs[j].env.effect \in Dangerous
    /\ jobs' = [jobs EXCEPT ![j] = ChallengedRow(jobs[j], token, expires)]
    /\ UNCHANGED <<attempts, leases, now>>

\* Mutant: transition_job may requeue any job.
OnlyByConfirmNever(row, to) == FALSE

\* A dangerous job leaves needs_confirmation for the queue by confirm_job only.
OnlyByConfirm(row, to) ==
    /\ row.status = "needs_confirmation" /\ to = "queued"
    /\ row.env.effect \in Dangerous

\* What every checked transition writes of its row: a new error replaces the
\* old one, success clears it.
Moved(row, to, completed, error) ==
    [row EXCEPT !.status = to, !.completed = completed,
                !.finished = to \in Finished,
                !.error = to # "succeeded" /\ (error \/ row.error)]

\* A job that gives its lease back without a result.
Released(row, to) == Moved(row, to, row.completed, TRUE)

\* transition_job: the explicit, token-free transition.  completed is the
\* value after the call (the row's own value when the caller passes None).
TransitionJob(j, to, completed, error) ==
    LET row == jobs[j]
    IN  /\ Exists(j)
        /\ ~Leased(j)
        /\ ~OnlyByConfirm(row, to)
        /\ CanTransition(row.status, to, completed)
        /\ to \in NeedsError => error
        /\ jobs' = [jobs EXCEPT ![j] = Moved(row, to, completed, error)]
        /\ UNCHANGED <<attempts, leases, now>>

-----------------------------------------------------------------------------
(* Taking and keeping a lease.                                             *)

\* COUNT(attempts whose status is not 'preempted'): the retry budget spent.
Spent(j) ==
    Cardinality({n \in 1 .. MaxAttemptNo :
                    attempts[j][n].status \notin {"none", "preempted"}})

\* Mutant: the budget comparison is off by one.
LeasableOnceMore(j, interactive, t) ==
    LET env == jobs[j].env
    IN  /\ jobs[j].status = "queued"
        /\ env.notBefore <= t /\ t <= env.latestStart /\ t < env.deadline
        /\ Spent(j) <= env.maxAttempts
        /\ interactive => ~env.heavy /\ env.priority \in {"P0", "P1"}

\* The WHERE clause of lease_next; interactive restricts it to light P0/P1.
Leasable(j, interactive, t) ==
    LET env == jobs[j].env
    IN  /\ jobs[j].status = "queued"
        /\ env.notBefore <= t /\ t <= env.latestStart /\ t < env.deadline
        /\ Spent(j) < env.maxAttempts
        /\ interactive => ~env.heavy /\ env.priority \in {"P0", "P1"}

\* Mutant: the deadline does not cap the lease.
LeaseEndUncapped(j, d, t) == t + d

LeaseEnd(j, d, t) ==
    IF t + d <= jobs[j].env.deadline THEN t + d ELSE jobs[j].env.deadline

LeasedRow(row) ==
    [row EXCEPT !.status = "leased", !.attemptCount = row.attemptCount + 1]

RunningRow(row) == [row EXCEPT !.status = "running"]

\* ORDER BY priority DESC; ties are broken by scheduled_for and created_at,
\* which the model does not carry.
LeaseNext(j, interactive, d, t) ==
    /\ Leasable(j, interactive, t)
    /\ \A i \in Job : Leasable(i, interactive, t) =>
          Weight[jobs[i].env.priority] <= Weight[jobs[j].env.priority]
    /\ jobs[j].attemptCount < MaxAttemptNo
    /\ LET n == jobs[j].attemptCount + 1
       IN  /\ jobs' = [jobs EXCEPT ![j] = LeasedRow(jobs[j])]
           /\ attempts' = [attempts EXCEPT ![j][n] = [status |-> "leased", bound |-> FALSE]]
           /\ leases' = [leases EXCEPT
                  ![j] = [attempt |-> n, expires |-> LeaseEnd(j, d, t),
                          fence |-> "none", gen |-> 0]]
    /\ UNCHANGED now

\* Mutant: the fence is not looked at.
HeldByDespiteFence(j, n, t) ==
    /\ n # 0 /\ leases[j].attempt = n
    /\ leases[j].expires > t
    /\ jobs[j].env.deadline > t

\* _lease_and_job_locked: the row a live credential finds.
HeldBy(j, n, t) ==
    /\ n # 0 /\ leases[j].attempt = n
    /\ ~Fenced(j)
    /\ leases[j].expires > t
    /\ jobs[j].env.deadline > t

MarkRunning(j, n, t) ==
    /\ HeldBy(j, n, t)
    /\ CanTransition(jobs[j].status, "running", FALSE)
    /\ jobs' = [jobs EXCEPT ![j] = RunningRow(jobs[j])]
    /\ attempts' = [attempts EXCEPT ![j][n] = [status |-> "running", bound |-> FALSE]]
    /\ UNCHANGED <<leases, now>>

BindWorkerPid(j, n, t) ==
    /\ HeldBy(j, n, t)
    /\ jobs[j].status = "running"
    /\ ~attempts[j][n].bound
    /\ attempts' = [attempts EXCEPT ![j][n] = [status |-> "running", bound |-> TRUE]]
    /\ UNCHANGED <<jobs, leases, now>>

HeartbeatLease(j, n, d, t) ==
    /\ HeldBy(j, n, t)
    /\ leases' = [leases EXCEPT ![j].expires = LeaseEnd(j, d, t)]
    /\ UNCHANGED <<jobs, attempts, now>>

-----------------------------------------------------------------------------
(* Giving a lease back.                                                    *)

\* Mutant: the lease row stays behind.
CloseAttemptOnly(j, n, outcome) ==
    /\ attempts' = [attempts EXCEPT
           ![j][n] = [status |-> outcome, bound |-> attempts[j][n].bound]]
    /\ leases' = leases

\* Every way out deletes the lease row and closes the attempt row with it.
CloseAttempt(j, n, outcome) ==
    /\ attempts' = [attempts EXCEPT
           ![j][n] = [status |-> outcome, bound |-> attempts[j][n].bound]]
    /\ leases' = [leases EXCEPT ![j] = NoLease]

AbandonUnstartedLease(j, n, t) ==
    /\ HeldBy(j, n, t)
    /\ jobs[j].status = "leased"
    /\ jobs' = [jobs EXCEPT ![j] = Released(jobs[j], "deferred")]
    /\ CloseAttempt(j, n, "deferred")
    /\ UNCHANGED now

SuspendTarget == {"deferred", "needs_confirmation", "waiting_children",
                  "awaiting_input"}
ResultTarget == {"succeeded", "degraded", "failed", "cancelled", "timed_out"}

\* Mutant: a phase the schema does not know.
FinishPhaseUnknown(row, to) ==
    IF row.env.effect \in Writing /\ to \in NeedsError THEN "unknown" ELSE row.phase

\* What _finish_lease records of the side effect of a writing job: verified on
\* success, unknown on failure, otherwise as it was.
FinishPhase(row, to) ==
    CASE row.env.effect \in Writing /\ to = "succeeded" -> "verified"
      [] row.env.effect \in Writing /\ to \in NeedsError -> "ambiguous"
      [] OTHER -> row.phase

\* Mutant: only the phase column is updated.
FinishAmbiguousKept(row, to) == row.ambiguous

FinishAmbiguous(row, to) ==
    CASE row.env.effect \in Writing /\ to = "succeeded" -> FALSE
      [] row.env.effect \in Writing /\ to \in NeedsError -> TRUE
      [] OTHER -> row.ambiguous

ReceiptRequired(row, to) == to = "succeeded" /\ row.env.effect \in Dangerous

FinishedRow(row, to, completed, receipts, error) ==
    [Moved(row, to, completed, error) EXCEPT
         !.receipts = receipts, !.phase = FinishPhase(row, to),
         !.ambiguous = FinishAmbiguous(row, to)]

\* _finish_lease, shared by suspend_lease and _commit_worker_result.
FinishLease(j, n, to, completed, receipts, error, t) ==
    LET row == jobs[j]
    IN  /\ HeldBy(j, n, t)
        /\ CanTransition(row.status, to, completed)
        /\ to \in NeedsError => error
        /\ ReceiptRequired(row, to) => receipts
        /\ jobs' = [jobs EXCEPT ![j] = FinishedRow(row, to, completed, receipts, error)]
        /\ CloseAttempt(j, n, to)
        /\ UNCHANGED now

SuspendLease(j, n, to, receipts, error, t) ==
    /\ to \in SuspendTarget
    /\ FinishLease(j, n, to, FALSE, receipts, error, t)

CommitWorkerResult(j, n, to, completed, receipts, error, t) ==
    /\ to \in ResultTarget
    /\ FinishLease(j, n, to, completed, receipts, error, t)

-----------------------------------------------------------------------------
(* Fences: a fenced lease rejects heartbeats and results until it is       *)
(* resolved or the fence is cancelled.  process_group_gone is TRUE in every *)
(* call that commits, so it is not a parameter.                            *)

\* A fence handle is the credential plus the generation it was given.
FenceMatches(j, n, gen) ==
    n # 0 /\ leases[j].attempt = n /\ Fenced(j) /\ leases[j].gen = gen

Fence(j, reason) ==
    /\ leases[j].gen < MaxFence
    /\ leases' = [leases EXCEPT ![j].fence = reason, ![j].gen = @ + 1]
    /\ UNCHANGED <<jobs, attempts, now>>

SafeToPreempt(env) == env.heavy /\ env.effect \in {"none", "read_only"}

FencePreemptibleLease(j, n, incoming, t) ==
    /\ n # 0 /\ leases[j].attempt = n
    /\ ~Fenced(j) /\ leases[j].expires > t
    /\ jobs[j].status = "running"
    /\ Preemptible(jobs[j].env) /\ SafeToPreempt(jobs[j].env)
    /\ Weight[incoming] > Weight[jobs[j].env.priority]
    /\ Fence(j, incoming)

CancelPreemptionFence(j, n, gen) ==
    /\ FenceMatches(j, n, gen)
    /\ leases[j].fence \in Priority
    /\ jobs[j].status = "running"
    /\ leases' = [leases EXCEPT ![j].fence = "none"]
    /\ UNCHANGED <<jobs, attempts, now>>

ResolvePreemptedLease(j, n, gen, incoming) ==
    /\ FenceMatches(j, n, gen)
    /\ leases[j].fence = incoming
    /\ jobs[j].status = "running"
    /\ Preemptible(jobs[j].env) /\ SafeToPreempt(jobs[j].env)
    /\ jobs' = [jobs EXCEPT ![j] = Released(jobs[j], "queued")]
    /\ CloseAttempt(j, n, "preempted")
    /\ UNCHANGED now

MarkPreemptionRecoveryRequired(j, n, gen) ==
    /\ FenceMatches(j, n, gen)
    /\ leases[j].fence \in Priority
    /\ jobs[j].status = "running"
    /\ jobs' = [jobs EXCEPT ![j] = Released(jobs[j], "deferred")]
    /\ CloseAttempt(j, n, "preempted_recovery_required")
    /\ UNCHANGED now

\* fence_lease; on a lease already fenced it returns the standing fence.
FenceLease(j, n, t) ==
    /\ n # 0 /\ leases[j].attempt = n
    /\ ~Fenced(j)
    /\ leases[j].expires <= t
    /\ Fence(j, "lease_expired")

\* Mutant: writing jobs are retried like any other.
ExpiryTargetRetries(row) ==
    IF row.attemptCount < row.env.maxAttempts THEN "queued" ELSE "timed_out"

\* Where resolve_fenced_lease sends the job: a writing job to a human, any
\* other job back to the queue while attempt_count allows.
ExpiryTarget(row) ==
    CASE row.env.effect \in Writing -> "needs_confirmation"
      [] row.env.effect \notin Writing /\ row.attemptCount < row.env.maxAttempts -> "queued"
      [] OTHER -> "timed_out"

\* An expired writing job may have written: its effect becomes unknown and its
\* confirmation is withdrawn.
ExpiredRow(row) ==
    LET writes == row.env.effect \in Writing
    IN  [Released(row, ExpiryTarget(row)) EXCEPT
             !.confirmed = row.confirmed /\ ~writes,
             !.phase = IF writes THEN "ambiguous" ELSE row.phase,
             !.ambiguous = writes]

ResolveFencedLease(j, n, gen) ==
    /\ FenceMatches(j, n, gen)
    /\ jobs' = [jobs EXCEPT ![j] = ExpiredRow(jobs[j])]
    /\ CloseAttempt(j, n, "timed_out")
    /\ UNCHANGED now

Tick ==
    /\ now < MaxTime
    /\ now' = now + 1
    /\ UNCHANGED <<jobs, attempts, leases>>

-----------------------------------------------------------------------------
Numbers == 1 .. MaxAttemptNo

\* Callers without a lease: the API that submits, confirms and moves jobs.
OperatorStep ==
    \E j \in Job :
        \/ \E env \in Envelope, t \in Stamps : CreateJob(j, env, t)
        \/ \E token \in Token, t \in Stamps : ConfirmJob(j, token, t)
        \/ \E token \in Token, t \in Stamps, e \in 1 .. MaxTime :
               IssueConfirmationChallenge(j, token, e, t)
        \/ \E to \in Status, completed, error \in BOOLEAN :
               TransitionJob(j, to, completed, error)

\* Callers with a lease credential, current or stale.
LeaseStep ==
    \E j \in Job, t \in Stamps :
        \/ \E interactive \in BOOLEAN, d \in LeaseSeconds : LeaseNext(j, interactive, d, t)
        \/ \E n \in Numbers :
               \/ MarkRunning(j, n, t)
               \/ BindWorkerPid(j, n, t)
               \/ AbandonUnstartedLease(j, n, t)
               \/ \E d \in LeaseSeconds : HeartbeatLease(j, n, d, t)
               \/ \E to \in SuspendTarget, receipts, error \in BOOLEAN :
                     SuspendLease(j, n, to, receipts, error, t)
               \/ \E to \in ResultTarget, completed, receipts, error \in BOOLEAN :
                     CommitWorkerResult(j, n, to, completed, receipts, error, t)

\* Fencing and its resolution.
FenceStep ==
    \E j \in Job, n \in Numbers :
        \/ \E p \in Priority, t \in Stamps : FencePreemptibleLease(j, n, p, t)
        \/ \E t \in Stamps : FenceLease(j, n, t)
        \/ \E gen \in 1 .. MaxFence :
               \/ CancelPreemptionFence(j, n, gen)
               \/ \E p \in Priority : ResolvePreemptedLease(j, n, gen, p)
               \/ MarkPreemptionRecoveryRequired(j, n, gen)
               \/ ResolveFencedLease(j, n, gen)

Next == OperatorStep \/ LeaseStep \/ FenceStep \/ Tick

Spec == Init /\ [][Next]_vars

-----------------------------------------------------------------------------
(* Safety.                                                                 *)

\* A lease row belongs to the newest attempt of a job that is leased or
\* running, and that attempt row is open in the same status: no operation
\* moves the job and forgets the lease (the DELETE that ends every operation).
LeaseCurrent ==
    \A j \in Job : Leased(j) =>
        /\ jobs[j].status \in OpenAttempt
        /\ leases[j].attempt = jobs[j].attemptCount
        /\ attempts[j][leases[j].attempt].status = jobs[j].status

\* An attempt row is open only while its own lease exists: no attempt is left
\* behind as running after its job was requeued, fenced or suspended.
NoOrphanAttempt ==
    \A j \in Job, n \in Numbers :
        attempts[j][n].status \in OpenAttempt => leases[j].attempt = n

\* However preemptions, expiries and requeues interleave, the attempts that
\* were not refunded never exceed max_attempts.
BudgetKept ==
    \A j \in Job : Exists(j) => Spent(j) <= jobs[j].env.maxAttempts

\* A dangerous job that is queued, held, suspended or finished has been
\* confirmed: there is no path around confirm_job, not through deferral,
\* suspension, lease expiry or a generic transition.
DangerousConfirmed ==
    \A j \in Job :
        /\ jobs[j].env.effect \in Dangerous
        /\ jobs[j].status \notin {"absent", "needs_confirmation", "cancelled", "timed_out"}
        => jobs[j].confirmed

\* A dangerous job whose external effect is unknown is never queued, leased or
\* run again while it is unknown: it waits for a human or is over.
AmbiguousNeverRuns ==
    \A j \in Job :
        jobs[j].env.effect \in Dangerous /\ jobs[j].ambiguous =>
            jobs[j].status \in {"needs_confirmation", "failed", "timed_out", "cancelled"}

\* What _job_from_row demands of a row.  It is checked only when a row is
\* read, after the commit, so a violation would make the job unreadable.
CanonicalRow ==
    \A j \in Job : LET row == jobs[j] IN
        /\ row.ambiguous <=> row.phase = "ambiguous"
        /\ row.env.effect \notin Writing => row.phase = "not_applicable"
        /\ row.status \in NeedsError => row.error
        /\ row.status \in Finished => row.finished
        /\ row.status = "succeeded" => row.completed

\* A commit phase of verified is evidence: the job succeeded under a lease,
\* and a dangerous one left a receipt.
VerifiedHasEvidence ==
    \A j \in Job : jobs[j].phase = "verified" =>
        /\ jobs[j].status = "succeeded"
        /\ jobs[j].env.effect \in Dangerous => jobs[j].receipts

\* No lease and no heartbeat outlives the job's deadline.
LeaseWithinDeadline ==
    \A j \in Job : leases[j].expires <= jobs[j].env.deadline

-----------------------------------------------------------------------------
(* What a step may never do.                                               *)

\* Nothing about a finished job changes again, late results, replayed
\* confirmations and stale credentials included.
TerminalIsFinal ==
    [][\A j \in Job : jobs[j].status \in Terminal => jobs'[j] = jobs[j]]_vars

\* An attempt that ended keeps its outcome: a credential of an older attempt
\* cannot rewrite history through a newer lease of the same job.
ClosedAttemptIsFinal ==
    [][\A j \in Job, n \in Numbers :
          attempts[j][n].status \notin OpenAttempt \cup {"none"} =>
              attempts'[j][n] = attempts[j][n]]_vars

\* A result that arrives after the fence changes nothing: a fenced job can
\* only be requeued, deferred, sent to a human or timed out, and it keeps the
\* evidence it had.
FencedResultRejected ==
    [][\A j \in Job : Fenced(j) /\ jobs'[j] # jobs[j] =>
          /\ jobs'[j].status \in {"queued", "deferred", "needs_confirmation", "timed_out"}
          /\ jobs'[j].receipts = jobs[j].receipts
          /\ jobs'[j].completed = jobs[j].completed]_vars

\* The ledger never puts a job that may have written something back in the
\* queue by itself: while a lease exists only a safe job can be requeued.
WriteNeverAutoRequeued ==
    [][\A j \in Job : Leased(j) /\ jobs'[j].status = "queued" =>
          jobs[j].env.effect \notin Writing]_vars

-----------------------------------------------------------------------------
(* The ledger implements the lease contract.                               *)

Conclusion(j) == IF jobs[j].status \in Terminal THEN jobs[j].status ELSE "pending"

Contract == INSTANCE LeaseContract WITH
    Outcome <- Terminal, Pending <- "pending", Expired <- "timed_out",
    owner   <- [j \in Job |-> leases[j].attempt],
    issued  <- [j \in Job |-> jobs[j].attemptCount],
    barred  <- [j \in Job |-> Fenced(j)],
    outcome <- [j \in Job |-> Conclusion(j)]

\* Every behaviour of the three tables, forgetting confirmations, phases and
\* times, is a behaviour of the contract.
ImplementsContract == Contract!Spec

-----------------------------------------------------------------------------
(* Claims of the repository that the code does not keep.                   *)

\* ledger.py: "dangerous successful completion requires a side-effect receipt".
DangerousSuccessHasReceipt ==
    \A j \in Job :
        jobs[j].status = "succeeded" /\ jobs[j].env.effect \in Dangerous
            => jobs[j].receipts

\* test_core_ledger.py: "A preempted attempt is an interrupted scheduling
\* slice, not a business failure": an expiry ends the job for lack of attempts
\* only when the attempts that were not preempted reach max_attempts.
PreemptionRefunded ==
    [][\A j \in Job :
          Fenced(j) /\ jobs'[j].status = "timed_out" =>
              Spent(j) >= jobs[j].env.maxAttempts]_vars
=============================================================================
