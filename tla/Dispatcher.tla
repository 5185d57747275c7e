----------------------------- MODULE Dispatcher -----------------------------
(***************************************************************************)
(* The durable dispatcher of magi_v3/dispatcher.py over the worker         *)
(* supervisor of magi_v3/supervisor.py and the ledger (JobLedger).         *)
(*                                                                         *)
(* One lock serialises the dispatcher's own calls, so at most one call is  *)
(* in progress; op is where it stands.  A call is a sequence of ledger     *)
(* transactions and supervisor calls, one step each, and between two of    *)
(* them the clock moves, workers exit, the API changes jobs, the process   *)
(* dies.  The clock is read where the code reads it: op.t is a timestamp   *)
(* that a call keeps using, however old it has become.                     *)
(***************************************************************************)
EXTENDS JobLedger

CONSTANTS
    EnvelopeOf,  \* the envelope of each job, submitted at time 0
    LeaseTime,   \* lease_seconds of the dispatcher
    Verdicts,    \* what completion verifiers answer, see VerdictType
    MaxHeavy,    \* ResourcePolicy.max_heavy
    MaxLight,    \* ResourcePolicy.max_light
    ReservedP0,  \* ResourcePolicy.reserved_p0_light_slots
    MaxFaults,   \* bound: failed ledger transactions and failed kills
    MaxStops     \* bound: crashes and restarts of the core process

VerdictType == [target : ResultTarget \cup SuspendTarget, completed : BOOLEAN,
                receipts : BOOLEAN, error : BOOLEAN]

ASSUME DispatcherAssumption ==
    /\ EnvelopeOf \in [Job -> Envelope]
    /\ LeaseTime \in LeaseSeconds /\ Verdicts \subseteq VerdictType
    /\ MaxHeavy \in Nat /\ MaxLight \in Nat /\ ReservedP0 \in 0 .. MaxLight
    /\ MaxFaults \in Nat /\ MaxStops \in Nat

VARIABLES
    active,  \* _active: the attempt a handle stands for and its cached expires_at
    table,   \* the supervisor's _workers: attempt and whether its process exited
    alive,   \* process groups that exist, <<job, attempt>>; they outlive the core
    op,      \* the dispatcher call in progress
    faults,  \* failures injected so far
    stops    \* restarts of the core so far

own == <<active, table, alive, op, faults, stops>>
dvars == <<vars, own>>

NoHandle == [n |-> 0, expires |-> 0]
NoWorker == [n |-> 0, exited |-> FALSE]
Idle == [pc |-> "idle"]
Busy == {"preempt", "drain", "requeue", "mark", "start", "startfail", "bind",
         "unbind", "unbindcommit", "settle", "commit", "expire", "kill",
         "fence", "resolve"}
Call == [pc : Busy, job : Job, n : Numbers, fast : BOOLEAN, t : Nat, victim : Job]

DTypeOK ==
    /\ TypeOK
    /\ active \in [Job -> [n : 0 .. MaxAttemptNo, expires : Nat]]
    /\ table \in [Job -> [n : 0 .. MaxAttemptNo, exited : BOOLEAN]]
    /\ alive \subseteq Job \X Numbers
    /\ op \in Call \cup {Idle}
    /\ faults \in 0 .. MaxFaults /\ stops \in 0 .. MaxStops

DInit ==
    /\ jobs = [j \in Job |-> NewRow(EnvelopeOf[j])]
    /\ attempts = [j \in Job |-> [n \in Numbers |-> NoAttempt]]
    /\ leases = [j \in Job |-> NoLease]
    /\ now = 0
    /\ active = [j \in Job |-> NoHandle]
    /\ table = [j \in Job |-> NoWorker]
    /\ alive = {}
    /\ op = Idle
    /\ faults = 0 /\ stops = 0

\* The call goes on at pc, or ends.
At(pc) == op.pc = pc
Goto(pc) == op' = [op EXCEPT !.pc = pc]
GotoAt(pc, t) == op' = [op EXCEPT !.pc = pc, !.t = t]
\* Mutant: the call is marked done instead of leaving the lock.
ReturnDone == op' = [pc |-> "done"]

Return == op' = Idle

NoFault == UNCHANGED faults
Fault == faults < MaxFaults /\ faults' = faults + 1

Pop(j) == active' = [active EXCEPT ![j] = NoHandle]

\* Mutant: the table entry goes, children of the process stay.
ReapLeader(j) ==
    /\ table' = [table EXCEPT ![j] = NoWorker]
    /\ alive' = alive

\* terminate and _finalize_locked: the process is dead, its group drained, the
\* table entry and with it the resource lease gone.
Reap(j) ==
    /\ table' = [table EXCEPT ![j] = NoWorker]
    /\ alive' = alive \ {<<j, table[j].n>>}

Owns(j, n) == table[j].n = n

-----------------------------------------------------------------------------
(* dispatch_next: lease, build the worker spec, make room, start, bind.     *)

\* The factory may raise, or answer a spec that does not match the job.
Begin(j, fast, t) ==
    /\ At("idle")
    /\ LeaseNext(j, fast, LeaseTime, t)
    /\ \E pc \in {IF fast THEN "preempt" ELSE "mark", "settle"} :
          op' = [pc |-> pc, job |-> j, n |-> jobs[j].attemptCount + 1,
                 fast |-> fast, t |-> t, victim |-> j]
    /\ UNCHANGED <<active, table, alive, faults, stops>>

\* The handles an interactive job may push aside, cheapest first.
Victims(j) ==
    {v \in Job : /\ active[v].n # 0
                 /\ SafeToPreempt(jobs[v].env) /\ Preemptible(jobs[v].env)
                 /\ Weight[jobs[v].env.priority] < Weight[jobs[j].env.priority]}

NextVictims(j) ==
    {v \in Victims(j) : \A w \in Victims(j) :
        Weight[jobs[v].env.priority] <= Weight[jobs[w].env.priority]}

NoVictimLeft ==
    /\ At("preempt") /\ Victims(op.job) = {}
    /\ Goto("mark")
    /\ UNCHANGED <<vars, active, table, alive, faults, stops>>

FenceVictim ==
    /\ At("preempt")
    /\ \E v \in NextVictims(op.job) :
          /\ Owns(v, active[v].n)
          /\ FencePreemptibleLease(v, active[v].n, jobs[op.job].env.priority, op.t)
          /\ op' = [op EXCEPT !.pc = "drain", !.victim = v]
    /\ UNCHANGED <<active, table, alive, faults, stops>>

\* Not the owner of the process any more, or the ledger refuses the fence.
RefuseVictim ==
    /\ At("preempt")
    /\ \E v \in NextVictims(op.job) :
          ~Owns(v, active[v].n) \/ Fenced(v) \/ leases[v].expires <= op.t
    /\ Goto("settle")
    /\ UNCHANGED <<vars, active, table, alive, faults, stops>>

\* Mutant: the victim is requeued without waiting for its process.
DrainVictimLater ==
    /\ At("drain")
    /\ Goto("requeue")
    /\ UNCHANGED <<vars, active, table, alive, faults, stops>>

DrainVictim ==
    /\ At("drain")
    /\ Reap(op.victim)
    /\ Goto("requeue")
    /\ UNCHANGED <<vars, active, faults, stops>>

\* No proof that the group is gone: the victim gets its lease back.
DrainFails ==
    /\ At("drain") /\ Fault
    /\ \E gen \in 1 .. MaxFence :
          CancelPreemptionFence(op.victim, active[op.victim].n, gen)
    /\ Goto("settle")
    /\ UNCHANGED <<active, table, alive, stops>>

RequeueVictim ==
    /\ At("requeue")
    /\ \E gen \in 1 .. MaxFence :
          ResolvePreemptedLease(op.victim, active[op.victim].n, gen,
                                jobs[op.job].env.priority)
    /\ Pop(op.victim) /\ Goto("preempt")
    /\ UNCHANGED <<table, alive, faults, stops>>

RequeueFails ==
    /\ At("requeue") /\ Fault
    /\ \E gen \in 1 .. MaxFence :
          MarkPreemptionRecoveryRequired(op.victim, active[op.victim].n, gen)
    /\ Pop(op.victim) /\ Goto("settle")
    /\ UNCHANGED <<table, alive, stops>>

\* mark_running reuses the timestamp of lease_next.
Mark ==
    /\ At("mark")
    /\ MarkRunning(op.job, op.n, op.t)
    /\ Goto("start")
    /\ UNCHANGED <<active, table, alive, faults, stops>>

MarkFails ==
    /\ At("mark") /\ Fault
    /\ Goto("settle")
    /\ UNCHANGED <<vars, active, table, alive, stops>>

\* The governor holds one slot per worker in the table.
Tracked(heavy) == {j \in Job : table[j].n # 0 /\ jobs[j].env.heavy = heavy}
NotP0(workers) == {j \in workers : jobs[j].env.priority # "P0"}

\* Mutant: off by one.
AdmittedOneMore(j) ==
    IF jobs[j].env.heavy THEN Cardinality(Tracked(TRUE)) <= MaxHeavy
                         ELSE Cardinality(Tracked(FALSE)) <= MaxLight

\* The slots the governor counts, the last light ones kept for P0; what it asks
\* of the host (memory, heat, CPU) only refuses more.
Admitted(j) ==
    IF jobs[j].env.heavy
    THEN Cardinality(Tracked(TRUE)) < MaxHeavy
    ELSE /\ Cardinality(Tracked(FALSE)) < MaxLight
         /\ \/ jobs[j].env.priority = "P0"
            \/ Cardinality(NotP0(Tracked(FALSE))) < MaxLight - ReservedP0

StartWorker ==
    /\ At("start")
    /\ Admitted(op.job) /\ table[op.job].n = 0
    /\ table' = [table EXCEPT ![op.job] = [n |-> op.n, exited |-> FALSE]]
    /\ alive' = alive \cup {<<op.job, op.n>>}
    /\ Goto("bind")
    /\ UNCHANGED <<vars, active, faults, stops>>

\* Admission denied, a worker already there, or the spawn itself failed.
StartRefused ==
    /\ At("start")
    /\ Goto("startfail")
    /\ UNCHANGED <<vars, active, table, alive, faults, stops>>

\* The lease is not held at t: the failure has to be settled through a fence.
Conflict(t) ==
    /\ ~HeldBy(op.job, op.n, t)
    /\ GotoAt("fence", t)
    /\ UNCHANGED vars

StartFails(t) ==
    /\ At("startfail")
    /\ \/ op.fast /\ SuspendLease(op.job, op.n, "deferred", FALSE, TRUE, t) /\ Return
       \/ ~op.fast /\ Return
          /\ CommitWorkerResult(op.job, op.n, "failed", FALSE, FALSE, TRUE, t)
       \/ Conflict(t)
    /\ UNCHANGED <<active, table, alive, faults, stops>>

Bind(t) ==
    /\ At("bind")
    /\ BindWorkerPid(op.job, op.n, t)
    /\ active' = [active EXCEPT
           ![op.job] = [n |-> op.n, expires |-> leases[op.job].expires]]
    /\ Return
    /\ UNCHANGED <<table, alive, faults, stops>>

BindFails(t) ==
    /\ At("bind")
    /\ \/ ~HeldBy(op.job, op.n, t) /\ NoFault
       \/ Fault
    /\ GotoAt("unbind", t)
    /\ UNCHANGED <<vars, active, table, alive, stops>>

\* Mutant: the failure is committed, the worker is left for later.
KillUnboundLater ==
    /\ At("unbind")
    /\ Goto("unbindcommit")
    /\ UNCHANGED <<vars, active, table, alive, faults, stops>>

KillUnbound ==
    /\ At("unbind")
    /\ Reap(op.job)
    /\ Goto("unbindcommit")
    /\ UNCHANGED <<vars, active, faults, stops>>

\* The exception of terminate leaves dispatch_next: no handle, no settlement.
KillUnboundFails ==
    /\ At("unbind") /\ Fault
    /\ Return
    /\ UNCHANGED <<vars, active, table, alive, stops>>

CommitUnbound ==
    /\ At("unbindcommit")
    /\ \/ Return /\ CommitWorkerResult(op.job, op.n, "failed", FALSE, FALSE, TRUE, op.t)
       \/ Conflict(op.t)
    /\ UNCHANGED <<active, table, alive, faults, stops>>

\* Mutant: a conflict while settling is swallowed.
SettleQuietly(t) ==
    /\ At("settle")
    /\ \/ AbandonUnstartedLease(op.job, op.n, t)
       \/ ~HeldBy(op.job, op.n, t) /\ UNCHANGED vars
    /\ Return
    /\ UNCHANGED <<active, table, alive, faults, stops>>

\* _settle_unstarted_failure: nothing was started, so the lease is abandoned.
Settle(t) ==
    /\ At("settle")
    /\ \/ AbandonUnstartedLease(op.job, op.n, t) /\ Return
       \/ Conflict(t)
    /\ UNCHANGED <<active, table, alive, faults, stops>>

-----------------------------------------------------------------------------
(* poll, commit_result, expire and heartbeat of an active handle.           *)

CallFor(j, pc, t) ==
    op' = [pc |-> pc, job |-> j, n |-> active[j].n, fast |-> FALSE, t |-> t,
           victim |-> j]

Handled(j) == At("idle") /\ active[j].n # 0

\* poll finds the process exited, or past the worker's own timeout and kills it.
PollExited(j) ==
    /\ Handled(j)
    /\ Owns(j, active[j].n) /\ table[j].exited
    /\ Reap(j)
    /\ CallFor(j, "commit", now)
    /\ UNCHANGED <<vars, active, faults, stops>>

PollTimedOut(j) ==
    /\ Handled(j)
    /\ Owns(j, active[j].n) /\ ~table[j].exited
    /\ Reap(j)
    /\ CallFor(j, "commit", now)
    /\ UNCHANGED <<vars, active, faults, stops>>

\* VerifiedCompletion.validate: success is business success, and with a receipt
\* when the job is dangerous; failures carry an error.
Valid(c, env) ==
    /\ c.target = "succeeded" <=> c.completed
    /\ c.target = "succeeded" /\ env.effect \in Dangerous => c.receipts
    /\ c.target \in NeedsError => c.error

\* What a killed, timed out or failed worker, or an invalid verdict, comes to.
Broken == {[target |-> to, completed |-> FALSE, receipts |-> FALSE, error |-> TRUE] :
              to \in {"failed", "timed_out"}}

CommitResult(t) ==
    /\ At("commit")
    /\ \E c \in Broken \cup {v \in Verdicts : Valid(v, jobs[op.job].env)} :
          \/ SuspendLease(op.job, op.n, c.target, c.receipts, c.error, t)
          \/ CommitWorkerResult(op.job, op.n, c.target, c.completed, c.receipts,
                                c.error, t)
    /\ Pop(op.job) /\ Return
    /\ UNCHANGED <<table, alive, faults, stops>>

\* Mutant: the late result is dropped and nothing else.
CommitTooLateDropped(t) ==
    /\ At("commit")
    /\ ~HeldBy(op.job, op.n, t)
    /\ Return
    /\ UNCHANGED <<vars, active, table, alive, faults, stops>>

\* The result came too late: it is dropped, the lease is fenced and resolved.
CommitTooLate(t) ==
    /\ At("commit")
    /\ Conflict(t)
    /\ UNCHANGED <<active, table, alive, faults, stops>>

\* poll of a handle whose cached lease ran out, or expire called by hand.
Expire(j, t) ==
    /\ Handled(j)
    /\ active[j].expires <= t \/ Fenced(j)
    /\ CallFor(j, "expire", t)
    /\ UNCHANGED <<vars, active, table, alive, faults, stops>>

\* fence_lease; a fence that still stands from an earlier try is taken over.
FenceHeld(pc, next) ==
    /\ At(pc)
    /\ \/ FenceLease(op.job, op.n, op.t)
       \/ Fenced(op.job) /\ UNCHANGED vars
    /\ Goto(next)
    /\ UNCHANGED <<active, table, alive, faults, stops>>

KillFenced ==
    /\ At("kill")
    /\ Owns(op.job, op.n)
    /\ Reap(op.job)
    /\ Goto("resolve")
    /\ UNCHANGED <<vars, active, faults, stops>>

\* The worker is not in the table, or cannot be killed: the fence stays.
KillFencedFails ==
    /\ At("kill")
    /\ \/ ~Owns(op.job, op.n) /\ NoFault
       \/ Fault
    /\ Return
    /\ UNCHANGED <<vars, active, table, alive, stops>>

Resolve ==
    /\ At("resolve")
    /\ \E gen \in 1 .. MaxFence : ResolveFencedLease(op.job, op.n, gen)
    /\ Pop(op.job) /\ Return
    /\ UNCHANGED <<table, alive, faults, stops>>

\* Mutant: the handle keeps the old expires_at.
HeartbeatLedgerOnly(j, t) ==
    /\ Handled(j)
    /\ HeartbeatLease(j, active[j].n, LeaseTime, t)
    /\ UNCHANGED own

Heartbeat(j, t) ==
    /\ Handled(j)
    /\ HeartbeatLease(j, active[j].n, LeaseTime, t)
    /\ active' = [active EXCEPT ![j].expires = LeaseEnd(j, LeaseTime, t)]
    /\ UNCHANGED <<table, alive, op, faults, stops>>

\* A transaction of the call raises something other than a lease conflict, a
\* busy or broken database, where the code has no handler for it.
LedgerRaises ==
    /\ op.pc \in {"startfail", "unbindcommit", "settle", "commit", "expire",
                  "fence", "resolve"}
    /\ Fault /\ Return
    /\ UNCHANGED <<vars, active, table, alive, stops>>

-----------------------------------------------------------------------------
(* Everything around the dispatcher.                                        *)

\* The worker's process exits; children it left keep the group alive.
WorkerExits(j) ==
    /\ table[j].n # 0 /\ ~table[j].exited
    /\ table' = [table EXCEPT ![j].exited = TRUE]
    /\ \E left \in {{}, {<<j, table[j].n>>}} :
          alive' = (alive \ {<<j, table[j].n>>}) \cup left
    /\ UNCHANGED <<vars, active, op, faults, stops>>

\* A process group of an earlier core ends by itself.
OrphanEnds(j, n) ==
    /\ <<j, n>> \in alive /\ ~Owns(j, n)
    /\ alive' = alive \ {<<j, n>>}
    /\ UNCHANGED <<vars, active, table, op, faults, stops>>

\* The core dies, or closes and kills its workers first; a new one starts with
\* empty memory and the same ledger.
Restart(killed) ==
    /\ stops < MaxStops /\ stops' = stops + 1
    /\ alive' = alive \ (IF killed THEN {<<j, table[j].n>> : j \in Job} ELSE {})
    /\ active' = [j \in Job |-> NoHandle]
    /\ table' = [j \in Job |-> NoWorker]
    /\ op' = Idle
    /\ UNCHANGED <<vars, faults>>

\* The API: confirm, put a held job back in the queue, cancel.
Api ==
    /\ \E j \in Job, t \in Stamps :
          \/ \E token \in Token : ConfirmJob(j, token, t)
          \/ \E to \in {"queued", "cancelled"} : TransitionJob(j, to, FALSE, TRUE)
    /\ UNCHANGED own

DTick == Tick /\ UNCHANGED own

-----------------------------------------------------------------------------
Dispatch == \E j \in Job, fast \in BOOLEAN, t \in Stamps : Begin(j, fast, t)

\* A call in progress goes on as the code wrote it, no fault injected.
Proceed ==
    \/ NoVictimLeft \/ FenceVictim \/ RefuseVictim \/ DrainVictim \/ RequeueVictim
    \/ Mark \/ StartWorker \/ StartRefused \/ KillUnbound \/ CommitUnbound
    \/ FenceHeld("expire", "kill") \/ FenceHeld("fence", "resolve")
    \/ KillFenced \/ Resolve
    \/ \E t \in Stamps :
          StartFails(t) \/ Bind(t) \/ Settle(t) \/ CommitResult(t) \/ CommitTooLate(t)

Failure ==
    \/ DrainFails \/ RequeueFails \/ MarkFails \/ KillUnboundFails
    \/ KillFencedFails \/ LedgerRaises
    \/ \E t \in Stamps : BindFails(t)

Watch(j) == PollExited(j) \/ \E t \in Stamps : Expire(j, t)

Handle ==
    \E j \in Job : Watch(j) \/ PollTimedOut(j) \/ \E t \in Stamps : Heartbeat(j, t)

Environment ==
    \/ \E j \in Job : WorkerExits(j) \/ \E n \in Numbers : OrphanEnds(j, n)
    \/ \E killed \in BOOLEAN : Restart(killed)
    \/ Api \/ DTick

DNext == Dispatch \/ Proceed \/ Failure \/ Handle \/ Environment

DSpec == DInit /\ [][DNext]_dvars

\* A call that holds the lock runs on, the caller keeps polling every handle,
\* and time passes.  Workers need not exit and nobody need dispatch.
DFairSpec ==
    /\ DSpec
    /\ WF_dvars(Proceed \/ Failure)
    /\ \A j \in Job : WF_dvars(Watch(j))
    /\ WF_dvars(DTick)

-----------------------------------------------------------------------------
(* Properties.                                                             *)

\* A process group that exists belongs to the attempt that holds the lease of
\* its running job: no path lets go of a lease before its worker is drained,
\* so no second attempt ever runs beside it, a restart of the core included.
WorkerHasLease ==
    \A j \in Job, n \in Numbers : <<j, n>> \in alive =>
        leases[j].attempt = n /\ jobs[j].status = "running"

\* The expires_at a handle caches is the one in the ledger, of the attempt that
\* holds the lease: poll never fences a lease that a heartbeat had extended,
\* nor leaves one alone that ran out.
HandleMirrorsLease ==
    \A j \in Job : active[j].n # 0 =>
        leases[j].attempt = active[j].n /\ leases[j].expires = active[j].expires

Calm == faults = 0 /\ stops = 0

\* Whatever way a dispatcher call ends, a lease that is left has a handle, the
\* handle a worker the supervisor knows, and no fence is left standing.
NoOrphanLease ==
    Calm /\ op = Idle =>
        \A j \in Job : Leased(j) =>
            active[j].n = leases[j].attempt /\ Owns(j, active[j].n) /\ ~Fenced(j)

\* Until the core restarts, the heavy process groups that really exist, the
\* ones whose process exited and left children included, are within max_heavy.
HeavyLimit ==
    stops = 0 =>
        Cardinality({w \in alive : jobs[w[1]].env.heavy}) <= MaxHeavy

\* A victim is pushed aside only for an interactive job that holds a lease and
\* outranks it, and only with its own process group gone.
PreemptedForHigher ==
    [][\A j \in Job, n \in Numbers :
          attempts'[j][n].status = "preempted" /\ attempts[j][n].status # "preempted" =>
              /\ \A m \in Numbers : <<j, m>> \notin alive'
              /\ \E i \in Job : /\ Leased(i) /\ ~jobs[i].env.heavy
                                /\ Weight[jobs[i].env.priority] > Weight[jobs[j].env.priority]]_dvars

\* The dispatcher, the supervisor and the ledger together keep WorkerContract:
\* through every failure, preemption and crash a job changes hands only when no
\* process of its last owner is left, and no fenced owner launches one.
WorkerPromise == INSTANCE WorkerContract WITH
    Outcome <- Terminal, Pending <- "pending", Expired <- "timed_out",
    owner   <- [j \in Job |-> leases[j].attempt],
    issued  <- [j \in Job |-> jobs[j].attemptCount],
    barred  <- [j \in Job |-> Fenced(j)],
    outcome <- [j \in Job |-> Conclusion(j)],
    running <- alive

ImplementsWorkerContract == WorkerPromise!WSpec

\* Every lease is given back in the end, whether its worker exits or hangs.
LeaseSettles == \A j \in Job : Leased(j) ~> ~Leased(j)
=============================================================================
