-------------------------- MODULE DispatcherProofs --------------------------
(***************************************************************************)
(* Theorems about Dispatcher, for every set of jobs, every slot limit and  *)
(* every bound.  The ledger's part is the invariant of JobLedgerProofs,    *)
(* whose lemmas hold for a timestamp of any age; the dispatcher's part is  *)
(* a condition on every job and one on the call in progress.               *)
(***************************************************************************)
EXTENDS Dispatcher, JobLedgerProofs

\* The call in progress is typed, or there is none.
LEMMA OpTyped ==
  ASSUME DTypeOK
  PROVE  /\ op.pc # "idle" => op \in Call
         /\ op.pc = "idle" <=> op = Idle
         /\ op.pc \in Busy \cup {"idle"}
  BY DEF DTypeOK, Call, Idle, Busy

\* The fields of the call in progress.
LEMMA OpFields ==
  ASSUME DTypeOK, op.pc # "idle"
  PROVE  op.job \in Job /\ op.n \in Numbers /\ op.t \in Nat /\ op.victim \in Job
         /\ op.n # 0 /\ op.fast \in BOOLEAN
<1>1. op \in Call
  BY OpTyped
<1>2. 0 \notin Numbers
  BY BoundsAssumption DEF Numbers
<1>3. QED
  BY <1>1, <1>2 DEF Call

LEMMA PriorityTyped ==
  ASSUME TypeOK, NEW j \in Job
  PROVE  jobs[j].env \in EnvelopeType /\ jobs[j].env.priority \in Priority
  BY EnvelopeAssumption DEF TypeOK, Row, EnvelopeType

-----------------------------------------------------------------------------
(* The tables a dispatcher starts from.                                    *)

LEMMA LedgerStart == DInit => IInv
<1> SUFFICES ASSUME DInit PROVE IInv
  OBVIOUS
<1>1. ASSUME NEW j \in Job
      PROVE  EnvelopeOf[j] \in Envelope /\ NewRow(EnvelopeOf[j]) \in Row
             /\ RowSound(NewRow(EnvelopeOf[j]))
  BY DispatcherAssumption, NewRowTyped, NewRowSound
<1>2. NoAttempt \in Attempt
  BY DEF NoAttempt, Attempt, AttemptStatus
<1>3. NoLease \in Lease
  BY BoundsAssumption DEF NoLease, Lease, FenceReason
<1>4. TypeOK
  BY <1>1, <1>2, <1>3 DEF DInit, TypeOK, Numbers
<1>5. ASSUME NEW j \in Job PROVE JobSound(j)
  <2>1. RowSound(jobs[j]) /\ jobs[j].env \in Envelope
    BY <1>1 DEF DInit, NewRow
  <2>2. leases[j] = NoLease /\ \A n \in Numbers : attempts[j][n] = NoAttempt
    BY DEF DInit
  <2>3. jobs[j].env.deadline \in Nat
    BY <2>1, EnvelopeAssumption DEF EnvelopeType
  <2>4. QED
    BY <2>1, <2>2, <2>3 DEF JobSound, Leased, NoLease, NoAttempt, OpenAttempt
<1>6. QED
  BY <1>4, <1>5 DEF IInv

LEMMA StampTyped == ASSUME TypeOK, NEW t \in Stamps PROVE t \in Nat
  BY StampsAreNaturals

-----------------------------------------------------------------------------
(* Whatever the dispatcher does to the ledger is one operation of the      *)
(* ledger, with the timestamp the call happens to hold.                    *)

\* The number of a lease that is there.
LEMMA AttemptNumber ==
  ASSUME TypeOK, NEW j \in Job, NEW n, n # 0, leases[j].attempt = n
  PROVE  n \in Numbers
  BY BoundsAssumption DEF TypeOK, Lease, Numbers

LEMMA LeaseOperation ==
  ASSUME TypeOK, NEW j \in Job, NEW n, NEW t \in Nat,
         \/ MarkRunning(j, n, t) \/ BindWorkerPid(j, n, t)
         \/ AbandonUnstartedLease(j, n, t) \/ HeartbeatLease(j, n, LeaseTime, t)
  PROVE  LateNext
<1>1. n \in Numbers
  BY AttemptNumber DEF MarkRunning, BindWorkerPid, AbandonUnstartedLease, HeartbeatLease, HeldBy
<1>2. LateLeaseStep
  BY <1>1, DispatcherAssumption DEF LateLeaseStep
<1>3. QED
  BY <1>2 DEF LateNext

LEMMA ResultOperation ==
  ASSUME TypeOK, NEW j \in Job, NEW n, NEW t \in Nat, NEW to,
         NEW c \in BOOLEAN, NEW r \in BOOLEAN, NEW e \in BOOLEAN,
         SuspendLease(j, n, to, r, e, t) \/ CommitWorkerResult(j, n, to, c, r, e, t)
  PROVE  LateNext
<1>1. n \in Numbers
  BY AttemptNumber DEF SuspendLease, CommitWorkerResult, FinishLease, HeldBy
<1>2. CASE SuspendLease(j, n, to, r, e, t)
  <2>1. to \in SuspendTarget
    BY <1>2 DEF SuspendLease
  <2>2. LateLeaseStep
    BY <1>1, <1>2, <2>1 DEF LateLeaseStep
  <2>3. QED
    BY <2>2 DEF LateNext
<1>3. CASE CommitWorkerResult(j, n, to, c, r, e, t)
  <2>1. to \in ResultTarget
    BY <1>3 DEF CommitWorkerResult
  <2>2. LateLeaseStep
    BY <1>1, <1>3, <2>1 DEF LateLeaseStep
  <2>3. QED
    BY <2>2 DEF LateNext
<1>4. QED
  BY <1>2, <1>3

\* How a call ends a lease whose worker could not be started.
LEMMA FailedOperation ==
  ASSUME TypeOK, NEW j \in Job, NEW n, NEW t \in Nat,
         \/ CommitWorkerResult(j, n, "failed", FALSE, FALSE, TRUE, t)
         \/ SuspendLease(j, n, "deferred", FALSE, TRUE, t)
  PROVE  LateNext
<1>1. TRUE \in BOOLEAN /\ FALSE \in BOOLEAN
  OBVIOUS
<1>2. QED
  BY <1>1, ResultOperation, Zenon

LEMMA FenceOperation ==
  ASSUME TypeOK, NEW j \in Job, NEW n, NEW t \in Nat, NEW p \in Priority,
         FencePreemptibleLease(j, n, p, t) \/ FenceLease(j, n, t)
  PROVE  LateNext
<1>1. n \in Numbers
  BY AttemptNumber DEF FencePreemptibleLease, FenceLease
<1>2. LateFenceStep
  BY <1>1 DEF LateFenceStep
<1>3. QED
  BY <1>2 DEF LateNext

LEMMA ResolveOperation ==
  ASSUME TypeOK, NEW j \in Job, NEW n, NEW gen \in 1 .. MaxFence, NEW p \in Priority,
         \/ CancelPreemptionFence(j, n, gen) \/ ResolvePreemptedLease(j, n, gen, p)
         \/ MarkPreemptionRecoveryRequired(j, n, gen) \/ ResolveFencedLease(j, n, gen)
  PROVE  LateNext
<1>1. n \in Numbers
  BY AttemptNumber DEF CancelPreemptionFence, ResolvePreemptedLease,
                       MarkPreemptionRecoveryRequired, ResolveFencedLease, FenceMatches
<1>2. LateFenceStep
  BY <1>1 DEF LateFenceStep
<1>3. QED
  BY <1>2 DEF LateNext

LEMMA AnyPriority == "P0" \in Priority
  BY DEF Priority

LEMMA DispatchLate ==
  ASSUME DTypeOK, Dispatch
  PROVE  LateNext
<1>1. PICK j \in Job, fast \in BOOLEAN, t \in Stamps : LeaseNext(j, fast, LeaseTime, t)
  BY DEF Dispatch, Begin
<1>2. t \in Nat
  BY StampTyped DEF DTypeOK
<1>3. LateLeaseStep
  BY <1>1, <1>2, DispatcherAssumption DEF LateLeaseStep
<1>4. QED
  BY <1>3 DEF LateNext

LEMMA ProceedLate ==
  ASSUME DTypeOK, Proceed
  PROVE  [LateNext]_vars
<1>1. TypeOK /\ Stamps \subseteq Nat
  BY StampTyped DEF DTypeOK
<1>2. CASE NoVictimLeft \/ RefuseVictim \/ DrainVictim \/ StartWorker \/ StartRefused
           \/ KillUnbound \/ KillFenced
  BY <1>2 DEF NoVictimLeft, RefuseVictim, DrainVictim, StartWorker, StartRefused,
              KillUnbound, KillFenced
<1>3. CASE FenceVictim
  <2>1. op.job \in Job /\ op.t \in Nat
    BY <1>3, OpFields DEF FenceVictim, At
  <2>2. PICK v \in Job : FencePreemptibleLease(v, active[v].n, jobs[op.job].env.priority, op.t)
    BY <1>3 DEF FenceVictim, NextVictims, Victims
  <2>3. jobs[op.job].env.priority \in Priority
    BY <1>1, <2>1, PriorityTyped
  <2>4. QED
    BY <1>1, <2>1, <2>2, <2>3, FenceOperation
<1>4. CASE RequeueVictim
  <2>1. op.job \in Job /\ op.victim \in Job
    BY <1>4, OpFields DEF RequeueVictim, At
  <2>2. jobs[op.job].env.priority \in Priority
    BY <1>1, <2>1, PriorityTyped
  <2>3. QED
    BY <1>1, <1>4, <2>1, <2>2, ResolveOperation DEF RequeueVictim
<1>5. CASE Mark
  BY <1>1, <1>5, OpFields, LeaseOperation DEF Mark, At
<1>6. CASE FenceHeld("expire", "kill") \/ FenceHeld("fence", "resolve")
  <2>1. op.job \in Job /\ op.t \in Nat /\ (FenceLease(op.job, op.n, op.t) \/ UNCHANGED vars)
    BY <1>6, OpFields DEF FenceHeld, At
  <2>2. QED
    BY <1>1, <2>1, AnyPriority, FenceOperation
<1>7. CASE Resolve
  BY <1>1, <1>7, OpFields, AnyPriority, ResolveOperation DEF Resolve, At
<1>8. CASE CommitUnbound
  <2>1. op.job \in Job /\ op.t \in Nat
    BY <1>8, OpFields DEF CommitUnbound, At
  <2>2. CommitWorkerResult(op.job, op.n, "failed", FALSE, FALSE, TRUE, op.t) \/ UNCHANGED vars
    BY <1>8 DEF CommitUnbound, Conflict
  <2>3. QED
    BY <1>1, <2>1, <2>2, FailedOperation
<1>9. ASSUME NEW t \in Stamps, StartFails(t) PROVE [LateNext]_vars
  <2>1. op.job \in Job /\ t \in Nat
    BY <1>1, <1>9, OpFields DEF StartFails, At
  <2>2. \/ CommitWorkerResult(op.job, op.n, "failed", FALSE, FALSE, TRUE, t)
        \/ SuspendLease(op.job, op.n, "deferred", FALSE, TRUE, t)
        \/ UNCHANGED vars
    BY <1>9 DEF StartFails, Conflict
  <2>3. QED
    BY <1>1, <2>1, <2>2, FailedOperation
<1>10. ASSUME NEW t \in Stamps, Bind(t) PROVE [LateNext]_vars
  BY <1>1, <1>10, OpFields, LeaseOperation DEF Bind, At
<1>11. ASSUME NEW t \in Stamps, Settle(t) PROVE [LateNext]_vars
  BY <1>1, <1>11, OpFields, LeaseOperation DEF Settle, Conflict, At
<1>12. ASSUME NEW t \in Stamps, CommitResult(t) PROVE [LateNext]_vars
  <2>1. op.job \in Job /\ t \in Nat
    BY <1>1, <1>12, OpFields DEF CommitResult, At
  <2>2. PICK c \in Broken \cup Verdicts :
           \/ SuspendLease(op.job, op.n, c.target, c.receipts, c.error, t)
           \/ CommitWorkerResult(op.job, op.n, c.target, c.completed, c.receipts,
                                 c.error, t)
    BY <1>12 DEF CommitResult
  <2>3. c.receipts \in BOOLEAN /\ c.error \in BOOLEAN /\ c.completed \in BOOLEAN
    <3>1. CASE c \in Broken
      <4>1. PICK to \in {"failed", "timed_out"} :
               c = [target |-> to, completed |-> FALSE, receipts |-> FALSE, error |-> TRUE]
        BY <3>1 DEF Broken
      <4>2. QED
        BY <4>1
    <3>2. CASE c \in Verdicts
      BY <3>2, DispatcherAssumption DEF VerdictType
    <3>3. QED
      BY <3>1, <3>2
  <2>4. QED
    BY <1>1, <2>1, <2>2, <2>3, ResultOperation
<1>13. ASSUME NEW t \in Stamps, CommitTooLate(t) PROVE [LateNext]_vars
  BY <1>13 DEF CommitTooLate, Conflict
<1>14. QED
  BY <1>2, <1>3, <1>4, <1>5, <1>6, <1>7, <1>8, <1>9, <1>10, <1>11, <1>12, <1>13
  DEF Proceed

LEMMA FailureLate ==
  ASSUME DTypeOK, Failure
  PROVE  [LateNext]_vars
<1>1. CASE MarkFails \/ KillUnboundFails \/ KillFencedFails \/ LedgerRaises
           \/ \E t \in Stamps : BindFails(t)
  BY <1>1 DEF MarkFails, KillUnboundFails, KillFencedFails, LedgerRaises, BindFails
<1>2. CASE DrainFails \/ RequeueFails
  <2>1. op.victim \in Job
    BY <1>2, OpFields DEF DrainFails, RequeueFails, At
  <2>2. QED
    BY <1>2, <2>1, AnyPriority, ResolveOperation DEF DrainFails, RequeueFails, DTypeOK
<1>3. QED
  BY <1>1, <1>2 DEF Failure

LEMMA HandleLate ==
  ASSUME DTypeOK, Handle
  PROVE  [LateNext]_vars
<1>1. ASSUME NEW j \in Job, Watch(j) \/ PollTimedOut(j) PROVE [LateNext]_vars
  BY <1>1 DEF Watch, PollExited, PollTimedOut, Expire
<1>2. ASSUME NEW j \in Job, NEW t \in Stamps, Heartbeat(j, t) PROVE [LateNext]_vars
  BY <1>2, StampTyped, LeaseOperation DEF Heartbeat, DTypeOK
<1>3. QED
  BY <1>1, <1>2 DEF Handle

LEMMA EnvironmentLate ==
  ASSUME DTypeOK, Environment
  PROVE  [LateNext]_vars
<1>1. CASE Api
  <2>1. PICK j \in Job, t \in Stamps :
           \/ \E token \in Token : ConfirmJob(j, token, t)
           \/ \E to \in {"queued", "cancelled"} : TransitionJob(j, to, FALSE, TRUE)
    BY <1>1 DEF Api
  <2>2. t \in Nat /\ {"queued", "cancelled"} \subseteq Status
    BY StampTyped DEF DTypeOK, Status
  <2>3. TRUE \in BOOLEAN /\ FALSE \in BOOLEAN
    OBVIOUS
  <2>4. LateOperatorStep
    BY <2>1, <2>2, <2>3, Zenon DEF LateOperatorStep
  <2>5. QED
    BY <2>4 DEF LateNext
<1>2. CASE DTick
  BY <1>2 DEF DTick, LateNext
<1>3. QED
  BY <1>1, <1>2 DEF Environment, WorkerExits, OrphanEnds, Restart

\* A step of the whole system is at most one operation of the ledger.
LEMMA LedgerOperation == DTypeOK /\ [DNext]_dvars => [LateNext]_vars
<1>1. UNCHANGED dvars => UNCHANGED vars
  BY DEF dvars
<1>2. QED
  BY <1>1, DispatchLate, ProceedLate, FailureLate, HandleLate, EnvironmentLate DEF DNext

LEMMA LedgerKept == IInv /\ DTypeOK /\ [DNext]_dvars => IInv'
  BY LedgerOperation, LateSound

-----------------------------------------------------------------------------
(* Types: what the parts of a step write of the dispatcher's own state.     *)

Handles == [Job -> [n : 0 .. MaxAttemptNo, expires : Nat]]
Workers == [Job -> [n : 0 .. MaxAttemptNo, exited : BOOLEAN]]
Calls == Call \cup {Idle}

OwnTypeOK ==
    /\ active \in Handles /\ table \in Workers
    /\ alive \subseteq Job \X Numbers
    /\ op \in Calls
    /\ faults \in 0 .. MaxFaults /\ stops \in 0 .. MaxStops

LEMMA OwnTyped == DTypeOK <=> TypeOK /\ OwnTypeOK
  BY DEF DTypeOK, OwnTypeOK, Handles, Workers, Calls

LEMMA OwnStart == DInit => OwnTypeOK
  BY BoundsAssumption, DispatcherAssumption
  DEF DInit, OwnTypeOK, Handles, Workers, Calls, NoHandle, NoWorker

LEMMA CallTyped ==
  ASSUME DTypeOK, op.pc # "idle", NEW pc \in Busy
  PROVE  /\ Goto(pc) => op' \in Calls
         /\ \A t \in Nat : GotoAt(pc, t) => op' \in Calls
<1>1. op \in Call
  BY OpTyped
<1>2. QED
  BY <1>1 DEF Goto, GotoAt, Call, Calls

LEMMA ReturnTyped == Return => op' \in Calls
  BY DEF Return, Calls

LEMMA ReapTyped ==
  ASSUME DTypeOK, NEW j \in Job, Reap(j)
  PROVE  table' \in Workers /\ alive' \subseteq Job \X Numbers
  BY BoundsAssumption DEF DTypeOK, Reap, Workers, NoWorker

LEMMA PopTyped ==
  ASSUME DTypeOK, NEW j \in Job, Pop(j)
  PROVE  active' \in Handles
  BY BoundsAssumption DEF DTypeOK, Pop, Handles, NoHandle

LEMMA FaultTyped ==
  ASSUME DTypeOK, Fault \/ NoFault
  PROVE  faults' \in 0 .. MaxFaults
  BY DispatcherAssumption DEF DTypeOK, Fault, NoFault

LEMMA DispatchTyped == ASSUME IInv, DTypeOK, Dispatch PROVE OwnTypeOK'
<1>1. PICK j \in Job, fast \in BOOLEAN, t \in Stamps : Begin(j, fast, t)
  BY DEF Dispatch
<1>2. jobs[j].attemptCount + 1 \in Numbers
  BY <1>1, BoundsAssumption DEF Begin, LeaseNext, DTypeOK, TypeOK, Row, Numbers
<1>3. t \in Nat
  BY <1>1, StampTyped DEF DTypeOK
<1>4. op' \in Calls
  BY <1>1, <1>2, <1>3 DEF Begin, Calls, Call, Busy
<1>5. QED
  BY <1>1, <1>4, OwnTyped DEF Begin, OwnTypeOK

LEMMA ProceedTyped == ASSUME IInv, DTypeOK, Proceed PROVE OwnTypeOK'
<1>1. OwnTypeOK /\ {"mark", "drain", "settle", "requeue", "preempt", "start", "bind",
                    "startfail", "fence", "unbindcommit", "kill", "resolve"} \subseteq Busy
  BY OwnTyped DEF Busy
<1>2. CASE NoVictimLeft \/ RefuseVictim \/ Mark \/ StartRefused
           \/ FenceHeld("expire", "kill") \/ FenceHeld("fence", "resolve")
  <2>1. op' \in Calls
    BY <1>1, <1>2, CallTyped DEF NoVictimLeft, RefuseVictim, Mark, StartRefused, FenceHeld, At
  <2>2. QED
    BY <1>1, <1>2, <2>1 DEF NoVictimLeft, RefuseVictim, Mark, StartRefused, FenceHeld, OwnTypeOK
<1>3. CASE FenceVictim
  <2>1. op \in Call
    BY <1>3, OpTyped DEF FenceVictim, At
  <2>2. op' \in Calls
    BY <1>3, <2>1 DEF FenceVictim, NextVictims, Victims, Calls, Call, Busy
  <2>3. QED
    BY <1>1, <1>3, <2>2 DEF FenceVictim, OwnTypeOK
<1>4. CASE DrainVictim \/ KillUnbound \/ KillFenced
  <2>1. op.job \in Job /\ op.victim \in Job
    BY <1>4, OpFields DEF DrainVictim, KillUnbound, KillFenced, At
  <2>2. op' \in Calls
    BY <1>1, <1>4, CallTyped DEF DrainVictim, KillUnbound, KillFenced, At
  <2>3. QED
    BY <1>1, <1>4, <2>1, <2>2, ReapTyped DEF DrainVictim, KillUnbound, KillFenced, OwnTypeOK
<1>5. CASE RequeueVictim
  <2>1. op.victim \in Job
    BY <1>5, OpFields DEF RequeueVictim, At
  <2>2. op' \in Calls
    BY <1>1, <1>5, CallTyped DEF RequeueVictim, At
  <2>3. QED
    BY <1>1, <1>5, <2>1, <2>2, PopTyped DEF RequeueVictim, OwnTypeOK
<1>6. CASE StartWorker
  <2>1. op.job \in Job /\ op.n \in Numbers
    BY <1>6, OpFields DEF StartWorker, At
  <2>2. op' \in Calls
    BY <1>1, <1>6, CallTyped DEF StartWorker, At
  <2>3. QED
    BY <1>1, <1>6, <2>1, <2>2, BoundsAssumption DEF StartWorker, OwnTypeOK, Workers, Numbers
<1>7. CASE Resolve \/ \E t \in Stamps : CommitResult(t)
  <2>1. op.job \in Job
    BY <1>7, OpFields DEF Resolve, CommitResult, At
  <2>2. QED
    BY <1>1, <1>7, <2>1, PopTyped, ReturnTyped DEF Resolve, CommitResult, OwnTypeOK
<1>8. ASSUME NEW t \in Nat, op.pc # "idle", Return \/ Conflict(t) PROVE op' \in Calls
  BY <1>1, <1>8, CallTyped, ReturnTyped DEF Conflict
<1>9. CASE CommitUnbound
  <2>1. op' \in Calls
    BY <1>8, <1>9, OpFields DEF CommitUnbound, At
  <2>2. QED
    BY <1>1, <1>9, <2>1 DEF CommitUnbound, OwnTypeOK
<1>10. ASSUME NEW t \in Stamps, StartFails(t) \/ Settle(t) \/ CommitTooLate(t)
       PROVE  OwnTypeOK'
  <2>1. op' \in Calls
    BY <1>8, <1>10, StampTyped DEF StartFails, Settle, CommitTooLate, At, DTypeOK
  <2>2. QED
    BY <1>1, <1>10, <2>1 DEF StartFails, Settle, CommitTooLate, OwnTypeOK
<1>11. ASSUME NEW t \in Stamps, Bind(t) PROVE OwnTypeOK'
  <2>1. op.job \in Job /\ op.n \in 0 .. MaxAttemptNo
    BY <1>11, OpFields, BoundsAssumption DEF Bind, At, Numbers
  <2>2. leases[op.job].expires \in Nat
    BY <2>1 DEF DTypeOK, TypeOK, Lease
  <2>3. QED
    BY <1>1, <1>11, <2>1, <2>2, ReturnTyped DEF Bind, OwnTypeOK, Handles
<1>12. QED
  BY <1>2, <1>3, <1>4, <1>5, <1>6, <1>7, <1>9, <1>10, <1>11 DEF Proceed

LEMMA FailureTyped == ASSUME IInv, DTypeOK, Failure PROVE OwnTypeOK'
<1>1. OwnTypeOK /\ {"settle", "unbind"} \subseteq Busy
  BY OwnTyped DEF Busy
<1>2. CASE DrainFails \/ MarkFails
  <2>1. op' \in Calls
    BY <1>1, <1>2, CallTyped DEF DrainFails, MarkFails, At
  <2>2. QED
    BY <1>1, <1>2, <2>1, FaultTyped DEF DrainFails, MarkFails, OwnTypeOK
<1>3. CASE RequeueFails
  <2>1. op' \in Calls /\ op.victim \in Job
    BY <1>1, <1>3, CallTyped, OpFields DEF RequeueFails, At
  <2>2. QED
    BY <1>1, <1>3, <2>1, FaultTyped, PopTyped DEF RequeueFails, OwnTypeOK
<1>4. CASE KillUnboundFails \/ KillFencedFails \/ LedgerRaises
  BY <1>1, <1>4, FaultTyped, ReturnTyped
  DEF KillUnboundFails, KillFencedFails, LedgerRaises, OwnTypeOK
<1>5. ASSUME NEW t \in Stamps, BindFails(t) PROVE OwnTypeOK'
  <2>1. op' \in Calls
    BY <1>1, <1>5, CallTyped, StampTyped DEF BindFails, At, DTypeOK
  <2>2. QED
    BY <1>1, <1>5, <2>1, FaultTyped DEF BindFails, OwnTypeOK
<1>6. QED
  BY <1>2, <1>3, <1>4, <1>5 DEF Failure

LEMMA HandleTyped == ASSUME IInv, DTypeOK, Handle PROVE OwnTypeOK'
<1>1. OwnTypeOK /\ {"commit", "expire"} \subseteq Busy
  BY OwnTyped DEF Busy
<1>2. ASSUME NEW j \in Job, Handled(j), NEW pc \in Busy, NEW t \in Nat, CallFor(j, pc, t)
      PROVE  op' \in Calls
  <2>1. active[j].n \in Numbers
    BY <1>1, <1>2, BoundsAssumption DEF Handled, OwnTypeOK, Handles, Numbers
  <2>2. QED
    BY <1>2, <2>1 DEF CallFor, Call, Calls
<1>3. now \in Nat /\ \A t \in Stamps : t \in Nat
  BY StampTyped DEF DTypeOK, TypeOK
<1>4. ASSUME NEW j \in Job, PollExited(j) \/ PollTimedOut(j) PROVE OwnTypeOK'
  BY <1>1, <1>2, <1>3, <1>4, ReapTyped DEF PollExited, PollTimedOut, OwnTypeOK
<1>5. ASSUME NEW j \in Job, NEW t \in Stamps, Expire(j, t) PROVE OwnTypeOK'
  BY <1>1, <1>2, <1>3, <1>5 DEF Expire, OwnTypeOK
<1>6. ASSUME NEW j \in Job, NEW t \in Stamps, Heartbeat(j, t) PROVE OwnTypeOK'
  <2>1. LeaseEnd(j, LeaseTime, t) \in Nat
    BY StampTyped, LeaseEndBounded, DispatcherAssumption DEF DTypeOK
  <2>2. QED
    BY <1>1, <1>6, <2>1 DEF Heartbeat, OwnTypeOK, Handles
<1>7. QED
  BY <1>4, <1>5, <1>6 DEF Handle, Watch

LEMMA EnvironmentTyped == ASSUME IInv, DTypeOK, Environment PROVE OwnTypeOK'
<1>1. OwnTypeOK
  BY OwnTyped
<1>2. ASSUME NEW j \in Job, WorkerExits(j) PROVE OwnTypeOK'
  <2>1. <<j, table[j].n>> \in Job \X Numbers
    BY <1>1, <1>2, BoundsAssumption DEF WorkerExits, OwnTypeOK, Workers, Numbers
  <2>2. QED
    BY <1>1, <1>2, <2>1 DEF WorkerExits, OwnTypeOK, Workers
<1>3. ASSUME NEW j \in Job, NEW n \in Numbers, OrphanEnds(j, n) PROVE OwnTypeOK'
  BY <1>1, <1>3 DEF OrphanEnds, OwnTypeOK
<1>4. ASSUME NEW killed \in BOOLEAN, Restart(killed) PROVE OwnTypeOK'
  BY <1>1, <1>4, BoundsAssumption, DispatcherAssumption
  DEF Restart, OwnTypeOK, Handles, Workers, Calls, NoHandle, NoWorker
<1>5. CASE Api \/ DTick
  BY <1>1, <1>5 DEF Api, DTick, own, OwnTypeOK
<1>6. QED
  BY <1>2, <1>3, <1>4, <1>5 DEF Environment

LEMMA TypesKept == IInv /\ DTypeOK /\ [DNext]_dvars => DTypeOK'
<1> SUFFICES ASSUME IInv, DTypeOK, [DNext]_dvars PROVE DTypeOK'
  OBVIOUS
<1>1. TypeOK'
  BY LedgerKept DEF IInv
<1>2. ASSUME UNCHANGED dvars PROVE OwnTypeOK'
  <2>1. UNCHANGED own
    BY <1>2 DEF dvars
  <2>2. QED
    BY <2>1, OwnTyped DEF OwnTypeOK, own
<1>3. OwnTypeOK'
  BY <1>2, DispatchTyped, ProceedTyped, FailureTyped, HandleTyped, EnvironmentTyped, OwnTyped
  DEF DNext
<1>4. QED
  BY <1>1, <1>3 DEF DTypeOK, OwnTypeOK, Handles, Workers, Calls

\* What every later argument starts from.
Base == IInv /\ DTypeOK

LEMMA BaseStart == DInit => Base
  BY LedgerStart, OwnStart, OwnTyped DEF Base, IInv

LEMMA BaseKept == Base /\ [DNext]_dvars => Base'
  BY LedgerKept, TypesKept DEF Base

\* Every variable keeps its type, in the ledger and in the dispatcher.
THEOREM DispatcherTyped == DSpec => []DTypeOK
<1>1. Base => DTypeOK
  BY DEF Base
<1>2. QED
  BY <1>1, BaseStart, BaseKept, PTL DEF DSpec

\* The tables stay consistent whatever the dispatcher does with them, however
\* old the timestamps it uses.
THEOREM LedgerConsistent == DSpec => []IInv
<1>1. Base => IInv
  BY DEF Base
<1>2. QED
  BY <1>1, BaseStart, BaseKept, PTL DEF DSpec

-----------------------------------------------------------------------------
(* Leases, handles, workers and the call in progress.                      *)

\* No worker of the job is known to the supervisor and none is running.
Clear(j) == table[j].n = 0 /\ \A n \in Numbers : <<j, n>> \notin alive

\* The same of the next state.
Cleared(j) == table'[j].n = 0 /\ \A n \in Numbers : <<j, n>> \notin alive'

JobHeld(j) ==
    /\ active[j].n # 0 =>
          leases[j].attempt = active[j].n /\ leases[j].expires = active[j].expires
    /\ table[j].n # 0 => leases[j].attempt = table[j].n /\ jobs[j].status = "running"
    /\ \A n \in Numbers : <<j, n>> \in alive =>
          leases[j].attempt = n /\ jobs[j].status = "running"

\* Where a call stands with the lease it took: nothing launched yet (or killed
\* again), launched, or drained.
Unstarted == {"preempt", "drain", "requeue", "mark", "settle", "start", "startfail",
              "unbindcommit"}
Launched == {"bind", "unbind"}
Drained == {"commit", "fence", "resolve"}

CallSound ==
    /\ op.pc \in Unstarted \cup Launched =>
          active[op.job].n = 0 /\ leases[op.job].attempt = op.n
    /\ op.pc \in Unstarted \cup Drained => Clear(op.job)
    /\ op.pc \in Launched => Owns(op.job, op.n)
    /\ op.pc = "start" => jobs[op.job].status = "running"
    /\ op.pc = "drain" => active[op.victim].n # 0 /\ Owns(op.victim, active[op.victim].n)
    /\ op.pc = "requeue" => Clear(op.victim)
    /\ op.pc \in {"drain", "requeue"} =>
          Weight[EnvelopeOf[op.victim].priority] < Weight[EnvelopeOf[op.job].priority]
    /\ op.pc \in {"preempt", "drain", "requeue"} => ~EnvelopeOf[op.job].heavy

Held ==
    /\ \A j \in Job : JobHeld(j) /\ jobs[j].env = EnvelopeOf[j]
    /\ CallSound

\* A step that leaves the lease of a job alone, and its running job running.
Keeps(j) ==
    /\ leases'[j].attempt = leases[j].attempt /\ leases'[j].expires = leases[j].expires
    /\ Leased(j) /\ jobs[j].status = "running" => jobs'[j].status = "running"

LEMMA HeldStart == DInit => Held
  BY DispatcherAssumption
  DEF DInit, Held, JobHeld, CallSound, NoHandle, NoWorker, Idle, NewRow,
      Unstarted, Launched, Drained

\* A worker that is killed is the only one of its job.
LEMMA ReapClears ==
  ASSUME Base, NEW j \in Job, JobHeld(j), table[j].n # 0, Reap(j)
  PROVE  /\ Cleared(j)
         /\ \A i \in Job : i # j => table'[i] = table[i]
         /\ alive' \subseteq alive
  BY DEF Base, DTypeOK, JobHeld, Reap, Cleared, NoWorker

\* What each ledger operation does to leases and envelopes.
LEMMA CloseEffect ==
  ASSUME Base, NEW j \in Job, NEW n, NEW o, CloseAttempt(j, n, o),
         NEW r, r.env = jobs[j].env, jobs' = [jobs EXCEPT ![j] = r]
  PROVE  /\ leases'[j] = NoLease
         /\ \A i \in Job : i # j => Keeps(i) /\ leases'[i] = leases[i]
         /\ \A i \in Job : jobs'[i].env = jobs[i].env
  BY DEF Base, IInv, TypeOK, CloseAttempt, Keeps

LEMMA FinishEffect ==
  ASSUME Base, NEW j \in Job, NEW n, NEW t,
         \/ AbandonUnstartedLease(j, n, t)
         \/ \E to, c, r, e : FinishLease(j, n, to, c, r, e, t)
         \/ \E to, r, e : SuspendLease(j, n, to, r, e, t)
         \/ \E to, c, r, e : CommitWorkerResult(j, n, to, c, r, e, t)
  PROVE  /\ leases'[j] = NoLease
         /\ \A i \in Job : i # j => Keeps(i) /\ leases'[i] = leases[i]
         /\ \A i \in Job : jobs'[i].env = jobs[i].env
<1>1. jobs[j] \in Row
  BY DEF Base, IInv, TypeOK
<1>2. CASE AbandonUnstartedLease(j, n, t)
  <2>1. Released(jobs[j], "deferred").env = jobs[j].env
    BY <1>1, RowsKeepEnvelope
  <2>2. QED
    BY <1>2, <2>1, CloseEffect DEF AbandonUnstartedLease
<1>3. ASSUME NEW to, NEW c, NEW r, NEW e, FinishLease(j, n, to, c, r, e, t)
      PROVE  /\ leases'[j] = NoLease
             /\ \A i \in Job : i # j => Keeps(i) /\ leases'[i] = leases[i]
             /\ \A i \in Job : jobs'[i].env = jobs[i].env
  <2>1. FinishedRow(jobs[j], to, c, r, e).env = jobs[j].env
    BY <1>1, RowsKeepEnvelope
  <2>2. QED
    BY <1>3, <2>1, CloseEffect DEF FinishLease
<1>4. QED
  BY <1>2, <1>3 DEF SuspendLease, CommitWorkerResult

LEMMA ResolveEffect ==
  ASSUME Base, NEW j \in Job, NEW n, NEW gen, NEW p,
         \/ ResolveFencedLease(j, n, gen)
         \/ ResolvePreemptedLease(j, n, gen, p)
         \/ MarkPreemptionRecoveryRequired(j, n, gen)
  PROVE  /\ leases'[j] = NoLease
         /\ \A i \in Job : i # j => Keeps(i) /\ leases'[i] = leases[i]
         /\ \A i \in Job : jobs'[i].env = jobs[i].env
<1>1. /\ ExpiredRow(jobs[j]).env = jobs[j].env
      /\ \A to : Released(jobs[j], to).env = jobs[j].env
  BY RowsKeepEnvelope DEF Base, IInv, TypeOK
<1>2. QED
  BY <1>1, CloseEffect
  DEF ResolveFencedLease, ResolvePreemptedLease, MarkPreemptionRecoveryRequired

LEMMA FenceEffect ==
  ASSUME Base, NEW j \in Job, NEW n, NEW p, NEW t, NEW gen,
         \/ FencePreemptibleLease(j, n, p, t)
         \/ FenceLease(j, n, t)
         \/ CancelPreemptionFence(j, n, gen)
  PROVE  /\ jobs' = jobs /\ \A i \in Job : Keeps(i)
         /\ \A i \in Job : i # j => leases'[i] = leases[i]
<1>1. CASE FencePreemptibleLease(j, n, p, t) \/ FenceLease(j, n, t)
  <2>1. \E reason : Fence(j, reason)
    BY <1>1 DEF FencePreemptibleLease, FenceLease
  <2>2. QED
    BY <2>1 DEF Base, IInv, TypeOK, Lease, Fence, Keeps
<1>2. CASE CancelPreemptionFence(j, n, gen)
  BY <1>2 DEF Base, IInv, TypeOK, Lease, CancelPreemptionFence, Keeps
<1>3. QED
  BY <1>1, <1>2

LEMMA RunningEffect ==
  ASSUME Base, NEW j \in Job, NEW n, NEW t,
         MarkRunning(j, n, t) \/ BindWorkerPid(j, n, t)
  PROVE  /\ leases' = leases
         /\ \A i \in Job : Keeps(i) /\ jobs'[i].env = jobs[i].env
         /\ jobs'[j].status = "running"
         /\ leases[j].attempt = n /\ ~Fenced(j)
<1>1. leases' = leases /\ leases[j].attempt = n /\ ~Fenced(j)
  BY DEF MarkRunning, BindWorkerPid, HeldBy
<1>2. CASE MarkRunning(j, n, t)
  <2>1. jobs' = [jobs EXCEPT ![j] = RunningRow(jobs[j])]
    BY <1>2 DEF MarkRunning
  <2>2. RunningRow(jobs[j]).env = jobs[j].env /\ RunningRow(jobs[j]).status = "running"
    BY DEF RunningRow, Base, IInv, TypeOK, Row
  <2>3. QED
    BY <1>1, <2>1, <2>2 DEF Base, IInv, TypeOK, Keeps
<1>3. CASE BindWorkerPid(j, n, t)
  BY <1>1, <1>3 DEF BindWorkerPid, Keeps
<1>4. QED
  BY <1>2, <1>3, <1>1

LEMMA ApiEffect ==
  ASSUME Base, Api
  PROVE  leases' = leases /\ \A i \in Job : Keeps(i) /\ jobs'[i].env = jobs[i].env
<1>1. ASSUME NEW j \in Job, NEW t, NEW token \in Token, ConfirmJob(j, token, t)
      PROVE  leases' = leases /\ \A i \in Job : Keeps(i) /\ jobs'[i].env = jobs[i].env
  BY <1>1, RowsKeepEnvelope DEF Base, IInv, TypeOK, ConfirmJob, Keeps
<1>2. ASSUME NEW j \in Job, NEW to, NEW c, NEW e, TransitionJob(j, to, c, e)
      PROVE  leases' = leases /\ \A i \in Job : Keeps(i) /\ jobs'[i].env = jobs[i].env
  <2>1. ~Leased(j) /\ UNCHANGED leases
        /\ jobs' = [jobs EXCEPT ![j] = Moved(jobs[j], to, c, e)]
    BY <1>2 DEF TransitionJob
  <2>2. Moved(jobs[j], to, c, e).env = jobs[j].env
    BY RowsKeepEnvelope DEF Base, IInv, TypeOK
  <2>3. QED
    BY <2>1, <2>2 DEF Base, IInv, TypeOK, Keeps
<1>3. PICK j \in Job, t \in Stamps :
          \/ \E token \in Token : ConfirmJob(j, token, t)
          \/ \E to \in {"queued", "cancelled"} : TransitionJob(j, to, FALSE, TRUE)
  BY DEF Api
<1>4. CASE \E token \in Token : ConfirmJob(j, token, t)
  BY <1>1, <1>4
<1>5. CASE \E to \in {"queued", "cancelled"} : TransitionJob(j, to, FALSE, TRUE)
  BY <1>2, <1>5, Zenon
<1>6. QED
  BY <1>3, <1>4, <1>5

-----------------------------------------------------------------------------
(* Every step keeps them: the frame first, then the steps.                 *)

LEMMA Moves ==
  ASSUME DTypeOK, op.pc # "idle", NEW pc, Goto(pc) \/ \E t : GotoAt(pc, t)
  PROVE  /\ op'.pc = pc /\ op'.job = op.job /\ op'.n = op.n
         /\ op'.victim = op.victim
<1>1. op \in Call
  BY OpTyped
<1>2. QED
  BY <1>1 DEF Goto, GotoAt, Call

LEMMA Returns == Return => op'.pc = "idle" /\ CallSound'
  BY DEF Return, Idle, CallSound, Unstarted, Launched, Drained

LEMMA QuietKeeps ==
  ASSUME UNCHANGED vars
  PROVE  jobs' = jobs /\ leases' = leases /\ \A i \in Job : Keeps(i)
  BY DEF vars, Keeps

\* Workers and handles of job i go or stay.
Shrinks(i) ==
    /\ active'[i] = active[i] \/ active'[i].n = 0
    /\ table'[i].n = table[i].n \/ table'[i].n = 0
    /\ \A n \in Numbers : <<i, n>> \in alive' => <<i, n>> \in alive

LEMMA JobFrame ==
  ASSUME Base, NEW i \in Job, JobHeld(i), Keeps(i), Shrinks(i)
  PROVE  JobHeld(i)'
<1>1. \A n \in Numbers : n # 0
  BY BoundsAssumption DEF Numbers
<1>2. QED
  BY <1>1 DEF JobHeld, Keeps, Shrinks, Leased

LEMMA JobGone ==
  ASSUME NEW i \in Job, active'[i].n = 0, Cleared(i)
  PROVE  JobHeld(i)'
  BY DEF JobHeld, Clear, Cleared

LEMMA ClearKept ==
  ASSUME Base, NEW i \in Job, Clear(i), Shrinks(i)
  PROVE  Cleared(i)
  BY DEF Clear, Cleared, Shrinks

\* Nothing but the call moves.
LEMMA QuietShrinks ==
  ASSUME UNCHANGED <<active, table, alive>>, NEW i \in Job
  PROVE  Shrinks(i) /\ (Clear(i) => Cleared(i))
  BY DEF Shrinks, Clear, Cleared

LEMMA ReapShrinks ==
  ASSUME Base, NEW j \in Job, JobHeld(j), table[j].n # 0, Reap(j), UNCHANGED active,
         NEW i \in Job
  PROVE  Shrinks(i) /\ Cleared(j) /\ (Clear(i) => Cleared(i))
<1>1. Cleared(j) /\ alive' \subseteq alive /\ \A k \in Job : k # j => table'[k] = table[k]
  BY ReapClears
<1>2. QED
  BY <1>1 DEF Shrinks, Clear, Cleared

LEMMA PopShrinks ==
  ASSUME Base, NEW j \in Job, Pop(j), UNCHANGED <<table, alive>>, NEW i \in Job
  PROVE  /\ Shrinks(i) /\ active'[j].n = 0
         /\ i # j => active'[i] = active[i]
         /\ Clear(i) => Cleared(i)
  BY DEF Base, DTypeOK, Pop, NoHandle, Shrinks, Clear, Cleared

LEMMA DispatchHeld == ASSUME Base, Held, Dispatch PROVE Held'
<1>1. PICK j \in Job, fast \in BOOLEAN, t \in Stamps : Begin(j, fast, t)
  BY DEF Dispatch
<1>2. Leasable(j, fast, t) /\ UNCHANGED <<active, table, alive>>
  BY <1>1 DEF Begin, LeaseNext
<1>3. ~Leased(j) /\ jobs[j].status = "queued"
  BY <1>2 DEF Leasable, Base, IInv, JobSound, OpenAttempt
<1>4. active[j].n = 0 /\ Clear(j)
  BY <1>3, BoundsAssumption DEF Held, JobHeld, Leased, Clear, Cleared, Numbers, Base, DTypeOK
<1>5. leases'[j].attempt = jobs[j].attemptCount + 1
      /\ \A i \in Job : i # j => leases'[i] = leases[i] /\ jobs'[i] = jobs[i]
  BY <1>1 DEF Begin, LeaseNext, Base, IInv, TypeOK
<1>6. \A i \in Job : jobs'[i].env = jobs[i].env
  <2>1. LeasedRow(jobs[j]).env = jobs[j].env
    BY RowsKeepEnvelope DEF Base, IInv, TypeOK
  <2>2. QED
    BY <1>1, <2>1 DEF Begin, LeaseNext, Base, IInv, TypeOK
<1>7. ASSUME NEW i \in Job PROVE JobHeld(i)'
  <2>1. CASE i = j
    BY <1>2, <1>4, <2>1, JobGone DEF Clear, Cleared
  <2>2. CASE i # j
    BY <1>2, <1>5, <2>2, JobFrame, QuietShrinks DEF Held, Keeps
  <2>3. QED
    BY <2>1, <2>2
<1>8. CallSound'
  <2>1. /\ op'.pc \in {"preempt", "mark", "settle"} /\ op'.job = j
        /\ op'.n = jobs[j].attemptCount + 1
        /\ op'.pc = "preempt" => fast
    BY <1>1 DEF Begin
  <2>2. fast => ~EnvelopeOf[j].heavy
    BY <1>2 DEF Leasable, Held
  <2>3. active'[j].n = 0 /\ Cleared(j)
    BY <1>2, <1>4 DEF Clear, Cleared
  <2>4. QED
    BY <1>5, <2>1, <2>2, <2>3 DEF CallSound, Clear, Cleared, Unstarted, Launched, Drained
<1>9. QED
  BY <1>6, <1>7, <1>8 DEF Held

\* The environment and the heartbeat leave the call where it is.
LEMMA CallFrame ==
  ASSUME Base, Held, op' = op, \A i \in Job : Keeps(i),
         \A i \in Job : active'[i].n = active[i].n /\ table'[i].n = table[i].n,
         \A i \in Job : Clear(i) => Cleared(i)
  PROVE  CallSound'
<1>1. CASE op.pc = "idle"
  BY <1>1 DEF CallSound, Clear, Cleared, Unstarted, Launched, Drained
<1>2. CASE op.pc # "idle"
  <2>1. op.job \in Job /\ op.victim \in Job /\ op.n # 0
    BY <1>2, OpFields DEF Base
  <2>2. Keeps(op.job)
    BY <2>1
  <2>3. CallSound
    BY DEF Held
  <2>4. op.pc = "start" => jobs'[op.job].status = "running"
    BY <2>1, <2>2, <2>3 DEF CallSound, Unstarted, Leased, Keeps
  <2>5. /\ op.pc \in Unstarted \cup Drained => Cleared(op.job)
        /\ op.pc = "requeue" => Cleared(op.victim)
    BY <2>1, <2>3 DEF CallSound
  <2>6. /\ active'[op.job].n = active[op.job].n /\ table'[op.job].n = table[op.job].n
        /\ active'[op.victim].n = active[op.victim].n
        /\ table'[op.victim].n = table[op.victim].n
        /\ leases'[op.job].attempt = leases[op.job].attempt
    BY <2>1, <2>2 DEF Keeps
  <2>7. QED
    BY <2>3, <2>4, <2>5, <2>6 DEF CallSound, Clear, Cleared, Owns
<1>3. QED
  BY <1>1, <1>2

LEMMA EnvironmentHeld == ASSUME Base, Held, Environment PROVE Held'
<1>1. ASSUME op' = op, \A i \in Job : Keeps(i) /\ jobs'[i].env = jobs[i].env,
             active' = active, table' = table, alive' \subseteq alive
      PROVE  Held'
  <2>1. \A i \in Job : Shrinks(i)
    BY <1>1 DEF Shrinks
  <2>2. \A i \in Job : JobHeld(i)'
    BY <1>1, <2>1, JobFrame DEF Held
  <2>3. CallSound'
    BY <1>1, <2>1, CallFrame, ClearKept
  <2>4. QED
    BY <1>1, <2>2, <2>3 DEF Held
<1>2. ASSUME NEW j \in Job, WorkerExits(j) PROVE Held'
  <2>1. /\ table[j].n # 0 /\ \A i \in Job : table'[i].n = table[i].n
        /\ active' = active /\ op' = op
        /\ \A i \in Job, n \in Numbers : <<i, n>> \in alive' =>
              <<i, n>> \in alive \/ (i = j /\ n = table[j].n)
    BY <1>2 DEF WorkerExits, Base, DTypeOK
  <2>2. jobs' = jobs /\ leases' = leases /\ \A i \in Job : Keeps(i)
    BY <1>2, QuietKeeps DEF WorkerExits
  <2>3. \A i \in Job : JobHeld(i)'
    BY <2>1, <2>2 DEF Held, JobHeld
  <2>4. \A i \in Job : Clear(i) => Cleared(i)
    BY <2>1 DEF Clear, Cleared
  <2>5. CallSound'
    BY <2>1, <2>2, <2>4, CallFrame
  <2>6. QED
    BY <2>2, <2>3, <2>5 DEF Held
<1>3. ASSUME NEW j \in Job, NEW n \in Numbers, OrphanEnds(j, n) PROVE Held'
  BY <1>1, <1>3, QuietKeeps DEF OrphanEnds
<1>4. ASSUME NEW killed \in BOOLEAN, Restart(killed) PROVE Held'
  <2>1. \A i \in Job : Shrinks(i)
    BY <1>4 DEF Restart, Shrinks, NoHandle, NoWorker
  <2>2. \A i \in Job : Keeps(i) /\ jobs'[i] = jobs[i]
    BY <1>4, QuietKeeps DEF Restart
  <2>3. \A i \in Job : JobHeld(i)'
    BY <2>1, <2>2, JobFrame DEF Held
  <2>4. CallSound'
    BY <1>4, Returns DEF Restart, Return
  <2>5. QED
    BY <2>2, <2>3, <2>4 DEF Held
<1>5. CASE Api
  BY <1>1, <1>5, ApiEffect DEF Api, own
<1>6. CASE DTick
  BY <1>1, <1>6 DEF DTick, Tick, own, Keeps
<1>7. QED
  BY <1>2, <1>3, <1>4, <1>5, <1>6 DEF Environment

\* A step that leaves the ledger alone.
LEMMA QuietHeld ==
  ASSUME Base, Held, UNCHANGED vars, \A i \in Job : Shrinks(i), CallSound'
  PROVE  Held'
  BY QuietKeeps, JobFrame DEF Held

\* A step that ends the lease of a job whose worker is gone.
LEMMA EndHeld ==
  ASSUME Base, Held, NEW j \in Job, leases'[j] = NoLease,
         \A i \in Job : i # j => Keeps(i), \A i \in Job : jobs'[i].env = jobs[i].env,
         active'[j].n = 0, \A i \in Job : i # j => active'[i] = active[i],
         UNCHANGED <<table, alive>>, Clear(j), CallSound'
  PROVE  Held'
<1>1. Cleared(j)
  BY DEF Clear, Cleared
<1>2. JobHeld(j)'
  BY <1>1, JobGone
<1>3. ASSUME NEW i \in Job, i # j PROVE JobHeld(i)'
  BY <1>3, JobFrame DEF Held, Shrinks
<1>4. QED
  BY <1>2, <1>3 DEF Held

\* The call moves on with nothing launched.
LEMMA UnstartedMove ==
  ASSUME Base, op.pc # "idle", NEW pc \in Unstarted \ {"drain", "requeue"}, Goto(pc),
         active'[op.job].n = 0, leases'[op.job].attempt = op.n, Cleared(op.job),
         pc = "start" => jobs'[op.job].status = "running",
         pc = "preempt" => ~EnvelopeOf[op.job].heavy
  PROVE  CallSound'
<1>1. op'.pc = pc /\ op'.job = op.job /\ op'.n = op.n
  BY Moves DEF Base
<1>2. QED
  BY <1>1 DEF CallSound, Clear, Cleared, Unstarted, Launched, Drained

\* The call moves on with its worker drained.
LEMMA DrainedMove ==
  ASSUME Base, op.pc # "idle", NEW pc \in Drained \cup {"kill", "expire"},
         Goto(pc) \/ \E t : GotoAt(pc, t),
         pc \in Drained => Cleared(op.job)
  PROVE  CallSound'
<1>1. op'.pc = pc /\ op'.job = op.job
  BY Moves DEF Base
<1>2. QED
  BY <1>1 DEF CallSound, Clear, Cleared, Unstarted, Launched, Drained

LEMMA HandleHeld == ASSUME Base, Held, Handle PROVE Held'
<1>1. ASSUME NEW j \in Job, PollExited(j) \/ PollTimedOut(j) PROVE Held'
  <2>1. table[j].n # 0 /\ Reap(j) /\ UNCHANGED <<vars, active>>
    BY <1>1 DEF PollExited, PollTimedOut, Handled, Owns
  <2>2. Cleared(j) /\ \A i \in Job : Shrinks(i)
    BY <2>1, ReapShrinks DEF Held
  <2>3. op'.pc = "commit" /\ op'.job = j
    BY <1>1 DEF PollExited, PollTimedOut, CallFor
  <2>4. CallSound'
    BY <2>2, <2>3 DEF CallSound, Clear, Cleared, Unstarted, Launched, Drained
  <2>5. QED
    BY <2>1, <2>2, <2>4, QuietHeld
<1>2. ASSUME NEW j \in Job, NEW t \in Stamps, Expire(j, t) PROVE Held'
  <2>1. op'.pc = "expire"
    BY <1>2 DEF Expire, CallFor
  <2>2. CallSound'
    BY <2>1 DEF CallSound, Clear, Cleared, Unstarted, Launched, Drained
  <2>3. QED
    BY <1>2, <2>2, QuietShrinks, QuietHeld DEF Expire
<1>3. ASSUME NEW j \in Job, NEW t \in Stamps, Heartbeat(j, t) PROVE Held'
  <2>1. /\ op' = op /\ op.pc = "idle" /\ UNCHANGED <<jobs, table, alive>>
        /\ active[j].n # 0 /\ leases[j].attempt = active[j].n
        /\ leases' = [leases EXCEPT ![j].expires = LeaseEnd(j, LeaseTime, t)]
        /\ active' = [active EXCEPT ![j].expires = LeaseEnd(j, LeaseTime, t)]
    BY <1>3 DEF Heartbeat, Handled, At, HeartbeatLease, HeldBy
  <2>2. CallSound'
    BY <2>1 DEF CallSound, Clear, Cleared, Unstarted, Launched, Drained
  <2>3. ASSUME NEW i \in Job PROVE JobHeld(i)'
    BY <2>1 DEF Held, JobHeld, Base, IInv, DTypeOK, TypeOK, Lease
  <2>4. QED
    BY <2>1, <2>2, <2>3 DEF Held
<1>4. QED
  BY <1>1, <1>2, <1>3 DEF Handle, Watch

LEMMA WeightTyped == \A p \in Priority : Weight[p] \in Nat
  BY DEF Weight, Priority

\* A victim is another job than the one it makes room for.
LEMMA VictimOther ==
  ASSUME Base, Held, op.pc \in {"drain", "requeue"}
  PROVE  /\ op.job \in Job /\ op.victim \in Job /\ op.victim # op.job
         /\ active[op.job].n = 0 /\ leases[op.job].attempt = op.n /\ Clear(op.job)
<1>1. op.job \in Job /\ op.victim \in Job
  BY OpFields DEF Base
<1>2. EnvelopeOf[op.job].priority \in Priority
  BY <1>1, PriorityTyped DEF Held, Base, IInv
<1>3. QED
  BY <1>1, <1>2, WeightTyped DEF Held, CallSound, Unstarted

LEMMA ProceedHeld == ASSUME Base, Held, Proceed PROVE Held'
<1>1. CallSound /\ \A i \in Job : JobHeld(i) /\ jobs[i].env = EnvelopeOf[i]
  BY DEF Held
<1>2. op.pc # "idle" => /\ op.job \in Job /\ op.n # 0 /\ op.n \in Numbers
                         /\ op.victim \in Job
  BY OpFields DEF Base
<1>3. CASE NoVictimLeft \/ RefuseVictim \/ StartRefused
  <2>1. /\ op.pc \in {"preempt", "start"} /\ UNCHANGED <<vars, active, table, alive>>
        /\ \E pc \in {"mark", "settle", "startfail"} : Goto(pc)
    BY <1>3 DEF NoVictimLeft, RefuseVictim, StartRefused, At
  <2>2. active[op.job].n = 0 /\ leases[op.job].attempt = op.n /\ Clear(op.job)
    BY <1>1, <2>1 DEF CallSound, Unstarted
  <2>3. CallSound'
    BY <1>2, <2>1, <2>2, UnstartedMove, QuietShrinks DEF Unstarted, vars
  <2>4. QED
    BY <2>1, <2>3, QuietShrinks, QuietHeld
<1>4. CASE FenceVictim
  <2>1. PICK v \in Job :
           /\ active[v].n # 0 /\ Weight[jobs[v].env.priority] < Weight[jobs[op.job].env.priority]
           /\ Owns(v, active[v].n)
           /\ FencePreemptibleLease(v, active[v].n, jobs[op.job].env.priority, op.t)
           /\ op' = [op EXCEPT !.pc = "drain", !.victim = v]
    BY <1>4 DEF FenceVictim, NextVictims, Victims
  <2>2. op.pc = "preempt" /\ UNCHANGED <<active, table, alive>> /\ op \in Call
    BY <1>4, OpTyped DEF FenceVictim, At, Base
  <2>3. jobs' = jobs /\ \A i \in Job : Keeps(i)
    BY <2>1, FenceEffect
  <2>4. op'.pc = "drain" /\ op'.job = op.job /\ op'.n = op.n /\ op'.victim = v
    BY <2>1, <2>2 DEF Call
  <2>5. CallSound'
    <3>1. active[op.job].n = 0 /\ leases[op.job].attempt = op.n /\ Clear(op.job)
          /\ ~EnvelopeOf[op.job].heavy
      BY <1>1, <2>2 DEF CallSound, Unstarted
    <3>2. Cleared(op.job) /\ leases'[op.job].attempt = op.n
      BY <1>2, <2>2, <2>3, <3>1, QuietShrinks DEF Keeps
    <3>3. Weight[EnvelopeOf[v].priority] < Weight[EnvelopeOf[op.job].priority]
      BY <1>1, <1>2, <2>1, <2>2
    <3>4. QED
      BY <2>1, <2>2, <2>4, <3>1, <3>2, <3>3 DEF CallSound, Clear, Cleared, Unstarted, Launched, Drained, Owns
  <2>6. QED
    BY <1>1, <2>2, <2>3, <2>5, JobFrame, QuietShrinks DEF Held
<1>5. CASE DrainVictim
  <2>1. op.pc = "drain" /\ Reap(op.victim) /\ UNCHANGED <<vars, active>>
        /\ table[op.victim].n # 0 /\ Goto("requeue")
    BY <1>1, <1>5 DEF DrainVictim, At, CallSound, Owns
  <2>2. Cleared(op.victim) /\ \A i \in Job : Shrinks(i) /\ (Clear(i) => Cleared(i))
    BY <1>1, <1>2, <2>1, ReapShrinks
  <2>3. CallSound'
    BY <1>1, <2>1, <2>2, Moves, VictimOther
    DEF CallSound, Clear, Cleared, Unstarted, Launched, Drained, vars, Base
  <2>4. QED
    BY <2>1, <2>2, <2>3, QuietHeld
<1>6. CASE RequeueVictim
  <2>1. /\ op.pc = "requeue" /\ Pop(op.victim) /\ Goto("preempt") /\ UNCHANGED <<table, alive>>
        /\ \E gen : ResolvePreemptedLease(op.victim, active[op.victim].n, gen,
                                           jobs[op.job].env.priority)
    BY <1>6 DEF RequeueVictim, At
  <2>2. /\ leases'[op.victim] = NoLease
        /\ \A i \in Job : i # op.victim => Keeps(i)
        /\ \A i \in Job : jobs'[i].env = jobs[i].env
    BY <1>2, <2>1, ResolveEffect
  <2>3. /\ active'[op.victim].n = 0
        /\ \A i \in Job : i # op.victim => active'[i] = active[i]
        /\ Clear(op.job) => Cleared(op.job)
    BY <1>2, <2>1, PopShrinks
  <2>4. Clear(op.victim) /\ ~EnvelopeOf[op.job].heavy
    BY <1>1, <2>1 DEF CallSound
  <2>5. CallSound'
    BY <1>2, <2>1, <2>2, <2>3, <2>4, VictimOther, UnstartedMove DEF Keeps, Unstarted
  <2>6. QED
    BY <1>2, <2>1, <2>2, <2>3, <2>4, <2>5, EndHeld
<1>7. CASE Mark
  <2>1. op.pc = "mark" /\ MarkRunning(op.job, op.n, op.t) /\ Goto("start")
        /\ UNCHANGED <<active, table, alive>>
    BY <1>7 DEF Mark, At
  <2>2. /\ leases' = leases /\ jobs'[op.job].status = "running"
        /\ \A i \in Job : Keeps(i) /\ jobs'[i].env = jobs[i].env
    BY <1>2, <2>1, RunningEffect
  <2>3. active[op.job].n = 0 /\ leases[op.job].attempt = op.n /\ Clear(op.job)
    BY <1>1, <2>1 DEF CallSound, Unstarted
  <2>4. CallSound'
    BY <1>2, <2>1, <2>2, <2>3, UnstartedMove, QuietShrinks DEF Unstarted
  <2>5. QED
    BY <1>1, <2>1, <2>2, <2>4, JobFrame, QuietShrinks DEF Held
<1>8. CASE StartWorker
  <2>1. /\ op.pc = "start" /\ Goto("bind") /\ UNCHANGED <<vars, active>>
        /\ table' = [table EXCEPT ![op.job] = [n |-> op.n, exited |-> FALSE]]
        /\ alive' = alive \cup {<<op.job, op.n>>}
    BY <1>8 DEF StartWorker, At
  <2>2. active[op.job].n = 0 /\ leases[op.job].attempt = op.n
        /\ jobs[op.job].status = "running"
    BY <1>1, <2>1 DEF CallSound, Unstarted
  <2>3. table'[op.job].n = op.n /\ \A i \in Job : i # op.job => table'[i] = table[i]
    BY <1>2, <2>1 DEF Base, DTypeOK
  <2>4. jobs' = jobs /\ leases' = leases
    BY <2>1 DEF vars
  <2>5. CallSound'
    BY <2>1, <2>2, <2>3, <2>4, Moves DEF CallSound, Clear, Cleared, Unstarted, Launched, Drained, Owns, Base
  <2>6. ASSUME NEW i \in Job PROVE JobHeld(i)'
    BY <1>1, <2>1, <2>2, <2>3, <2>4 DEF JobHeld
  <2>7. QED
    BY <1>1, <2>4, <2>5, <2>6 DEF Held
<1>9. CASE KillUnbound
  <2>1. op.pc = "unbind" /\ Reap(op.job) /\ UNCHANGED <<vars, active>> /\ Goto("unbindcommit")
        /\ table[op.job].n # 0 /\ active[op.job].n = 0 /\ leases[op.job].attempt = op.n
    BY <1>1, <1>2, <1>9 DEF KillUnbound, At, CallSound, Launched, Owns
  <2>2. Cleared(op.job) /\ \A i \in Job : Shrinks(i)
    BY <1>1, <1>2, <2>1, ReapShrinks
  <2>3. CallSound'
    BY <2>1, <2>2, UnstartedMove DEF Unstarted, vars
  <2>4. QED
    BY <2>1, <2>2, <2>3, QuietHeld
<1>10. ASSUME op.pc \in Unstarted \cup Drained, UNCHANGED <<table, alive>>,
              (active' = active /\ active[op.job].n = 0) \/ Pop(op.job),
              leases'[op.job] = NoLease, \A i \in Job : i # op.job => Keeps(i),
              \A i \in Job : jobs'[i].env = jobs[i].env, Return
       PROVE  Held'
  <2>1. op.job \in Job /\ Clear(op.job)
    BY <1>1, <1>2, <1>10 DEF CallSound, Unstarted, Drained
  <2>2. active'[op.job].n = 0 /\ \A i \in Job : i # op.job => active'[i] = active[i]
    BY <1>10, <2>1, PopShrinks
  <2>3. QED
    BY <1>10, <2>1, <2>2, EndHeld, Returns
<1>11. ASSUME NEW t, op.pc \in Unstarted \cup Drained, Conflict(t),
              UNCHANGED <<active, table, alive>>
       PROVE  Held'
  <2>1. op.pc # "idle" /\ Clear(op.job)
    BY <1>1, <1>11 DEF CallSound, Unstarted, Drained
  <2>2. CallSound'
    BY <1>2, <1>11, <2>1, QuietShrinks, DrainedMove DEF Conflict, Drained
  <2>3. QED
    BY <1>11, <2>2, QuietShrinks, QuietHeld DEF Conflict
<1>12. CASE FenceHeld("expire", "kill") \/ FenceHeld("fence", "resolve")
  <2>1. PICK pc \in {"kill", "resolve"} :
           /\ Goto(pc) /\ op.pc # "idle" /\ UNCHANGED <<active, table, alive>>
           /\ pc = "resolve" => op.pc = "fence"
    BY <1>12 DEF FenceHeld, At
  <2>2. jobs' = jobs /\ \A i \in Job : Keeps(i)
    <3>1. FenceLease(op.job, op.n, op.t) \/ UNCHANGED vars
      BY <1>12 DEF FenceHeld
    <3>2. QED
      BY <1>2, <2>1, <3>1, QuietKeeps, FenceEffect
  <2>3. CallSound'
    BY <1>1, <1>2, <2>1, QuietShrinks, DrainedMove DEF CallSound, Drained
  <2>4. QED
    BY <1>1, <2>1, <2>2, <2>3, JobFrame, QuietShrinks DEF Held
<1>13. CASE KillFenced
  <2>1. op.pc = "kill" /\ Reap(op.job) /\ UNCHANGED <<vars, active>> /\ Goto("resolve")
        /\ table[op.job].n # 0
    BY <1>2, <1>13 DEF KillFenced, At, Owns
  <2>2. Cleared(op.job) /\ \A i \in Job : Shrinks(i)
    BY <1>1, <1>2, <2>1, ReapShrinks
  <2>3. CallSound'
    BY <2>1, <2>2, DrainedMove DEF Drained
  <2>4. QED
    BY <2>1, <2>2, <2>3, QuietHeld
<1>14. CASE Resolve
  <2>1. op.pc = "resolve" /\ Pop(op.job) /\ Return /\ UNCHANGED <<table, alive>>
        /\ \E gen : ResolveFencedLease(op.job, op.n, gen)
    BY <1>14 DEF Resolve, At
  <2>2. QED
    BY <1>2, <1>10, <2>1, ResolveEffect DEF Drained
<1>15. CASE CommitUnbound
  <2>1. op.pc = "unbindcommit" /\ active[op.job].n = 0 /\ UNCHANGED <<active, table, alive>>
    BY <1>1, <1>15 DEF CommitUnbound, At, CallSound, Unstarted
  <2>2. \/ Return /\ \E to, c, r, e : CommitWorkerResult(op.job, op.n, to, c, r, e, op.t)
        \/ Conflict(op.t)
    BY <1>15 DEF CommitUnbound
  <2>3. QED
    BY <1>2, <1>10, <1>11, <2>1, <2>2, FinishEffect DEF Unstarted
<1>16. ASSUME NEW t \in Stamps, StartFails(t) \/ Settle(t) PROVE Held'
  <2>1. op.pc \in {"startfail", "settle"} /\ active[op.job].n = 0
        /\ UNCHANGED <<active, table, alive>>
    BY <1>1, <1>16 DEF StartFails, Settle, At, CallSound, Unstarted
  <2>2. \/ Return /\ \E to, r, e : SuspendLease(op.job, op.n, to, r, e, t)
        \/ Return /\ \E to, c, r, e : CommitWorkerResult(op.job, op.n, to, c, r, e, t)
        \/ Return /\ AbandonUnstartedLease(op.job, op.n, t)
        \/ Conflict(t)
    BY <1>16 DEF StartFails, Settle
  <2>3. QED
    BY <1>2, <1>10, <1>11, <2>1, <2>2, FinishEffect DEF Unstarted
<1>17. ASSUME NEW t \in Stamps, Bind(t) PROVE Held'
  <2>1. /\ op.pc = "bind" /\ BindWorkerPid(op.job, op.n, t) /\ Return
        /\ UNCHANGED <<table, alive>>
        /\ active' = [active EXCEPT ![op.job] = [n |-> op.n, expires |-> leases[op.job].expires]]
    BY <1>17 DEF Bind, At
  <2>2. /\ leases' = leases /\ leases[op.job].attempt = op.n
        /\ \A i \in Job : Keeps(i) /\ jobs'[i].env = jobs[i].env
    BY <1>2, <2>1, RunningEffect
  <2>3. ASSUME NEW i \in Job, i # op.job PROVE JobHeld(i)'
    BY <1>1, <2>1, <2>2, <2>3, JobFrame DEF Shrinks, Base, DTypeOK
  <2>4. jobs' = jobs
    BY <2>1 DEF BindWorkerPid
  <2>5. ASSUME NEW i \in Job, i = op.job PROVE JobHeld(i)'
    BY <1>1, <1>2, <2>1, <2>2, <2>4, <2>5 DEF JobHeld, Base, DTypeOK
  <2>6. QED
    BY <1>1, <2>1, <2>2, <2>3, <2>5, Returns DEF Held
<1>18. ASSUME NEW t \in Stamps, CommitResult(t) PROVE Held'
  <2>1. op.pc = "commit" /\ Pop(op.job) /\ Return /\ UNCHANGED <<table, alive>>
    BY <1>18 DEF CommitResult, At
  <2>2. \/ \E to, r, e : SuspendLease(op.job, op.n, to, r, e, t)
        \/ \E to, c, r, e : CommitWorkerResult(op.job, op.n, to, c, r, e, t)
    BY <1>18 DEF CommitResult
  <2>3. QED
    BY <1>2, <1>10, <2>1, <2>2, FinishEffect DEF Drained
<1>19. ASSUME NEW t \in Stamps, CommitTooLate(t) PROVE Held'
  BY <1>11, <1>19 DEF CommitTooLate, At, Drained
<1>20. QED
  BY <1>3, <1>4, <1>5, <1>6, <1>7, <1>8, <1>9, <1>12, <1>13, <1>14, <1>15, <1>16, <1>17,
     <1>18, <1>19 DEF Proceed

LEMMA FailureHeld == ASSUME Base, Held, Failure PROVE Held'
<1>1. CallSound /\ \A i \in Job : JobHeld(i) /\ jobs[i].env = EnvelopeOf[i]
  BY DEF Held
<1>2. op.pc # "idle" => op.job \in Job /\ op.victim \in Job
  BY OpFields DEF Base
<1>3. CASE MarkFails
  <2>1. op.pc = "mark" /\ Goto("settle") /\ UNCHANGED <<vars, active, table, alive>>
    BY <1>3 DEF MarkFails, At
  <2>2. active[op.job].n = 0 /\ leases[op.job].attempt = op.n /\ Clear(op.job)
    BY <1>1, <2>1 DEF CallSound, Unstarted
  <2>3. CallSound'
    BY <1>2, <2>1, <2>2, UnstartedMove, QuietShrinks DEF Unstarted, vars
  <2>4. QED
    BY <2>1, <2>3, QuietShrinks, QuietHeld
<1>4. CASE DrainFails
  <2>1. /\ op.pc = "drain" /\ Goto("settle") /\ UNCHANGED <<active, table, alive>>
        /\ \E gen : CancelPreemptionFence(op.victim, active[op.victim].n, gen)
    BY <1>4 DEF DrainFails, At
  <2>2. jobs' = jobs /\ \A i \in Job : Keeps(i)
    BY <1>2, <2>1, FenceEffect
  <2>3. CallSound'
    BY <1>2, <2>1, <2>2, VictimOther, UnstartedMove, QuietShrinks DEF Unstarted, Keeps
  <2>4. QED
    BY <1>1, <2>1, <2>2, <2>3, JobFrame, QuietShrinks DEF Held
<1>5. CASE RequeueFails
  <2>1. /\ op.pc = "requeue" /\ Pop(op.victim) /\ Goto("settle") /\ UNCHANGED <<table, alive>>
        /\ \E gen : MarkPreemptionRecoveryRequired(op.victim, active[op.victim].n, gen)
    BY <1>5 DEF RequeueFails, At
  <2>2. /\ leases'[op.victim] = NoLease
        /\ \A i \in Job : i # op.victim => Keeps(i)
        /\ \A i \in Job : jobs'[i].env = jobs[i].env
    BY <1>2, <2>1, ResolveEffect
  <2>3. /\ active'[op.victim].n = 0
        /\ \A i \in Job : i # op.victim => active'[i] = active[i]
        /\ Clear(op.job) => Cleared(op.job)
    BY <1>2, <2>1, PopShrinks
  <2>4. Clear(op.victim)
    BY <1>1, <2>1 DEF CallSound
  <2>5. CallSound'
    BY <1>2, <2>1, <2>2, <2>3, VictimOther, UnstartedMove DEF Keeps, Unstarted
  <2>6. QED
    BY <1>2, <2>1, <2>2, <2>3, <2>4, <2>5, EndHeld
<1>6. CASE KillUnboundFails \/ KillFencedFails \/ LedgerRaises
  BY <1>6, Returns, QuietShrinks, QuietHeld DEF KillUnboundFails, KillFencedFails, LedgerRaises
<1>7. ASSUME NEW t \in Stamps, BindFails(t) PROVE Held'
  <2>1. op.pc = "bind" /\ GotoAt("unbind", t) /\ UNCHANGED <<vars, active, table, alive>>
    BY <1>7 DEF BindFails, At
  <2>2. op'.pc = "unbind" /\ op'.job = op.job /\ op'.n = op.n
    BY <2>1, Moves DEF Base
  <2>3. active[op.job].n = 0 /\ leases[op.job].attempt = op.n /\ Owns(op.job, op.n)
    BY <1>1, <2>1 DEF CallSound, Launched
  <2>4. CallSound'
    BY <2>1, <2>2, <2>3, QuietKeeps DEF CallSound, Unstarted, Launched, Drained, Owns
  <2>5. QED
    BY <2>1, <2>4, QuietShrinks, QuietHeld
<1>8. QED
  BY <1>3, <1>4, <1>5, <1>6, <1>7 DEF Failure

LEMMA HeldKept == Base /\ Held /\ [DNext]_dvars => Held'
<1> SUFFICES ASSUME Base, Held, [DNext]_dvars PROVE Held'
  OBVIOUS
<1>1. CASE UNCHANGED dvars
  <2>1. UNCHANGED <<vars, active, table, alive>> /\ op' = op
    BY <1>1 DEF dvars, own
  <2>2. CallSound'
    BY <2>1, QuietKeeps, CallFrame, QuietShrinks
  <2>3. QED
    BY <2>1, <2>2, QuietShrinks, QuietHeld
<1>2. QED
  BY <1>1, DispatchHeld, ProceedHeld, FailureHeld, HandleHeld, EnvironmentHeld DEF DNext

LEMMA AlwaysHeld == DSpec => [](Base /\ Held)
  BY BaseStart, BaseKept, HeldStart, HeldKept, PTL DEF DSpec

\* No process group outlives the lease of its attempt: no second attempt of a
\* job ever runs beside it, across restarts of the core too.
THEOREM NoWorkerWithoutLease == DSpec => []WorkerHasLease
<1>1. Held => WorkerHasLease
  BY DEF Held, JobHeld, WorkerHasLease
<1>2. QED
  BY <1>1, AlwaysHeld, PTL

\* What a handle remembers of its lease is what the ledger says.
THEOREM HandlesAreCurrent == DSpec => []HandleMirrorsLease
<1>1. Held => HandleMirrorsLease
  BY DEF Held, JobHeld, HandleMirrorsLease
<1>2. QED
  BY <1>1, AlwaysHeld, PTL

-----------------------------------------------------------------------------
(* While nothing fails and the core does not restart, a lease is either the *)
(* one the call in progress works on or has its handle and its worker.      *)

Settled(j) ==
    active[j].n = leases[j].attempt /\ Owns(j, active[j].n) /\ ~Fenced(j)

InHand(j) ==
    \/ op.pc # "idle" /\ j = op.job
    \/ op.pc \in {"drain", "requeue"} /\ j = op.victim

CalmSound ==
    Calm => /\ \A j \in Job : Leased(j) => Settled(j) \/ InHand(j)
            /\ op.pc \in {"expire", "kill"} => Owns(op.job, op.n)

\* Nothing of a settled job changes.
Still(j) ==
    leases'[j] = leases[j] /\ active'[j].n = active[j].n /\ table'[j].n = table[j].n

\* Where a job can be after a step, in terms of the step.
InHandNext(j) ==
    \/ op'.pc # "idle" /\ j = op'.job
    \/ op'.pc \in {"drain", "requeue"} /\ j = op'.victim

SettledNext(j) ==
    /\ active'[j].n = leases'[j].attempt /\ table'[j].n = active'[j].n
    /\ leases'[j].fence = "none"

LEMMA CalmStart == DInit => CalmSound
  BY DEF DInit, CalmSound, Leased, NoLease, Idle

LEMMA CalmMove ==
  ASSUME CalmSound, faults' = faults, stops' = stops,
         \A j \in Job : Calm =>
             \/ leases'[j].attempt = 0 \/ InHandNext(j) \/ SettledNext(j)
             \/ Still(j) /\ ~InHand(j),
         Calm /\ op'.pc \in {"expire", "kill"} => table'[op'.job].n = op'.n
  PROVE  CalmSound'
<1> SUFFICES ASSUME Calm PROVE CalmSound'
  BY DEF CalmSound, Calm
<1>1. ASSUME NEW j \in Job, Leased(j)' PROVE Settled(j)' \/ InHand(j)'
  <2>1. CASE InHandNext(j)
    BY <2>1 DEF InHandNext, InHand
  <2>2. CASE SettledNext(j)
    BY <2>2 DEF SettledNext, Settled, Owns, Fenced
  <2>3. CASE Still(j) /\ ~InHand(j)
    BY <1>1, <2>3 DEF CalmSound, Still, Settled, Owns, Fenced, Leased
  <2>4. QED
    BY <1>1, <2>1, <2>2, <2>3 DEF Leased
<1>2. QED
  BY <1>1 DEF CalmSound, Owns

\* A fault or a restart ends the calm.
LEMMA CalmEnds ==
  ASSUME Base, Fault \/ stops' = stops + 1
  PROVE  CalmSound'
<1>1. faults \in Nat /\ stops \in Nat
  BY DispatcherAssumption DEF Base, DTypeOK
<1>2. faults' # 0 \/ stops' # 0
  BY <1>1 DEF Fault
<1>3. QED
  BY <1>2 DEF CalmSound, Calm

LEMMA DispatchCalm == ASSUME Base, Held, CalmSound, Dispatch PROVE CalmSound'
<1>1. PICK j \in Job, fast \in BOOLEAN, t \in Stamps : Begin(j, fast, t)
  BY DEF Dispatch
<1>2. /\ op.pc = "idle" /\ UNCHANGED <<active, table, faults, stops>>
      /\ op'.pc \in {"preempt", "mark", "settle"} /\ op'.job = j
      /\ \A i \in Job : i # j => leases'[i] = leases[i]
  BY <1>1 DEF Begin, At, LeaseNext, Base, IInv, TypeOK
<1>3. QED
  BY <1>2, CalmMove DEF InHandNext, InHand, Still

LEMMA HandleCalm == ASSUME Base, Held, CalmSound, Handle PROVE CalmSound'
<1>1. ASSUME NEW j \in Job, PollExited(j) \/ PollTimedOut(j) PROVE CalmSound'
  <2>1. /\ op.pc = "idle" /\ UNCHANGED <<vars, active, faults, stops>> /\ Reap(j)
        /\ op'.pc = "commit" /\ op'.job = j
    BY <1>1 DEF PollExited, PollTimedOut, Handled, At, CallFor
  <2>2. leases' = leases /\ \A i \in Job : i # j => table'[i] = table[i]
    BY <2>1 DEF vars, Reap, Base, DTypeOK
  <2>3. QED
    BY <2>1, <2>2, CalmMove DEF InHandNext, InHand, Still
<1>2. ASSUME NEW j \in Job, NEW t \in Stamps, Expire(j, t) PROVE CalmSound'
  <2>1. /\ op.pc = "idle" /\ UNCHANGED <<vars, active, table, faults, stops>>
        /\ op'.pc = "expire" /\ op'.job = j /\ op'.n = active[j].n /\ active[j].n # 0
    BY <1>2 DEF Expire, Handled, At, CallFor
  <2>2. leases' = leases
    BY <2>1 DEF vars
  <2>3. Calm => Owns(j, active[j].n)
    BY <2>1 DEF CalmSound, Settled, InHand, Held, JobHeld, Leased
  <2>4. QED
    BY <2>1, <2>2, <2>3, CalmMove DEF InHandNext, InHand, Still, Owns
<1>3. ASSUME NEW j \in Job, NEW t \in Stamps, Heartbeat(j, t) PROVE CalmSound'
  <2>1. /\ op' = op /\ op.pc = "idle" /\ UNCHANGED <<table, faults, stops>>
        /\ leases' = [leases EXCEPT ![j].expires = LeaseEnd(j, LeaseTime, t)]
        /\ active' = [active EXCEPT ![j].expires = LeaseEnd(j, LeaseTime, t)]
    BY <1>3 DEF Heartbeat, Handled, At, HeartbeatLease
  <2>2. /\ \A i \in Job : active'[i].n = active[i].n /\ leases'[i].attempt = leases[i].attempt
                            /\ leases'[i].fence = leases[i].fence
    BY <2>1 DEF Base, IInv, DTypeOK, TypeOK, Lease
  <2>3. QED
    BY <2>1, <2>2, CalmMove
    DEF CalmSound, InHand, InHandNext, Settled, SettledNext, Owns, Fenced, Leased
<1>4. QED
  BY <1>1, <1>2, <1>3 DEF Handle, Watch

LEMMA EnvironmentCalm == ASSUME Base, Held, CalmSound, Environment PROVE CalmSound'
<1>1. ASSUME op' = op, leases' = leases, active' = active, UNCHANGED <<faults, stops>>,
             \A i \in Job : table'[i].n = table[i].n
      PROVE  CalmSound'
  <2>1. op.pc # "idle" => op.job \in Job
    BY OpFields DEF Base
  <2>2. QED
    BY <1>1, <2>1, CalmMove DEF CalmSound, InHand, InHandNext, Still, Owns
<1>2. ASSUME NEW j \in Job, WorkerExits(j) PROVE CalmSound'
  BY <1>1, <1>2 DEF WorkerExits, vars, Base, DTypeOK
<1>3. ASSUME NEW j \in Job, NEW n \in Numbers, OrphanEnds(j, n) PROVE CalmSound'
  BY <1>1, <1>3 DEF OrphanEnds, vars
<1>4. ASSUME NEW killed \in BOOLEAN, Restart(killed) PROVE CalmSound'
  BY <1>4, CalmEnds DEF Restart
<1>5. CASE Api
  BY <1>1, <1>5, ApiEffect DEF Api, own
<1>6. CASE DTick
  BY <1>1, <1>6 DEF DTick, Tick, own
<1>7. QED
  BY <1>2, <1>3, <1>4, <1>5, <1>6 DEF Environment

LEMMA ProceedCalm == ASSUME Base, Held, CalmSound, Proceed PROVE CalmSound'
<1>1. CallSound /\ \A i \in Job : JobHeld(i)
  BY DEF Held
<1>2. op.pc # "idle" => /\ op.job \in Job /\ op.n # 0 /\ op.victim \in Job
  BY OpFields DEF Base
<1>3. ASSUME op.pc \notin {"idle", "drain", "requeue"},
             op'.pc \notin {"idle", "expire"}, op'.job = op.job, UNCHANGED <<faults, stops>>,
             op'.pc = "kill" /\ Calm => table'[op'.job].n = op'.n,
             \A i \in Job : i # op.job => Still(i)
      PROVE  CalmSound'
  BY <1>3, CalmMove DEF InHand, InHandNext
<1>4. CASE NoVictimLeft \/ RefuseVictim \/ StartRefused
  <2>1. /\ op.pc \in {"preempt", "start"}
        /\ UNCHANGED <<vars, active, table, alive, faults, stops>>
        /\ \E pc \in {"mark", "settle", "startfail"} : Goto(pc)
    BY <1>4 DEF NoVictimLeft, RefuseVictim, StartRefused, At
  <2>2. op'.pc \in {"mark", "settle", "startfail"} /\ op'.job = op.job
    BY <2>1, Moves DEF Base
  <2>3. QED
    BY <1>3, <2>1, <2>2 DEF Still, vars
<1>5. CASE FenceVictim
  <2>1. PICK v \in Job :
           /\ FencePreemptibleLease(v, active[v].n, jobs[op.job].env.priority, op.t)
           /\ op' = [op EXCEPT !.pc = "drain", !.victim = v]
    BY <1>5 DEF FenceVictim, NextVictims, Victims
  <2>2. op.pc = "preempt" /\ UNCHANGED <<active, table, faults, stops>> /\ op \in Call
    BY <1>5, OpTyped DEF FenceVictim, At, Base
  <2>3. op'.pc = "drain" /\ op'.job = op.job /\ op'.victim = v
    BY <2>1, <2>2 DEF Call
  <2>4. \A i \in Job : i # v => leases'[i] = leases[i]
    BY <2>1, FenceEffect
  <2>5. QED
    BY <2>2, <2>3, <2>4, CalmMove DEF InHand, InHandNext, Still
<1>6. CASE DrainVictim
  <2>1. op.pc = "drain" /\ Reap(op.victim) /\ UNCHANGED <<vars, active, faults, stops>>
        /\ Goto("requeue")
    BY <1>6 DEF DrainVictim, At
  <2>2. op'.pc = "requeue" /\ op'.job = op.job /\ op'.victim = op.victim
    BY <2>1, Moves DEF Base
  <2>3. leases' = leases /\ \A i \in Job : i # op.victim => table'[i] = table[i]
    BY <1>2, <2>1 DEF vars, Reap, Base, DTypeOK
  <2>4. QED
    BY <2>1, <2>2, <2>3, CalmMove DEF InHand, InHandNext, Still
<1>7. CASE RequeueVictim
  <2>1. /\ op.pc = "requeue" /\ Pop(op.victim) /\ Goto("preempt")
        /\ UNCHANGED <<table, alive, faults, stops>>
        /\ \E gen : ResolvePreemptedLease(op.victim, active[op.victim].n, gen,
                                           jobs[op.job].env.priority)
    BY <1>7 DEF RequeueVictim, At
  <2>2. /\ leases'[op.victim] = NoLease
        /\ \A i \in Job : i # op.victim => leases'[i] = leases[i]
    BY <1>2, <2>1, ResolveEffect
  <2>3. \A i \in Job : i # op.victim => active'[i] = active[i]
    BY <1>2, <2>1, PopShrinks
  <2>4. op'.pc = "preempt" /\ op'.job = op.job
    BY <2>1, Moves DEF Base
  <2>5. QED
    BY <2>1, <2>2, <2>3, <2>4, CalmMove DEF InHand, InHandNext, Still, NoLease
<1>8. CASE Mark
  <2>1. op.pc = "mark" /\ MarkRunning(op.job, op.n, op.t) /\ Goto("start")
        /\ UNCHANGED <<active, table, faults, stops>>
    BY <1>8 DEF Mark, At
  <2>2. leases' = leases /\ op'.pc = "start" /\ op'.job = op.job
    BY <2>1, Moves DEF MarkRunning, Base
  <2>3. QED
    BY <1>3, <2>1, <2>2 DEF Still
<1>9. CASE StartWorker
  <2>1. /\ op.pc = "start" /\ Goto("bind") /\ UNCHANGED <<vars, active, faults, stops>>
        /\ table' = [table EXCEPT ![op.job] = [n |-> op.n, exited |-> FALSE]]
    BY <1>9 DEF StartWorker, At
  <2>2. op'.pc = "bind" /\ op'.job = op.job /\ leases' = leases
        /\ \A i \in Job : i # op.job => table'[i] = table[i]
    BY <1>2, <2>1, Moves DEF Base, DTypeOK, vars
  <2>3. QED
    BY <1>3, <2>1, <2>2 DEF Still
<1>10. CASE KillUnbound \/ KillFenced
  <2>1. /\ op.pc \in {"unbind", "kill"} /\ Reap(op.job) /\ UNCHANGED <<vars, active, faults, stops>>
        /\ \E pc \in {"unbindcommit", "resolve"} : Goto(pc)
    BY <1>10 DEF KillUnbound, KillFenced, At
  <2>2. op'.pc \in {"unbindcommit", "resolve"} /\ op'.job = op.job /\ leases' = leases
        /\ \A i \in Job : i # op.job => table'[i] = table[i]
    BY <1>2, <2>1, Moves DEF Base, DTypeOK, Reap, vars
  <2>3. QED
    BY <1>3, <2>1, <2>2 DEF Still
<1>11. CASE FenceHeld("expire", "kill") \/ FenceHeld("fence", "resolve")
  <2>1. PICK pc \in {"kill", "resolve"} :
           /\ Goto(pc) /\ op.pc \in {"expire", "fence"}
           /\ UNCHANGED <<active, table, faults, stops>>
           /\ pc = "kill" => op.pc = "expire"
           /\ FenceLease(op.job, op.n, op.t) \/ UNCHANGED vars
    BY <1>11 DEF FenceHeld, At
  <2>2. op'.pc = pc /\ op'.job = op.job /\ op'.n = op.n
    BY <2>1, Moves DEF Base
  <2>3. \A i \in Job : i # op.job => leases'[i] = leases[i]
    BY <1>2, <2>1, QuietKeeps, FenceEffect
  <2>4. QED
    BY <1>3, <2>1, <2>2, <2>3 DEF Still, CalmSound, Owns
<1>12. ASSUME op.pc \notin {"idle", "drain", "requeue"}, UNCHANGED <<table, faults, stops>>,
              active' = active \/ Pop(op.job), UNCHANGED <<table, alive>>,
              leases'[op.job] = NoLease,
              \A i \in Job : i # op.job => leases'[i] = leases[i], Return
       PROVE  CalmSound'
  <2>1. op'.pc = "idle"
    BY <1>12, Returns
  <2>2. \A i \in Job : i # op.job => active'[i] = active[i]
    BY <1>2, <1>12, PopShrinks
  <2>3. QED
    BY <1>12, <2>1, <2>2, CalmMove DEF InHand, Still, NoLease
<1>13. ASSUME NEW t, op.pc \notin {"idle", "drain", "requeue"}, Conflict(t),
              UNCHANGED <<active, table, faults, stops>>
       PROVE  CalmSound'
  <2>1. GotoAt("fence", t) /\ leases' = leases
    BY <1>13 DEF Conflict, vars
  <2>2. op'.pc = "fence" /\ op'.job = op.job
    BY <1>13, <2>1, Moves DEF Base
  <2>3. QED
    BY <1>3, <1>13, <2>1, <2>2 DEF Still
<1>14. CASE Resolve
  <2>1. op.pc = "resolve" /\ Pop(op.job) /\ Return /\ UNCHANGED <<table, alive, faults, stops>>
        /\ \E gen : ResolveFencedLease(op.job, op.n, gen)
    BY <1>14 DEF Resolve, At
  <2>2. QED
    BY <1>2, <1>12, <2>1, ResolveEffect
<1>15. ASSUME NEW t,
              (CommitUnbound /\ t = op.t) \/ StartFails(t) \/ Settle(t) \/ CommitTooLate(t)
       PROVE  CalmSound'
  <2>1. op.pc \in {"unbindcommit", "startfail", "settle", "commit"}
        /\ UNCHANGED <<active, table, alive, faults, stops>>
    BY <1>15 DEF CommitUnbound, StartFails, Settle, CommitTooLate, At
  <2>2. \/ Return /\ \E to, r, e : SuspendLease(op.job, op.n, to, r, e, t)
        \/ Return /\ \E to, c, r, e : CommitWorkerResult(op.job, op.n, to, c, r, e, t)
        \/ Return /\ AbandonUnstartedLease(op.job, op.n, t)
        \/ Conflict(t)
    BY <1>15 DEF CommitUnbound, StartFails, Settle, CommitTooLate
  <2>3. QED
    BY <1>2, <1>12, <1>13, <2>1, <2>2, FinishEffect
<1>16. ASSUME NEW t \in Stamps, Bind(t) PROVE CalmSound'
  <2>1. /\ op.pc = "bind" /\ BindWorkerPid(op.job, op.n, t) /\ Return
        /\ UNCHANGED <<table, alive, faults, stops>>
        /\ active' = [active EXCEPT ![op.job] = [n |-> op.n, expires |-> leases[op.job].expires]]
    BY <1>16 DEF Bind, At
  <2>2. leases' = leases /\ leases[op.job].attempt = op.n /\ ~Fenced(op.job)
    BY <1>2, <2>1, RunningEffect
  <2>3. /\ active'[op.job].n = op.n /\ table[op.job].n = op.n
        /\ \A i \in Job : i # op.job => active'[i] = active[i]
    BY <1>1, <1>2, <2>1 DEF CallSound, Launched, Owns, Base, DTypeOK
  <2>4. op'.pc = "idle"
    BY <2>1, Returns
  <2>5. QED
    BY <2>1, <2>2, <2>3, <2>4, CalmMove DEF InHand, Still, SettledNext, Fenced
<1>17. ASSUME NEW t \in Stamps, CommitResult(t) PROVE CalmSound'
  <2>1. op.pc = "commit" /\ Pop(op.job) /\ Return /\ UNCHANGED <<table, alive, faults, stops>>
    BY <1>17 DEF CommitResult, At
  <2>2. \/ \E to, r, e : SuspendLease(op.job, op.n, to, r, e, t)
        \/ \E to, c, r, e : CommitWorkerResult(op.job, op.n, to, c, r, e, t)
    BY <1>17 DEF CommitResult
  <2>3. QED
    BY <1>2, <1>12, <2>1, <2>2, FinishEffect
<1>18. QED
  BY <1>4, <1>5, <1>6, <1>7, <1>8, <1>9, <1>10, <1>11, <1>14, <1>15, <1>16, <1>17
  DEF Proceed

LEMMA FailureCalm == ASSUME Base, Held, CalmSound, Failure PROVE CalmSound'
<1>1. CASE Fault
  BY <1>1, CalmEnds
<1>2. CASE KillFencedFails /\ NoFault
  <2>1. /\ op.pc = "kill" /\ (~Owns(op.job, op.n) \/ Fault)
        /\ Return /\ UNCHANGED <<vars, active, table, stops>>
    BY <1>2 DEF KillFencedFails, At
  <2>2. CASE Fault
    BY <2>2, CalmEnds
  <2>3. CASE ~Fault
    <3>1. op.pc = "kill" /\ ~Owns(op.job, op.n)
      BY <1>2, <2>1, <2>3 DEF KillFencedFails, At
    <3>2. ~Calm
      BY <3>1 DEF CalmSound
    <3>3. UNCHANGED <<faults, stops>>
      BY <1>2, <2>1 DEF NoFault
    <3>4. QED
      BY <3>2, <3>3 DEF CalmSound, Calm
  <2>4. QED
    BY <2>2, <2>3
<1>3. ASSUME NEW t \in Stamps, BindFails(t), NoFault PROVE CalmSound'
  <2>1. op.pc = "bind" /\ GotoAt("unbind", t) /\ UNCHANGED <<vars, active, table, faults, stops>>
    BY <1>3 DEF BindFails, At, NoFault
  <2>2. op'.pc = "unbind" /\ op'.job = op.job
    BY <2>1, Moves DEF Base
  <2>3. QED
    BY <2>1, <2>2, CalmMove DEF InHand, InHandNext, Still, vars
<1>4. QED
  BY <1>1, <1>2, <1>3
  DEF Failure, DrainFails, RequeueFails, MarkFails, KillUnboundFails, KillFencedFails,
      LedgerRaises, BindFails

LEMMA CalmKept == Base /\ Held /\ CalmSound /\ [DNext]_dvars => CalmSound'
<1> SUFFICES ASSUME Base, Held, CalmSound, [DNext]_dvars PROVE CalmSound'
  OBVIOUS
<1>1. CASE UNCHANGED dvars
  <2>1. UNCHANGED <<vars, active, table, op, faults, stops>>
    BY <1>1 DEF dvars, own
  <2>2. op.pc # "idle" => op.job \in Job
    BY OpFields DEF Base
  <2>3. QED
    BY <2>1, <2>2, CalmMove DEF InHand, InHandNext, Still, vars, CalmSound, Owns
<1>2. QED
  BY <1>1, DispatchCalm, ProceedCalm, FailureCalm, HandleCalm, EnvironmentCalm DEF DNext

\* Whatever way a dispatcher call ends, a lease that is left has its handle,
\* the handle its worker, and no fence is left standing.
THEOREM NoLeaseForgotten == DSpec => []NoOrphanLease
<1>1. CalmSound => NoOrphanLease
  <2> SUFFICES ASSUME CalmSound, Calm, op = Idle, NEW j \in Job, Leased(j)
               PROVE  active[j].n = leases[j].attempt /\ Owns(j, active[j].n) /\ ~Fenced(j)
    BY DEF NoOrphanLease
  <2>1. op.pc = "idle"
    BY DEF Idle
  <2>2. QED
    BY <2>1 DEF CalmSound, Settled, InHand
<1>2. QED
  BY <1>1, CalmStart, CalmKept, AlwaysHeld, PTL DEF DSpec

-----------------------------------------------------------------------------
(* The heavy slots: until a restart every process group has its entry in   *)
(* the table, and the table holds at most max_heavy heavy workers.         *)

Accounted == \A j \in Job, n \in Numbers : <<j, n>> \in alive => table[j].n = n

HeavyTracked == {j \in Job : table[j].n # 0 /\ EnvelopeOf[j].heavy}

SlotsKept ==
    /\ IsFiniteSet(HeavyTracked) /\ Cardinality(HeavyTracked) <= MaxHeavy
    /\ stops = 0 => Accounted

LEMMA TrackedHeavy == ASSUME Held PROVE Tracked(TRUE) = HeavyTracked
  BY DEF Held, Tracked, HeavyTracked

LEMMA SlotsStart == DInit => SlotsKept
<1> SUFFICES ASSUME DInit PROVE SlotsKept
  OBVIOUS
<1>1. HeavyTracked = {}
  BY DEF DInit, HeavyTracked, NoWorker
<1>2. QED
  BY <1>1, FS_EmptySet, DispatcherAssumption DEF DInit, SlotsKept, Accounted

\* A worker leaves the table with its process group, or the core restarts.
LEMMA SlotsMove ==
  ASSUME SlotsKept,
         \A i \in Job : table'[i].n = 0 \/ table'[i].n = table[i].n,
         stops' = 0 =>
             /\ stops = 0 /\ alive' \subseteq alive
             /\ \A i \in Job : Cleared(i) \/ table'[i].n = table[i].n
  PROVE  SlotsKept'
<1>1. HeavyTracked' \in SUBSET HeavyTracked
  BY DEF HeavyTracked
<1>2. /\ IsFiniteSet(HeavyTracked')
      /\ Cardinality(HeavyTracked') <= Cardinality(HeavyTracked)
  BY <1>1, FS_Subset DEF SlotsKept
<1>3. Cardinality(HeavyTracked) \in Nat /\ Cardinality(HeavyTracked') \in Nat
  BY <1>2, FS_CardinalityType DEF SlotsKept
<1>4. Cardinality(HeavyTracked') <= MaxHeavy
  BY <1>2, <1>3, DispatcherAssumption DEF SlotsKept
<1>5. stops' = 0 => Accounted'
  BY DEF SlotsKept, Accounted, Cleared
<1>6. QED
  BY <1>2, <1>4, <1>5 DEF SlotsKept

LEMMA SlotsReap ==
  ASSUME Base, Held, SlotsKept, NEW j \in Job, table[j].n # 0, Reap(j), stops' = stops
  PROVE  SlotsKept'
<1>1. Cleared(j) /\ alive' \subseteq alive /\ \A i \in Job : i # j => table'[i] = table[i]
  BY ReapClears DEF Held
<1>2. QED
  BY <1>1, SlotsMove DEF Cleared

\* Admission is what keeps the count: one more worker where there was room.
LEMMA SlotsStarted == ASSUME Base, Held, SlotsKept, StartWorker PROVE SlotsKept'
<1>1. /\ op.pc = "start" /\ Admitted(op.job) /\ stops' = stops
      /\ table' = [table EXCEPT ![op.job] = [n |-> op.n, exited |-> FALSE]]
      /\ alive' = alive \cup {<<op.job, op.n>>}
  BY DEF StartWorker, At
<1>2. op.job \in Job /\ Clear(op.job)
  BY <1>1, OpFields DEF Base, Held, CallSound, Unstarted
<1>3. table'[op.job].n = op.n /\ \A i \in Job : i # op.job => table'[i] = table[i]
  BY <1>1, <1>2 DEF Base, DTypeOK
<1>4. stops' = 0 => Accounted'
  BY <1>1, <1>2, <1>3 DEF SlotsKept, Accounted, Clear
<1>5. IsFiniteSet(HeavyTracked) /\ Cardinality(HeavyTracked) \in Nat
  BY FS_CardinalityType DEF SlotsKept
<1>6. CASE ~EnvelopeOf[op.job].heavy
  <2>1. HeavyTracked' = HeavyTracked
    BY <1>3, <1>6 DEF HeavyTracked
  <2>2. QED
    BY <1>4, <2>1 DEF SlotsKept
<1>7. CASE EnvelopeOf[op.job].heavy
  <2>1. Cardinality(HeavyTracked) < MaxHeavy
    BY <1>1, <1>2, <1>7, TrackedHeavy DEF Admitted, Held
  <2>2. HeavyTracked' \in SUBSET (HeavyTracked \cup {op.job})
    BY <1>3 DEF HeavyTracked
  <2>3. /\ IsFiniteSet(HeavyTracked \cup {op.job})
        /\ Cardinality(HeavyTracked \cup {op.job}) <= Cardinality(HeavyTracked) + 1
    BY <1>5, FS_AddElement
  <2>4. /\ IsFiniteSet(HeavyTracked')
        /\ Cardinality(HeavyTracked') <= Cardinality(HeavyTracked \cup {op.job})
    BY <2>2, <2>3, FS_Subset
  <2>5. Cardinality(HeavyTracked') \in Nat /\ Cardinality(HeavyTracked \cup {op.job}) \in Nat
    BY <2>3, <2>4, FS_CardinalityType
  <2>6. Cardinality(HeavyTracked') <= MaxHeavy
    BY <1>5, <2>1, <2>3, <2>4, <2>5, DispatcherAssumption
  <2>7. QED
    BY <1>4, <2>4, <2>6 DEF SlotsKept
<1>8. QED
  BY <1>6, <1>7

LEMMA SlotsQuiet ==
  ASSUME SlotsKept, UNCHANGED <<table, alive, stops>>
  PROVE  SlotsKept'
  BY DEF SlotsKept, HeavyTracked, Accounted

LEMMA SlotsAround == ASSUME Base, Held, SlotsKept, Environment PROVE SlotsKept'
<1>1. ASSUME NEW j \in Job, WorkerExits(j) PROVE SlotsKept'
  <2>1. PICK left \in {{}, {<<j, table[j].n>>}} :
           /\ alive' = (alive \ {<<j, table[j].n>>}) \cup left
           /\ table[j].n # 0 /\ stops' = stops
           /\ table' = [table EXCEPT ![j].exited = TRUE]
    BY <1>1 DEF WorkerExits
  <2>2. \A i \in Job : table'[i].n = table[i].n
    BY <2>1 DEF Base, DTypeOK
  <2>3. stops' = 0 => Accounted'
    BY <2>1, <2>2 DEF SlotsKept, Accounted
  <2>4. HeavyTracked' = HeavyTracked
    BY <2>2 DEF HeavyTracked
  <2>5. QED
    BY <2>3, <2>4 DEF SlotsKept
<1>2. ASSUME NEW j \in Job, NEW n \in Numbers, OrphanEnds(j, n) PROVE SlotsKept'
  BY <1>2, SlotsMove DEF OrphanEnds
<1>3. ASSUME NEW killed, Restart(killed) PROVE SlotsKept'
  <2>1. stops' # 0
    BY <1>3, DispatcherAssumption DEF Restart, Base, DTypeOK
  <2>2. \A i \in Job : table'[i].n = 0
    BY <1>3 DEF Restart, NoWorker
  <2>3. QED
    BY <2>1, <2>2, SlotsMove
<1>4. CASE Api \/ DTick
  BY <1>4, SlotsQuiet DEF Api, DTick, own
<1>5. QED
  BY <1>1, <1>2, <1>3, <1>4 DEF Environment

LEMMA SlotsStep == Base /\ Held /\ SlotsKept /\ [DNext]_dvars => SlotsKept'
<1> SUFFICES ASSUME Base, Held, SlotsKept, [DNext]_dvars PROVE SlotsKept'
  OBVIOUS
<1>1. CASE UNCHANGED dvars
  BY <1>1, SlotsQuiet DEF dvars, own
<1>2. CASE Dispatch
  BY <1>2, SlotsQuiet DEF Dispatch, Begin
<1>3. CASE Proceed
  <2>1. op.pc # "idle" => op.job \in Job /\ op.victim \in Job /\ op.n # 0
    BY OpFields DEF Base
  <2>2. CASE DrainVictim
    <3>1. op.pc = "drain" /\ Reap(op.victim) /\ stops' = stops
      BY <2>2 DEF DrainVictim, At
    <3>2. table[op.victim].n # 0
      BY <3>1 DEF Held, CallSound, Owns
    <3>3. QED
      BY <2>1, <3>1, <3>2, SlotsReap
  <2>3. CASE KillUnbound \/ KillFenced
    <3>1. op.pc \in {"unbind", "kill"} /\ Reap(op.job) /\ stops' = stops
          /\ (op.pc = "kill" => Owns(op.job, op.n))
      BY <2>3 DEF KillUnbound, KillFenced, At
    <3>2. table[op.job].n # 0
      BY <2>1, <3>1 DEF Held, CallSound, Launched, Owns
    <3>3. QED
      BY <2>1, <3>1, <3>2, SlotsReap
  <2>4. CASE StartWorker
    BY <2>4, SlotsStarted
  <2>5. CASE UNCHANGED <<table, alive, stops>>
    BY <2>5, SlotsQuiet
  <2>6. QED
    BY <1>3, <2>2, <2>3, <2>4, <2>5
    DEF Proceed, NoVictimLeft, FenceVictim, RefuseVictim, RequeueVictim, Mark,
        StartRefused, CommitUnbound, FenceHeld, Resolve, StartFails, Bind, Settle,
        CommitResult, CommitTooLate
<1>4. CASE Failure
  BY <1>4, SlotsQuiet
  DEF Failure, DrainFails, RequeueFails, MarkFails, KillUnboundFails, KillFencedFails,
      LedgerRaises, BindFails
<1>5. CASE Handle
  <2>1. ASSUME NEW j \in Job, PollExited(j) \/ PollTimedOut(j) PROVE SlotsKept'
    BY <2>1, SlotsReap DEF PollExited, PollTimedOut, Handled, Owns
  <2>2. ASSUME NEW j \in Job, NEW t \in Stamps, Expire(j, t) \/ Heartbeat(j, t)
        PROVE  SlotsKept'
    BY <2>2, SlotsQuiet DEF Expire, Heartbeat
  <2>3. QED
    BY <1>5, <2>1, <2>2 DEF Handle, Watch
<1>6. CASE Environment
  BY <1>6, SlotsAround
<1>7. QED
  BY <1>1, <1>2, <1>3, <1>4, <1>5, <1>6 DEF DNext

\* Until the core restarts, the heavy process groups that really exist stay
\* within max_heavy, the ones whose leader exited and left children included.
THEOREM HeavyWithinLimit == DSpec => []HeavyLimit
<1>1. Base /\ Held /\ SlotsKept => HeavyLimit
  <2> DEFINE Groups == {w \in alive : jobs[w[1]].env.heavy}
             jobOf == [w \in Groups |-> w[1]]
  <2> SUFFICES ASSUME Base, Held, SlotsKept, stops = 0
               PROVE  Cardinality(Groups) <= MaxHeavy
    BY DEF HeavyLimit
  <2>1. \A w \in Groups :
           w[1] \in HeavyTracked /\ w = <<w[1], table[w[1]].n>>
    <3> TAKE w \in Groups
    <3>1. w \in Job \X Numbers /\ w = <<w[1], w[2]>>
      BY DEF Base, DTypeOK
    <3>2. table[w[1]].n = w[2] /\ w[2] # 0
      BY <3>1, BoundsAssumption DEF SlotsKept, Accounted, Numbers
    <3>3. QED
      BY <3>1, <3>2 DEF HeavyTracked, Held
  <2>2. jobOf \in Injection(Groups, HeavyTracked)
    <3>1. jobOf \in [Groups -> HeavyTracked]
      BY <2>1
    <3>2. \A v, w \in Groups : jobOf[v] = jobOf[w] => v = w
      BY <2>1
    <3>3. QED
      BY <3>1, <3>2 DEF Injection, IsInjective
  <2>3. IsFiniteSet(Groups) /\ Cardinality(Groups) <= Cardinality(HeavyTracked)
    BY <2>2, FS_Injection DEF SlotsKept
  <2>4. Cardinality(Groups) \in Nat /\ Cardinality(HeavyTracked) \in Nat
    BY <2>3, FS_CardinalityType DEF SlotsKept
  <2>5. QED
    BY <2>3, <2>4, DispatcherAssumption DEF SlotsKept
<1>2. QED
  BY <1>1, SlotsStart, SlotsStep, AlwaysHeld, PTL DEF DSpec

-----------------------------------------------------------------------------
(* Preemption: the one step that closes an attempt as preempted.           *)

\* No attempt becomes preempted.
Spares ==
    \A j \in Job, n \in Numbers :
        attempts'[j][n].status = "preempted" => attempts[j][n].status = "preempted"

\* A step that writes at most one attempt row, with some other status.
LEMMA WriteSpares ==
  ASSUME TypeOK, NEW j, NEW n, NEW row, row.status # "preempted",
         attempts' = [attempts EXCEPT ![j][n] = row]
  PROVE  Spares
  BY DEF TypeOK, Spares, Numbers

LEMMA CloseSpares ==
  ASSUME TypeOK, NEW j, NEW n, NEW o, o # "preempted", CloseAttempt(j, n, o)
  PROVE  Spares
<1>1. [status |-> o, bound |-> attempts[j][n].bound].status # "preempted"
  OBVIOUS
<1>2. attempts' = [attempts EXCEPT ![j][n] = [status |-> o, bound |-> attempts[j][n].bound]]
  BY DEF CloseAttempt
<1>3. QED
  BY <1>1, <1>2, WriteSpares

LEMMA FinishSpares ==
  ASSUME TypeOK, NEW j, NEW n, NEW t,
         \/ AbandonUnstartedLease(j, n, t)
         \/ \E to, r, e : SuspendLease(j, n, to, r, e, t)
         \/ \E to, c, r, e : CommitWorkerResult(j, n, to, c, r, e, t)
  PROVE  Spares
<1>1. CASE AbandonUnstartedLease(j, n, t)
  BY <1>1, CloseSpares DEF AbandonUnstartedLease
<1>2. ASSUME NEW to, NEW c, NEW r, NEW e, to \in SuspendTarget \cup ResultTarget,
             FinishLease(j, n, to, c, r, e, t)
      PROVE  Spares
  BY <1>2, CloseSpares DEF FinishLease, SuspendTarget, ResultTarget
<1>3. QED
  BY <1>1, <1>2 DEF SuspendLease, CommitWorkerResult

LEMMA QuietSpares == ASSUME attempts' = attempts PROVE Spares
  BY DEF Spares

LEMMA ConflictSpares == ASSUME NEW t, Conflict(t) PROVE Spares
  BY QuietSpares DEF Conflict, vars

LEMMA DispatchSpares == ASSUME TypeOK, Dispatch PROVE Spares
<1>1. PICK j \in Job, fast \in BOOLEAN, t \in Stamps : Begin(j, fast, t)
  BY DEF Dispatch
<1>2. attempts' = [attempts EXCEPT
         ![j][jobs[j].attemptCount + 1] = [status |-> "leased", bound |-> FALSE]]
  BY <1>1 DEF Begin, LeaseNext
<1>3. [status |-> "leased", bound |-> FALSE].status # "preempted"
  OBVIOUS
<1>4. QED
  BY <1>2, <1>3, WriteSpares

LEMMA ProceedSpares == ASSUME TypeOK, Proceed, ~RequeueVictim PROVE Spares
<1>1. CASE UNCHANGED vars
  BY <1>1, QuietSpares DEF vars
<1>2. CASE FenceVictim
  BY <1>2, QuietSpares DEF FenceVictim, FencePreemptibleLease, Fence
<1>3. CASE Mark
  <2>1. attempts' = [attempts EXCEPT ![op.job][op.n] = [status |-> "running", bound |-> FALSE]]
    BY <1>3 DEF Mark, MarkRunning
  <2>2. [status |-> "running", bound |-> FALSE].status # "preempted"
    OBVIOUS
  <2>3. QED
    BY <2>1, <2>2, WriteSpares
<1>4. CASE FenceHeld("expire", "kill") \/ FenceHeld("fence", "resolve")
  BY <1>4, QuietSpares DEF FenceHeld, FenceLease, Fence, vars
<1>5. CASE Resolve
  BY <1>5, CloseSpares DEF Resolve, ResolveFencedLease
<1>6. ASSUME NEW t \in Stamps, Bind(t) PROVE Spares
  <2>1. attempts' = [attempts EXCEPT ![op.job][op.n] = [status |-> "running", bound |-> TRUE]]
    BY <1>6 DEF Bind, BindWorkerPid
  <2>2. [status |-> "running", bound |-> TRUE].status # "preempted"
    OBVIOUS
  <2>3. QED
    BY <2>1, <2>2, WriteSpares
<1>7. ASSUME NEW t, (CommitUnbound /\ t = op.t) \/ StartFails(t) \/ Settle(t)
                     \/ CommitResult(t) \/ CommitTooLate(t)
      PROVE  Spares
  <2>1. \/ AbandonUnstartedLease(op.job, op.n, t)
        \/ \E to, r, e : SuspendLease(op.job, op.n, to, r, e, t)
        \/ \E to, c, r, e : CommitWorkerResult(op.job, op.n, to, c, r, e, t)
        \/ Conflict(t)
    BY <1>7 DEF CommitUnbound, StartFails, Settle, CommitResult, CommitTooLate
  <2>2. QED
    BY <2>1, FinishSpares, ConflictSpares
<1>8. QED
  BY <1>1, <1>2, <1>3, <1>4, <1>5, <1>6, <1>7
  DEF Proceed, NoVictimLeft, RefuseVictim, DrainVictim, StartWorker, StartRefused,
      KillUnbound, KillFenced

LEMMA FailureSpares == ASSUME TypeOK, Failure PROVE Spares
<1>1. CASE DrainFails
  BY <1>1, QuietSpares DEF DrainFails, CancelPreemptionFence
<1>2. CASE RequeueFails
  BY <1>2, CloseSpares DEF RequeueFails, MarkPreemptionRecoveryRequired
<1>3. CASE UNCHANGED vars
  BY <1>3, QuietSpares DEF vars
<1>4. QED
  BY <1>1, <1>2, <1>3
  DEF Failure, MarkFails, KillUnboundFails, KillFencedFails, LedgerRaises, BindFails

LEMMA AroundSpares == ASSUME Handle \/ Environment PROVE Spares
<1>1. attempts' = attempts
  <2>1. CASE Handle
    BY <2>1 DEF Handle, Watch, PollExited, PollTimedOut, Expire, Heartbeat,
                HeartbeatLease, vars
  <2>2. CASE Environment
    BY <2>2 DEF Environment, WorkerExits, OrphanEnds, Restart, Api, DTick, Tick,
                ConfirmJob, TransitionJob, vars
  <2>3. QED
    BY <2>1, <2>2
<1>2. QED
  BY <1>1, QuietSpares

LEMMA RequeueJustified ==
  ASSUME Base, Held, RequeueVictim,
         NEW j \in Job, NEW n \in Numbers,
         attempts'[j][n].status = "preempted", attempts[j][n].status # "preempted"
  PROVE  /\ \A m \in Numbers : <<j, m>> \notin alive'
         /\ \E i \in Job : /\ Leased(i) /\ ~jobs[i].env.heavy
                           /\ Weight[jobs[i].env.priority] > Weight[jobs[j].env.priority]
<1>1. op.pc = "requeue" /\ UNCHANGED alive
      /\ \E gen : ResolvePreemptedLease(op.victim, active[op.victim].n, gen,
                                         jobs[op.job].env.priority)
  BY DEF RequeueVictim, At
<1>2. j = op.victim
  BY <1>1 DEF ResolvePreemptedLease, CloseAttempt, Base, DTypeOK, TypeOK, Numbers
<1>3. /\ Clear(op.victim) /\ ~EnvelopeOf[op.job].heavy
      /\ Weight[EnvelopeOf[op.victim].priority] < Weight[EnvelopeOf[op.job].priority]
  BY <1>1 DEF Held, CallSound
<1>4. \A m \in Numbers : <<j, m>> \notin alive'
  BY <1>1, <1>2, <1>3 DEF Clear
<1>5. op.job \in Job /\ leases[op.job].attempt = op.n /\ op.n # 0 /\ op.victim \in Job
  BY <1>1, OpFields DEF Base, Held, CallSound, Unstarted
<1>6. Leased(op.job) /\ ~jobs[op.job].env.heavy
  BY <1>3, <1>5 DEF Leased, Held
<1>7. Weight[jobs[op.job].env.priority] \in Nat /\ Weight[jobs[j].env.priority] \in Nat
  BY <1>5, PriorityTyped, WeightTyped DEF Base, DTypeOK
<1>8. Weight[jobs[op.job].env.priority] > Weight[jobs[j].env.priority]
  BY <1>2, <1>3, <1>5, <1>7 DEF Held
<1>9. QED
  BY <1>4, <1>5, <1>6, <1>8

\* A victim is pushed aside only for a light job that holds a lease and
\* outranks it, and only when its own process group is gone: the call keeps the
\* victim it fenced, and drained it, between the two ledger transactions.
THEOREM PreemptionJustified == DSpec => PreemptedForHigher
<1>1. ASSUME Base, Held, [DNext]_dvars
      PROVE  [\A j \in Job, n \in Numbers :
                attempts'[j][n].status = "preempted" /\ attempts[j][n].status # "preempted" =>
                    /\ \A m \in Numbers : <<j, m>> \notin alive'
                    /\ \E i \in Job : /\ Leased(i) /\ ~jobs[i].env.heavy
                                      /\ Weight[jobs[i].env.priority] > Weight[jobs[j].env.priority]]_dvars
  <2>1. CASE RequeueVictim
    BY <1>1, <2>1, RequeueJustified
  <2>2. CASE Spares
    BY <2>2 DEF Spares
  <2>3. QED
    BY <1>1, <2>1, <2>2, DispatchSpares, ProceedSpares, FailureSpares, AroundSpares
    DEF DNext, Base, DTypeOK
<1>2. QED
  BY <1>1, AlwaysHeld, PTL DEF DSpec, PreemptedForHigher
=============================================================================
