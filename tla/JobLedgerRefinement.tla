------------------------ MODULE JobLedgerRefinement -------------------------
(***************************************************************************)
(* The ledger implements LeaseContract: the initial states map to initial  *)
(* states and, under the invariant of JobLedgerProofs, every operation     *)
(* maps to one contract action or to a stutter.                            *)
(***************************************************************************)
EXTENDS JobLedgerProofs

LEMMA ContractInit == Init => Contract!Init
<1> SUFFICES ASSUME Init PROVE Contract!Init
  OBVIOUS
<1>1. \A j \in Job : leases[j] = NoLease /\ jobs[j] = AbsentRow
  BY DEF Init
<1>2. AbsentRow.attemptCount = 0 /\ AbsentRow.status = "absent"
  BY DEF AbsentRow, NewRow
<1>3. \A j \in Job : leases[j].attempt = 0 /\ Fenced(j) = FALSE /\ Conclusion(j) = "pending"
  BY <1>1, <1>2 DEF NoLease, Fenced, Conclusion, Terminal
<1>4. \A j \in Job : jobs[j].attemptCount = 0
  BY <1>1, <1>2
<1>5. QED
  BY <1>3, <1>4 DEF Contract!Init

\* What the contract sees of job i does not change.
Unseen(i) ==
    /\ leases'[i].attempt = leases[i].attempt
    /\ jobs'[i].attemptCount = jobs[i].attemptCount
    /\ Fenced(i)' = Fenced(i)
    /\ Conclusion(i)' = Conclusion(i)

LEMMA StutterMap ==
  ASSUME \A i \in Job : Unseen(i)
  PROVE  UNCHANGED Contract!vars
  BY DEF Unseen, Contract!vars

\* A step that concludes a job nobody holds.
LEMMA RetireMap ==
  ASSUME IInv, NEW j \in Job, ~Leased(j), \A i \in Job \ {j} : Unseen(i),
         leases'[j] = leases[j], jobs'[j].attemptCount = jobs[j].attemptCount,
         Conclusion(j) = "pending"
  PROVE  Contract!Next \/ UNCHANGED Contract!vars
<1>1. Fenced(j)' = Fenced(j)
  BY DEF Fenced
<1>2. CASE Conclusion(j)' = "pending"
  BY <1>1, <1>2, StutterMap DEF Unseen
<1>3. CASE Conclusion(j)' # "pending"
  <2>1. PICK o \in Terminal : Conclusion(j)' = o
    BY <1>3 DEF Conclusion
  <2>2. Contract!Retire(j, o)
    BY <1>1, <2>1 DEF Contract!Retire, Contract!Owned, Leased, Unseen
  <2>3. QED
    BY <2>1, <2>2 DEF Contract!Next
<1>4. QED
  BY <1>2, <1>3

\* A step that closes the lease of job j: it completes, expires or yields.
LEMMA CloseMap ==
  ASSUME IInv, NEW j \in Job, NEW n \in Numbers, leases[j].attempt = n,
         NEW r \in Row, r.attemptCount = jobs[j].attemptCount,
         Fenced(j) => r.status \notin Terminal \/ r.status = "timed_out",
         jobs' = [jobs EXCEPT ![j] = r], leases' = [leases EXCEPT ![j] = NoLease]
  PROVE  Contract!Next
<1>1. Leased(j) /\ jobs[j].status \notin Terminal
  BY BoundsAssumption DEF IInv, JobSound, Leased, Numbers, OpenAttempt, Terminal
<1>2. Conclusion(j) = "pending"
  BY <1>1 DEF Conclusion
<1>3. jobs'[j] = r /\ leases'[j] = NoLease
  BY DEF IInv, TypeOK
<1>4. ASSUME NEW i \in Job, i # j PROVE Unseen(i)
  BY <1>4 DEF IInv, TypeOK, Unseen, Fenced, Conclusion
<1>5. Fenced(j)' = FALSE /\ leases'[j].attempt = 0 /\ leases[j].attempt # 0
  BY <1>1, <1>3 DEF NoLease, Fenced, Leased
<1>6. Contract!Release(j)
  <2>1. jobs'[j].attemptCount = jobs[j].attemptCount
    BY <1>3
  <2>2. [i \in Job |-> jobs'[i].attemptCount] = [i \in Job |-> jobs[i].attemptCount]
    BY <1>4, <2>1 DEF Unseen
  <2>3. [i \in Job |-> Fenced(i)'] = [[i \in Job |-> Fenced(i)] EXCEPT ![j] = FALSE]
    BY <1>4, <1>5 DEF Unseen
  <2>4. [i \in Job |-> leases'[i].attempt] = [[i \in Job |-> leases[i].attempt] EXCEPT ![j] = 0]
    <3>1. \A i \in Job : leases'[i].attempt = IF i = j THEN 0 ELSE leases[i].attempt
      BY <1>4, <1>5 DEF Unseen
    <3>2. QED
      BY <3>1
  <2>5. QED
    BY <1>5, <2>2, <2>3, <2>4 DEF Contract!Release, Contract!Owned
<1>7. CASE r.status \notin Terminal
  <2>1. Conclusion(j)' = Conclusion(j)
    BY <1>2, <1>3, <1>7 DEF Conclusion
  <2>2. Contract!Yield(j)
    BY <1>4, <1>6, <2>1 DEF Contract!Yield, Unseen
  <2>3. QED
    BY <2>2 DEF Contract!Next
<1>8. CASE r.status \in Terminal
  <2>1. Conclusion(j)' = r.status
    BY <1>3, <1>8 DEF Conclusion
  <2>2. CASE ~Fenced(j)
    <3>1. Contract!Complete(j, r.status)
      BY <1>4, <1>6, <2>1, <2>2 DEF Contract!Complete, Unseen
    <3>2. QED
      BY <1>8, <3>1 DEF Contract!Next
  <2>3. CASE Fenced(j)
    <3>1. Contract!Expire(j)
      BY <1>4, <1>6, <1>8, <2>1, <2>3 DEF Contract!Expire, Unseen
    <3>2. QED
      BY <3>1 DEF Contract!Next
  <2>4. QED
    BY <2>2, <2>3
<1>9. QED
  BY <1>7, <1>8

LEMMA ContractOperator == IInv /\ LateOperatorStep => Contract!Next \/ UNCHANGED Contract!vars
<1> SUFFICES ASSUME IInv, LateOperatorStep PROVE Contract!Next \/ UNCHANGED Contract!vars
  OBVIOUS
<1> PICK j \in Job :
        \/ \E env \in Envelope, t \in Nat : CreateJob(j, env, t)
        \/ \E token \in Token, t \in Nat : ConfirmJob(j, token, t)
        \/ \E token \in Token, t \in Nat, e \in 1 .. MaxTime :
               IssueConfirmationChallenge(j, token, e, t)
        \/ \E to \in Status, completed, error \in BOOLEAN :
               TransitionJob(j, to, completed, error)
  BY DEF LateOperatorStep
<1>1. jobs[j] \in Row /\ RowSound(jobs[j])
  BY DEF IInv, TypeOK, JobSound
<1>2. ASSUME NEW r, r.attemptCount = jobs[j].attemptCount, ~Leased(j),
             jobs[j].status \notin Terminal,
             jobs' = [jobs EXCEPT ![j] = r], leases' = leases
      PROVE  Contract!Next \/ UNCHANGED Contract!vars
  <2>1. jobs'[j] = r /\ Conclusion(j) = "pending"
    BY <1>2 DEF IInv, TypeOK, Conclusion
  <2>2. \A i \in Job \ {j} : Unseen(i)
    BY <1>2 DEF IInv, TypeOK, Unseen, Fenced, Conclusion
  <2>3. QED
    BY <1>2, <2>1, <2>2, RetireMap
<1>3. ASSUME NEW env \in Envelope, NEW t \in Nat, CreateJob(j, env, t)
      PROVE  Contract!Next \/ UNCHANGED Contract!vars
  <2>1. jobs[j].status = "absent" /\ leases' = leases /\ jobs' = [jobs EXCEPT ![j] = NewRow(env)]
    BY <1>3 DEF CreateJob, Exists
  <2>2. NewRow(env).attemptCount = jobs[j].attemptCount
    BY <1>1, <2>1 DEF RowSound, NewRow
  <2>3. ~Leased(j)
    BY <2>1, UnleasedUnfenced DEF OpenAttempt
  <2>4. QED
    BY <1>2, <2>1, <2>2, <2>3 DEF Terminal
<1>4. ASSUME NEW token \in Token, NEW t \in Nat, ConfirmJob(j, token, t)
      PROVE  Contract!Next \/ UNCHANGED Contract!vars
  <2>1. jobs[j].status = "needs_confirmation" /\ leases' = leases
        /\ jobs' = [jobs EXCEPT ![j] = ConfirmedRow(jobs[j])]
    BY <1>4 DEF ConfirmJob
  <2>2. ConfirmedRow(jobs[j]).attemptCount = jobs[j].attemptCount
    BY <1>1 DEF ConfirmedRow, Row
  <2>3. ~Leased(j)
    BY <2>1, UnleasedUnfenced DEF OpenAttempt
  <2>4. QED
    BY <1>2, <2>1, <2>2, <2>3 DEF Terminal
<1>5. ASSUME NEW token \in Token, NEW t \in Nat, NEW e \in 1 .. MaxTime,
             IssueConfirmationChallenge(j, token, e, t)
      PROVE  Contract!Next \/ UNCHANGED Contract!vars
  <2>1. jobs[j].status = "needs_confirmation" /\ leases' = leases
        /\ jobs' = [jobs EXCEPT ![j] = ChallengedRow(jobs[j], token, e)]
    BY <1>5 DEF IssueConfirmationChallenge
  <2>2. ChallengedRow(jobs[j], token, e).attemptCount = jobs[j].attemptCount
    BY <1>1 DEF ChallengedRow, Row
  <2>3. ~Leased(j)
    BY <2>1, UnleasedUnfenced DEF OpenAttempt
  <2>4. QED
    BY <1>2, <2>1, <2>2, <2>3 DEF Terminal
<1>6. ASSUME NEW to \in Status, NEW completed \in BOOLEAN, NEW error \in BOOLEAN,
             TransitionJob(j, to, completed, error)
      PROVE  Contract!Next \/ UNCHANGED Contract!vars
  <2>1. ~Leased(j) /\ leases' = leases /\ CanTransition(jobs[j].status, to, completed)
        /\ jobs' = [jobs EXCEPT ![j] = Moved(jobs[j], to, completed, error)]
    BY <1>6 DEF TransitionJob
  <2>2. Moved(jobs[j], to, completed, error).attemptCount = jobs[j].attemptCount
    BY <1>1 DEF Moved, Row
  <2>3. jobs[j].status \notin Terminal
    BY <2>1 DEF CanTransition, AllowedFrom, Terminal
  <2>4. QED
    BY <1>2, <2>1, <2>2, <2>3
<1>7. QED
  BY <1>3, <1>4, <1>5, <1>6

LEMMA ContractLease == IInv /\ LateLeaseStep => Contract!Next \/ UNCHANGED Contract!vars
<1> SUFFICES ASSUME IInv, LateLeaseStep PROVE Contract!Next \/ UNCHANGED Contract!vars
  OBVIOUS
<1> PICK j \in Job, t \in Nat :
        \/ \E interactive \in BOOLEAN, d \in LeaseSeconds : LeaseNext(j, interactive, d, t)
        \/ \E n \in Numbers :
               \/ MarkRunning(j, n, t)
               \/ BindWorkerPid(j, n, t)
               \/ AbandonUnstartedLease(j, n, t)
               \/ \E d \in LeaseSeconds : HeartbeatLease(j, n, d, t)
               \/ \E to \in SuspendTarget, receipts, error \in BOOLEAN :
                     SuspendLease(j, n, to, receipts, error, t)
               \/ \E to \in ResultTarget, completed, receipts, error \in BOOLEAN :
                     CommitWorkerResult(j, n, to, completed, receipts, error, t)
  BY DEF LateLeaseStep
<1>1. jobs[j] \in Row /\ leases[j] \in Lease
  BY DEF IInv, TypeOK
<1>2. ASSUME NEW n, HeldBy(j, n, t) PROVE leases[j].attempt = n /\ ~Fenced(j) /\ Leased(j)
  BY <1>2 DEF HeldBy, Leased
<1>3. ASSUME NEW interactive \in BOOLEAN, NEW d \in LeaseSeconds,
             LeaseNext(j, interactive, d, t)
      PROVE  Contract!Next
  <2> DEFINE n == jobs[j].attemptCount + 1
             l == [attempt |-> n, expires |-> LeaseEnd(j, d, t), fence |-> "none", gen |-> 0]
  <2>1. jobs[j].status = "queued" /\ jobs' = [jobs EXCEPT ![j] = LeasedRow(jobs[j])]
        /\ leases' = [leases EXCEPT ![j] = l]
    BY <1>3 DEF LeaseNext, Leasable
  <2>2. ~Leased(j) /\ ~Fenced(j)
    BY <2>1, UnleasedUnfenced DEF OpenAttempt
  <2>3. LeasedRow(jobs[j]).attemptCount = n /\ LeasedRow(jobs[j]).status = "leased"
    BY <1>1 DEF LeasedRow, Row
  <2>4. l.attempt = n /\ l.fence = "none"
    OBVIOUS
  <2> HIDE DEF l
  <2>5. leases'[j] = l /\ jobs'[j].attemptCount = n /\ jobs'[j].status = "leased"
    BY <2>1, <2>3 DEF IInv, TypeOK
  <2>6. ASSUME NEW i \in Job, i # j PROVE Unseen(i)
    BY <2>1, <2>6 DEF IInv, TypeOK, Unseen, Fenced, Conclusion
  <2>7. Fenced(j) = FALSE /\ Fenced(j)' = FALSE
    BY <2>2, <2>4, <2>5 DEF Fenced
  <2>8. Conclusion(j) = "pending" /\ Conclusion(j)' = "pending"
    BY <2>1, <2>5 DEF Conclusion, Terminal
  <2>9. Contract!Acquire(j)
    BY <2>2, <2>4, <2>5, <2>6, <2>7, <2>8 DEF Contract!Acquire, Contract!Owned, Leased, Unseen
  <2>10. QED
    BY <2>9 DEF Contract!Next
<1>4. ASSUME NEW n \in Numbers, MarkRunning(j, n, t) PROVE UNCHANGED Contract!vars
  <2>1. jobs' = [jobs EXCEPT ![j] = RunningRow(jobs[j])] /\ leases' = leases
        /\ jobs[j].status \in OpenAttempt
    BY <1>2, <1>4 DEF MarkRunning, IInv, JobSound
  <2>2. RunningRow(jobs[j]).attemptCount = jobs[j].attemptCount
        /\ RunningRow(jobs[j]).status = "running"
    BY <1>1 DEF RunningRow, Row
  <2>3. ASSUME NEW i \in Job PROVE Unseen(i)
    BY <2>1, <2>2 DEF IInv, TypeOK, Unseen, Fenced, Conclusion, OpenAttempt, Terminal
  <2>4. QED
    BY <2>3, StutterMap
<1>5. ASSUME NEW n \in Numbers, BindWorkerPid(j, n, t) PROVE UNCHANGED Contract!vars
  BY <1>5, StutterMap DEF BindWorkerPid, Unseen, Fenced, Conclusion
<1>6. ASSUME NEW n \in Numbers, NEW d \in LeaseSeconds, HeartbeatLease(j, n, d, t)
      PROVE  UNCHANGED Contract!vars
  <2> DEFINE l == [leases[j] EXCEPT !.expires = LeaseEnd(j, d, t)]
  <2>1. leases' = [leases EXCEPT ![j] = l] /\ jobs' = jobs
    BY <1>6 DEF HeartbeatLease, IInv, TypeOK
  <2>2. l.attempt = leases[j].attempt /\ l.fence = leases[j].fence
    BY <1>1 DEF Lease
  <2> HIDE DEF l
  <2>3. ASSUME NEW i \in Job PROVE Unseen(i)
    BY <2>1, <2>2 DEF IInv, TypeOK, Unseen, Fenced, Conclusion
  <2>4. QED
    BY <2>3, StutterMap
<1>7. ASSUME NEW n \in Numbers, AbandonUnstartedLease(j, n, t) PROVE Contract!Next
  <2> DEFINE r == Released(jobs[j], "deferred")
  <2>1. r \in Row /\ r.attemptCount = jobs[j].attemptCount
    <3>1. r \in Row
      BY <1>1, ReleasedTyped DEF Status
    <3>2. QED
      BY <1>1, <3>1 DEF Released, Moved, Row
  <2>2. jobs' = [jobs EXCEPT ![j] = r] /\ leases' = [leases EXCEPT ![j] = NoLease]
        /\ leases[j].attempt = n /\ ~Fenced(j)
    BY <1>2, <1>7 DEF AbandonUnstartedLease, CloseAttempt
  <2> HIDE DEF r
  <2>3. QED
    BY <2>1, <2>2, CloseMap
<1>8. ASSUME NEW n \in Numbers, NEW to \in SuspendTarget \cup ResultTarget,
             NEW completed \in BOOLEAN, NEW receipts \in BOOLEAN, NEW error \in BOOLEAN,
             FinishLease(j, n, to, completed, receipts, error, t)
      PROVE  Contract!Next
  <2> DEFINE r == FinishedRow(jobs[j], to, completed, receipts, error)
  <2>1. r \in Row /\ r.attemptCount = jobs[j].attemptCount
    <3>1. to \in Status
      BY DEF SuspendTarget, ResultTarget, Status
    <3>2. r \in Row
      BY <1>1, <3>1, FinishedTyped
    <3>3. QED
      BY <1>1, <3>2 DEF FinishedRow, Moved, Row
  <2>2. jobs' = [jobs EXCEPT ![j] = r] /\ leases' = [leases EXCEPT ![j] = NoLease]
        /\ leases[j].attempt = n /\ ~Fenced(j)
    BY <1>2, <1>8 DEF FinishLease, CloseAttempt
  <2> HIDE DEF r
  <2>3. QED
    BY <2>1, <2>2, CloseMap
<1>9. ASSUME NEW n \in Numbers, NEW to \in SuspendTarget, NEW receipts \in BOOLEAN,
             NEW error \in BOOLEAN, SuspendLease(j, n, to, receipts, error, t)
      PROVE  Contract!Next
  BY <1>8, <1>9, FALSE \in BOOLEAN DEF SuspendLease
<1>10. QED
  BY <1>3, <1>4, <1>5, <1>6, <1>7, <1>8, <1>9 DEF CommitWorkerResult

LEMMA ContractFence == IInv /\ LateFenceStep => Contract!Next \/ UNCHANGED Contract!vars
<1> SUFFICES ASSUME IInv, LateFenceStep PROVE Contract!Next \/ UNCHANGED Contract!vars
  OBVIOUS
<1> PICK j \in Job, n \in Numbers :
        \/ \E p \in Priority, t \in Nat : FencePreemptibleLease(j, n, p, t)
        \/ \E t \in Nat : FenceLease(j, n, t)
        \/ \E gen \in 1 .. MaxFence :
               \/ CancelPreemptionFence(j, n, gen)
               \/ \E p \in Priority : ResolvePreemptedLease(j, n, gen, p)
               \/ MarkPreemptionRecoveryRequired(j, n, gen)
               \/ ResolveFencedLease(j, n, gen)
  BY DEF LateFenceStep
<1>1. jobs[j] \in Row /\ leases[j] \in Lease
  BY DEF IInv, TypeOK
<1>2. n # 0
  BY BoundsAssumption DEF Numbers
<1>3. ASSUME NEW l, leases' = [leases EXCEPT ![j] = l], jobs' = jobs,
             l.attempt = leases[j].attempt, leases[j].attempt # 0,
             (l.fence = "none") # (leases[j].fence = "none")
      PROVE  Contract!Next
  <2>1. leases'[j] = l
    BY <1>3 DEF IInv, TypeOK
  <2>2. ASSUME NEW i \in Job, i # j PROVE Unseen(i)
    BY <1>3, <2>2 DEF IInv, TypeOK, Unseen, Fenced, Conclusion
  <2>3. Conclusion(j)' = Conclusion(j) /\ jobs'[j] = jobs[j] /\ leases'[j].attempt = leases[j].attempt
    BY <1>3, <2>1 DEF Conclusion
  <2>4. CASE ~Fenced(j)
    <3>1. Fenced(j) = FALSE /\ Fenced(j)' = TRUE
      BY <1>3, <2>1, <2>4 DEF Fenced
    <3>2. Contract!Bar(j)
      BY <1>3, <2>2, <2>3, <3>1 DEF Contract!Bar, Contract!Owned, Unseen
    <3>3. QED
      BY <3>2 DEF Contract!Next
  <2>5. CASE Fenced(j)
    <3>1. Fenced(j) = TRUE /\ Fenced(j)' = FALSE
      BY <1>3, <2>1, <2>5 DEF Fenced
    <3>2. Contract!Unbar(j)
      BY <1>3, <2>2, <2>3, <3>1 DEF Contract!Unbar, Contract!Owned, Unseen
    <3>3. QED
      BY <3>2 DEF Contract!Next
  <2>6. QED
    BY <2>4, <2>5
<1>4. ASSUME NEW reason \in FenceReason, reason # "none", Fence(j, reason), ~Fenced(j),
             leases[j].attempt = n
      PROVE  Contract!Next
  <2> DEFINE l == [leases[j] EXCEPT !.fence = reason, !.gen = leases[j].gen + 1]
  <2>1. leases' = [leases EXCEPT ![j] = l] /\ jobs' = jobs
    BY <1>4 DEF Fence, IInv, TypeOK
  <2>2. l.attempt = leases[j].attempt /\ l.fence = reason /\ leases[j].fence = "none"
    BY <1>1, <1>4 DEF Lease, Fenced
  <2> HIDE DEF l
  <2>3. QED
    BY <1>2, <1>3, <1>4, <2>1, <2>2
<1>5. ASSUME NEW p \in Priority, NEW t \in Nat, FencePreemptibleLease(j, n, p, t)
      PROVE  Contract!Next
  BY <1>4, <1>5 DEF FencePreemptibleLease, FenceReason, Priority
<1>6. ASSUME NEW t \in Nat, FenceLease(j, n, t) PROVE Contract!Next
  BY <1>4, <1>6 DEF FenceLease, FenceReason
<1>7. ASSUME NEW gen \in 1 .. MaxFence, CancelPreemptionFence(j, n, gen) PROVE Contract!Next
  <2> DEFINE l == [leases[j] EXCEPT !.fence = "none"]
  <2>1. leases' = [leases EXCEPT ![j] = l] /\ jobs' = jobs /\ leases[j].attempt = n
        /\ leases[j].fence # "none"
    BY <1>7 DEF CancelPreemptionFence, FenceMatches, Fenced, IInv, TypeOK
  <2>2. l.attempt = leases[j].attempt /\ l.fence = "none"
    BY <1>1 DEF Lease
  <2> HIDE DEF l
  <2>3. QED
    BY <1>2, <1>3, <2>1, <2>2
<1>8. ASSUME leases[j].attempt = n, NEW r \in Row, r.attemptCount = jobs[j].attemptCount,
             r.status \notin Terminal \/ r.status = "timed_out", NEW o,
             jobs' = [jobs EXCEPT ![j] = r], CloseAttempt(j, n, o)
      PROVE  Contract!Next
  BY <1>8, CloseMap DEF CloseAttempt
<1>9. ASSUME NEW to \in {"queued", "deferred"}
      PROVE  LET r == Released(jobs[j], to)
             IN  r \in Row /\ r.attemptCount = jobs[j].attemptCount /\ r.status \notin Terminal
  <2>1. Released(jobs[j], to) \in Row
    BY <1>1, ReleasedTyped DEF Status
  <2>2. QED
    BY <1>1, <2>1 DEF Released, Moved, Row, Terminal
<1>10. ASSUME NEW gen \in 1 .. MaxFence, NEW p \in Priority,
              ResolvePreemptedLease(j, n, gen, p)
       PROVE  Contract!Next
  BY <1>8, <1>9, <1>10 DEF ResolvePreemptedLease, FenceMatches
<1>11. ASSUME NEW gen \in 1 .. MaxFence, MarkPreemptionRecoveryRequired(j, n, gen)
       PROVE  Contract!Next
  BY <1>8, <1>9, <1>11 DEF MarkPreemptionRecoveryRequired, FenceMatches
<1>12. ASSUME NEW gen \in 1 .. MaxFence, ResolveFencedLease(j, n, gen) PROVE Contract!Next
  <2> DEFINE r == ExpiredRow(jobs[j])
  <2>1. r \in Row
    BY <1>1, ExpiredTyped
  <2>2. r.attemptCount = jobs[j].attemptCount /\ r.status = ExpiryTarget(jobs[j])
    BY <1>1 DEF ExpiredRow, Released, Moved, Row
  <2>3. r.status \notin Terminal \/ r.status = "timed_out"
    BY <2>2 DEF ExpiryTarget, Terminal
  <2> HIDE DEF r
  <2>4. QED
    BY <1>8, <1>12, <2>1, <2>2, <2>3 DEF ResolveFencedLease, FenceMatches, r
<1>13. QED
  BY <1>5, <1>6, <1>7, <1>10, <1>11, <1>12

LEMMA ContractStep == IInv /\ [LateNext]_vars => [Contract!Next]_(Contract!vars)
<1>1. Tick \/ UNCHANGED vars => UNCHANGED Contract!vars
  BY StutterMap DEF Tick, vars, Unseen, Fenced, Conclusion
<1>2. QED
  BY <1>1, ContractOperator, ContractLease, ContractFence DEF LateNext

\* The three tables implement the lease contract: one owner at a time, owners
\* numbered in order, no outcome from a fenced owner, none after an outcome.
THEOREM ContractImplemented == Spec => ImplementsContract
  BY ContractStep, NextIsLate, ContractInit, Invariance, PTL
  DEF Spec, ImplementsContract, Contract!Spec
=============================================================================
