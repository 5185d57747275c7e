-------------------------- MODULE JobLedgerProofs ---------------------------
(***************************************************************************)
(* Theorems about JobLedger, for every set of jobs, envelopes and tokens   *)
(* and every bound.                                                        *)
(***************************************************************************)
EXTENDS JobLedger, FiniteSetTheorems, TLAPS

-----------------------------------------------------------------------------
(* Types: each row a step writes is a row.                                 *)

LEMMA TableTyped == ASSUME NEW s, NEW to \in AllowedFrom(s)
                    PROVE  to \in Status
  BY DEF AllowedFrom, Status

LEMMA NewRowTyped ==
  ASSUME NEW env \in Envelope
  PROVE  NewRow(env) \in Row
  BY EnvelopeAssumption, BoundsAssumption DEF NewRow, Row, Status, Phase, EnvelopeType

LEMMA InitTyped == Init => TypeOK
<1>1. AbsentRow \in Row
  <2>1. (CHOOSE env \in Envelope : TRUE) \in Envelope
    BY EnvelopeAssumption
  <2>2. QED
    BY <2>1, NewRowTyped DEF AbsentRow, Row
<1>2. NoAttempt \in Attempt
  BY DEF NoAttempt, Attempt, AttemptStatus
<1>3. NoLease \in Lease
  BY BoundsAssumption DEF NoLease, Lease, FenceReason
<1>4. QED
  BY <1>1, <1>2, <1>3 DEF Init, TypeOK

LEMMA MovedTyped ==
  ASSUME NEW row \in Row, NEW to \in Status, NEW completed \in BOOLEAN,
         NEW error \in BOOLEAN
  PROVE  Moved(row, to, completed, error) \in Row
<1>1. (to \in Finished) \in BOOLEAN
  OBVIOUS
<1>2. (to # "succeeded" /\ (error \/ row.error)) \in BOOLEAN
  OBVIOUS
<1>3. QED
  BY <1>1, <1>2, Zenon DEF Moved, Row

LEMMA ReleasedTyped ==
  ASSUME NEW row \in Row, NEW to \in Status
  PROVE  Released(row, to) \in Row
<1>1. row.completed \in BOOLEAN
  BY DEF Row
<1>2. QED
  BY <1>1, MovedTyped DEF Released

LEMMA ExpiredTyped ==
  ASSUME NEW row \in Row
  PROVE  ExpiredRow(row) \in Row
<1> DEFINE r == Released(row, ExpiryTarget(row))
           writes == row.env.effect \in Writing
           ph == IF writes THEN "ambiguous" ELSE row.phase
<1>1. ExpiryTarget(row) \in Status
  BY DEF ExpiryTarget, Status
<1>2. r \in Row
  BY <1>1, ReleasedTyped
<1>3. ph \in Phase
  BY DEF Phase, Row
<1>4. writes \in BOOLEAN /\ (row.confirmed /\ ~writes) \in BOOLEAN
  OBVIOUS
<1>5. ExpiredRow(row) = [r EXCEPT !.confirmed = row.confirmed /\ ~writes,
                                  !.phase = ph, !.ambiguous = writes]
  BY DEF ExpiredRow
<1> HIDE DEF r, ph, writes
<1>6. QED
  BY <1>2, <1>3, <1>4, <1>5, Zenon DEF Row

LEMMA FinishedTyped ==
  ASSUME NEW row \in Row, NEW to \in Status, NEW completed \in BOOLEAN,
         NEW receipts \in BOOLEAN, NEW error \in BOOLEAN
  PROVE  FinishedRow(row, to, completed, receipts, error) \in Row
<1>1. Moved(row, to, completed, error) \in Row
  BY MovedTyped
<1>2. FinishPhase(row, to) \in Phase
  BY DEF FinishPhase, Row, Phase
<1>3. FinishAmbiguous(row, to) \in BOOLEAN
  BY DEF FinishAmbiguous, Row
<1>4. QED
  BY <1>1, <1>2, <1>3, Zenon DEF FinishedRow, Row

LEMMA ConfirmedTyped ==
  ASSUME NEW row \in Row
  PROVE  ConfirmedRow(row) \in Row
  BY DEF ConfirmedRow, Row, Status, Phase

LEMMA ChallengedTyped ==
  ASSUME NEW row \in Row, NEW token \in Token, NEW e \in Nat
  PROVE  ChallengedRow(row, token, e) \in Row
  BY DEF ChallengedRow, Row

LEMMA LeasedTyped ==
  ASSUME NEW row \in Row, row.attemptCount < MaxAttemptNo
  PROVE  LeasedRow(row) \in Row
<1>1. row.attemptCount + 1 \in 0 .. MaxAttemptNo
  BY BoundsAssumption DEF Row
<1>2. QED
  BY <1>1 DEF LeasedRow, Row, Status

LEMMA RunningTyped ==
  ASSUME NEW row \in Row
  PROVE  RunningRow(row) \in Row
  BY DEF RunningRow, Row, Status

-----------------------------------------------------------------------------
(* What holds of a row by itself.  The last two conjuncts are what makes    *)
(* the others inductive: only a dangerous job ever has a challenge, and a   *)
(* row that was never inserted has no attempts.                             *)

RowSound(r) ==
    /\ r.env.effect \in Dangerous
       /\ r.status \notin {"absent", "needs_confirmation", "cancelled", "timed_out"}
       => r.confirmed
    /\ r.env.effect \in Dangerous /\ r.ambiguous =>
          r.status \in {"needs_confirmation", "failed", "timed_out", "cancelled"}
    /\ r.ambiguous <=> r.phase = "ambiguous"
    /\ r.env.effect \notin Writing => r.phase = "not_applicable"
    /\ r.status \in NeedsError => r.error
    /\ r.status \in Finished => r.finished
    /\ r.status = "succeeded" => r.completed
    /\ r.phase = "verified" =>
          r.status = "succeeded" /\ (r.env.effect \in Dangerous => r.receipts)
    /\ r.env.effect \notin Dangerous => r.challenge = NoToken
    /\ r.status = "absent" => r.attemptCount = 0

LEMMA NewRowSound ==
  ASSUME NEW env \in Envelope
  PROVE  RowSound(NewRow(env)) /\ RowSound([NewRow(env) EXCEPT !.status = "absent"])
  BY EnvelopeAssumption, BoundsAssumption
  DEF NewRow, RowSound, EnvelopeType, Dangerous, Writing, Finished, NeedsError, Terminal

LEMMA ConfirmedSound ==
  ASSUME NEW r \in Row, RowSound(r), r.status = "needs_confirmation",
         r.challenge \in Token
  PROVE  RowSound(ConfirmedRow(r))
  BY BoundsAssumption
  DEF RowSound, ConfirmedRow, Row, Dangerous, Writing, Finished, NeedsError, Terminal

LEMMA ChallengedSound ==
  ASSUME NEW r \in Row, RowSound(r), r.status = "needs_confirmation",
         r.env.effect \in Dangerous, NEW token, NEW e
  PROVE  RowSound(ChallengedRow(r, token, e))
  BY DEF RowSound, ChallengedRow, Row, Dangerous, Writing, Finished, NeedsError, Terminal

LEMMA MovedSound ==
  ASSUME NEW r \in Row, RowSound(r), NEW to \in Status, NEW completed \in BOOLEAN,
         NEW error \in BOOLEAN, ~OnlyByConfirm(r, to),
         CanTransition(r.status, to, completed), to \in NeedsError => error
  PROVE  RowSound(Moved(r, to, completed, error))
  BY DEF RowSound, Moved, Row, OnlyByConfirm, CanTransition, AllowedFrom,
         Dangerous, Writing, Finished, NeedsError, Terminal

LEMMA FinishedSound ==
  ASSUME NEW r \in Row, RowSound(r), NEW to \in Status, NEW completed \in BOOLEAN,
         NEW receipts \in BOOLEAN, NEW error \in BOOLEAN,
         r.status \in OpenAttempt, CanTransition(r.status, to, completed),
         to \in NeedsError => error, ReceiptRequired(r, to) => receipts
  PROVE  RowSound(FinishedRow(r, to, completed, receipts, error))
<1> DEFINE f == FinishedRow(r, to, completed, receipts, error)
<1> SUFFICES RowSound(f)
  OBVIOUS
<1>1. /\ f.status = to /\ f.env = r.env /\ f.confirmed = r.confirmed
      /\ f.completed = completed /\ f.finished = (to \in Finished)
      /\ f.error = (to # "succeeded" /\ (error \/ r.error))
      /\ f.receipts = receipts /\ f.challenge = r.challenge
      /\ f.attemptCount = r.attemptCount
      /\ f.phase = FinishPhase(r, to) /\ f.ambiguous = FinishAmbiguous(r, to)
  BY DEF FinishedRow, Moved, Row
<1> HIDE DEF f
<1>2. /\ to # "absent" /\ (to = "succeeded" => completed)
      /\ r.env.effect \in Dangerous => r.confirmed /\ ~r.ambiguous
      /\ r.phase # "verified"
      /\ r.ambiguous <=> r.phase = "ambiguous"
      /\ r.env.effect \notin Writing => r.phase = "not_applicable"
      /\ r.env.effect \notin Dangerous => r.challenge = NoToken
  BY DEF OpenAttempt, CanTransition, Status, RowSound
<1>3. Dangerous \subseteq Writing
  BY DEF Dangerous, Writing
<1>4. CASE r.env.effect \in Writing
  <2>1. CASE to = "succeeded"
    <3>1. f.phase = "verified" /\ ~f.ambiguous
      <4>1. FinishPhase(r, to) = "verified" /\ FinishAmbiguous(r, to) = FALSE
        BY <1>4, <2>1 DEF FinishPhase, FinishAmbiguous, NeedsError
      <4>2. QED
        BY <1>1, <4>1
    <3>2. f.completed /\ (r.env.effect \in Dangerous => f.receipts)
      BY <1>1, <1>2, <2>1, Zenon DEF ReceiptRequired
    <3>3. QED
      BY <1>1, <1>2, <1>4, <2>1, <3>1, <3>2 DEF RowSound, Finished, NeedsError, Terminal
  <2>2. CASE to \in NeedsError
    <3>1. f.phase = "ambiguous" /\ f.ambiguous /\ f.error
      BY <1>1, <1>4, <2>2 DEF FinishPhase, FinishAmbiguous, NeedsError
    <3>2. QED
      BY <1>1, <1>2, <1>4, <2>2, <3>1 DEF RowSound, Finished, NeedsError, Terminal
  <2>3. CASE to # "succeeded" /\ to \notin NeedsError
    <3>1. f.phase = r.phase /\ f.ambiguous = r.ambiguous
      BY <1>1, <2>3 DEF FinishPhase, FinishAmbiguous
    <3>2. QED
      BY <1>1, <1>2, <1>4, <2>3, <3>1 DEF RowSound, Finished, Terminal
  <2>4. QED
    BY <2>1, <2>2, <2>3
<1>5. CASE r.env.effect \notin Writing
  <2>1. f.phase = r.phase /\ f.ambiguous = r.ambiguous
    BY <1>1, <1>5 DEF FinishPhase, FinishAmbiguous
  <2>2. QED
    BY <1>1, <1>2, <1>3, <1>5, <2>1 DEF RowSound, Finished, NeedsError, Terminal
<1>6. QED
  BY <1>4, <1>5

LEMMA ReleasedSound ==
  ASSUME NEW r \in Row, RowSound(r), NEW to \in {"queued", "deferred"},
         r.status \in OpenAttempt
  PROVE  RowSound(Released(r, to))
  BY DEF RowSound, Released, Moved, Row, OpenAttempt, Dangerous, Writing,
         Finished, NeedsError, Terminal

LEMMA ExpiredSound ==
  ASSUME NEW r \in Row, RowSound(r), r.status \in OpenAttempt
  PROVE  RowSound(ExpiredRow(r))
<1>1. CASE r.env.effect \in Writing
  BY <1>1 DEF RowSound, ExpiredRow, ExpiryTarget, Released, Moved, Row, OpenAttempt,
              Dangerous, Writing, Finished, NeedsError, Terminal
<1>2. CASE r.env.effect \notin Writing
  BY <1>2 DEF RowSound, ExpiredRow, ExpiryTarget, Released, Moved, Row, OpenAttempt,
              Dangerous, Writing, Finished, NeedsError, Terminal
<1>3. QED
  BY <1>1, <1>2

LEMMA TakenSound ==
  ASSUME NEW r \in Row, RowSound(r), r.status \in {"queued", "leased"}
  PROVE  RowSound(LeasedRow(r)) /\ RowSound(RunningRow(r))
  BY DEF RowSound, LeasedRow, RunningRow, Row, Dangerous, Writing, Finished,
         NeedsError, Terminal

-----------------------------------------------------------------------------
(* The inductive invariant: the three tables agree about every job.        *)

JobSound(j) ==
    /\ RowSound(jobs[j])
    /\ ~Leased(j) => leases[j] = NoLease
    /\ Leased(j) => /\ jobs[j].status \in OpenAttempt
                    /\ leases[j].attempt = jobs[j].attemptCount
                    /\ attempts[j][leases[j].attempt].status = jobs[j].status
    /\ \A n \in Numbers :
          attempts[j][n].status \in OpenAttempt => leases[j].attempt = n
    /\ \A n \in Numbers : n > jobs[j].attemptCount => attempts[j][n] = NoAttempt
    /\ leases[j].expires <= jobs[j].env.deadline

IInv == TypeOK /\ \A j \in Job : JobSound(j)

\* A job whose rows a step leaves alone stays sound.
LEMMA FrameSound ==
  ASSUME NEW i \in Job, JobSound(i), jobs'[i] = jobs[i], attempts'[i] = attempts[i],
         leases'[i] = leases[i]
  PROVE  JobSound(i)'
  BY DEF JobSound, Leased

LEMMA InitSound == Init => IInv
<1> SUFFICES ASSUME Init PROVE IInv
  OBVIOUS
<1>1. TypeOK
  BY InitTyped
<1>2. ASSUME NEW j \in Job PROVE JobSound(j)
  <2>1. (CHOOSE env \in Envelope : TRUE) \in Envelope
    BY EnvelopeAssumption
  <2>2. RowSound(jobs[j]) /\ jobs[j].env \in Envelope
    BY <2>1, NewRowSound DEF Init, AbsentRow, NewRow
  <2>3. leases[j] = NoLease
    BY DEF Init
  <2>4. \A n \in Numbers : attempts[j][n] = NoAttempt
    BY DEF Init, Numbers
  <2>5. jobs[j].env.deadline \in Nat
    BY <2>2, EnvelopeAssumption DEF EnvelopeType
  <2>6. QED
    BY <2>2, <2>3, <2>4, <2>5 DEF JobSound, Leased, NoLease, NoAttempt, OpenAttempt
<1>3. QED
  BY <1>1, <1>2 DEF IInv

\* Operations on a job that no lease holds: they rewrite its row only.
LEMMA UnleasedStep ==
  ASSUME IInv, NEW j \in Job, ~Leased(j), NEW r \in Row, RowSound(r),
         r.attemptCount = jobs[j].attemptCount,
         jobs' = [jobs EXCEPT ![j] = r], UNCHANGED <<attempts, leases, now>>
  PROVE  IInv'
<1>1. TypeOK'
  BY DEF IInv, TypeOK
<1>2. JobSound(j)'
  <2>1. jobs'[j] = r
    BY DEF IInv, TypeOK
  <2>2. r.env.deadline \in Nat
    BY EnvelopeAssumption DEF Row, EnvelopeType
  <2>3. leases'[j] = NoLease
    BY DEF IInv, JobSound
  <2>4. JobSound(j)
    BY DEF IInv
  <2>5. QED
    BY <2>1, <2>2, <2>3, <2>4 DEF JobSound, Leased, NoLease
<1>3. ASSUME NEW i \in Job, i # j PROVE JobSound(i)'
  BY <1>3, FrameSound DEF IInv, TypeOK
<1>4. QED
  BY <1>1, <1>2, <1>3 DEF IInv

\* Operations that end a lease: they rewrite the row, close the attempt and
\* delete the lease.
LEMMA CloseStep ==
  ASSUME IInv, NEW j \in Job, NEW n \in Numbers, leases[j].attempt = n,
         NEW r \in Row, RowSound(r), r.attemptCount = jobs[j].attemptCount,
         NEW o \in AttemptStatus \ OpenAttempt,
         jobs' = [jobs EXCEPT ![j] = r], CloseAttempt(j, n, o), UNCHANGED now
  PROVE  IInv'
<1> DEFINE a == [status |-> o, bound |-> attempts[j][n].bound]
<1>1. a \in Attempt /\ NoLease \in Lease
  BY BoundsAssumption DEF IInv, TypeOK, Attempt, Numbers, NoLease, Lease, FenceReason
<1>2. attempts' = [attempts EXCEPT ![j][n] = a] /\ leases' = [leases EXCEPT ![j] = NoLease]
  BY DEF CloseAttempt
<1>3. a.status = o
  OBVIOUS
<1> HIDE DEF a
<1>4. TypeOK'
  BY <1>1, <1>2 DEF IInv, TypeOK, Numbers
<1>5. JobSound(j)'
  <2>1. jobs'[j] = r /\ leases'[j] = NoLease
    BY <1>2 DEF IInv, TypeOK
  <2>2. \A m \in Numbers : attempts'[j][m] = IF m = n THEN a ELSE attempts[j][m]
    BY <1>2 DEF IInv, TypeOK, Numbers
  <2>3. r.env.deadline \in Nat
    BY EnvelopeAssumption DEF Row, EnvelopeType
  <2>4. JobSound(j) /\ Leased(j) /\ n = jobs[j].attemptCount /\ n \in Nat
    BY BoundsAssumption DEF IInv, JobSound, Leased, Numbers
  <2>5. QED
    BY <1>3, <2>1, <2>2, <2>3, <2>4 DEF JobSound, Leased, NoLease
<1>6. ASSUME NEW i \in Job, i # j PROVE JobSound(i)'
  BY <1>2, <1>6, FrameSound DEF IInv, TypeOK
<1>7. QED
  BY <1>4, <1>5, <1>6 DEF IInv

\* Operations that move the deadline or the fence of a standing lease.
LEMMA LeaseRowStep ==
  ASSUME IInv, NEW j \in Job, Leased(j), NEW l \in Lease,
         l.attempt = leases[j].attempt, l.expires <= jobs[j].env.deadline,
         leases' = [leases EXCEPT ![j] = l], UNCHANGED <<jobs, attempts, now>>
  PROVE  IInv'
<1>1. TypeOK'
  BY DEF IInv, TypeOK
<1>2. JobSound(j)'
  <2>1. leases'[j] = l
    BY DEF IInv, TypeOK
  <2>2. JobSound(j)
    BY DEF IInv
  <2>3. QED
    BY <2>1, <2>2 DEF JobSound, Leased
<1>3. ASSUME NEW i \in Job, i # j PROVE JobSound(i)'
  BY <1>3, FrameSound DEF IInv, TypeOK
<1>4. QED
  BY <1>1, <1>2, <1>3 DEF IInv

-----------------------------------------------------------------------------
(* Every operation preserves the invariant.                                *)

LEMMA ConfirmSound ==
  ASSUME IInv, NEW j \in Job, NEW token \in Token, NEW t, ConfirmJob(j, token, t)
  PROVE  IInv'
<1>1. jobs[j] \in Row /\ RowSound(jobs[j]) /\ JobSound(j)
  BY DEF IInv, TypeOK, JobSound
<1>2. jobs[j].status = "needs_confirmation" /\ jobs[j].challenge \in Token
  BY DEF ConfirmJob
<1>3. ConfirmedRow(jobs[j]).attemptCount = jobs[j].attemptCount
  BY <1>1 DEF ConfirmedRow, Row
<1>4. ~Leased(j)
  BY <1>1, <1>2 DEF JobSound, OpenAttempt
<1>5. QED
  BY <1>1, <1>2, <1>3, <1>4, ConfirmedTyped, ConfirmedSound, UnleasedStep DEF ConfirmJob

LEMMA TransitionSound ==
  ASSUME IInv, NEW j \in Job, NEW to \in Status, NEW completed \in BOOLEAN,
         NEW error \in BOOLEAN, TransitionJob(j, to, completed, error)
  PROVE  IInv'
<1> DEFINE r == Moved(jobs[j], to, completed, error)
<1>1. jobs[j] \in Row /\ RowSound(jobs[j]) /\ JobSound(j)
  BY DEF IInv, TypeOK, JobSound
<1>2. r \in Row /\ RowSound(r)
  BY <1>1, MovedTyped, MovedSound DEF TransitionJob
<1>3. r.attemptCount = jobs[j].attemptCount
  BY <1>1 DEF Moved, Row
<1>4. ~Leased(j) /\ jobs' = [jobs EXCEPT ![j] = r] /\ UNCHANGED <<attempts, leases, now>>
  BY DEF TransitionJob
<1> HIDE DEF r
<1>5. QED
  BY <1>2, <1>3, <1>4, UnleasedStep

LEMMA TickSound == IInv /\ Tick => IInv'
<1> SUFFICES ASSUME IInv, Tick PROVE IInv'
  OBVIOUS
<1>1. TypeOK'
  BY DEF Tick, IInv, TypeOK
<1>2. ASSUME NEW j \in Job PROVE JobSound(j)'
  BY FrameSound DEF Tick, IInv
<1>3. QED
  BY <1>1, <1>2 DEF IInv

-----------------------------------------------------------------------------
(* Operations with a timestamp of any age.  The bound MaxLag on how old a   *)
(* timestamp may be is there for TLC; no proof needs it, and a caller such  *)
(* as the dispatcher keeps a timestamp for a whole call.                    *)

LateOperatorStep ==
    \E j \in Job :
        \/ \E env \in Envelope, t \in Nat : CreateJob(j, env, t)
        \/ \E token \in Token, t \in Nat : ConfirmJob(j, token, t)
        \/ \E token \in Token, t \in Nat, e \in 1 .. MaxTime :
               IssueConfirmationChallenge(j, token, e, t)
        \/ \E to \in Status, completed, error \in BOOLEAN :
               TransitionJob(j, to, completed, error)

LateLeaseStep ==
    \E j \in Job, t \in Nat :
        \/ \E interactive \in BOOLEAN, d \in LeaseSeconds : LeaseNext(j, interactive, d, t)
        \/ \E n \in Numbers :
               \/ MarkRunning(j, n, t)
               \/ BindWorkerPid(j, n, t)
               \/ AbandonUnstartedLease(j, n, t)
               \/ \E d \in LeaseSeconds : HeartbeatLease(j, n, d, t)
               \/ \E to \in SuspendTarget, receipts, error \in BOOLEAN :
                     SuspendLease(j, n, to, receipts, error, t)
               \/ \E to \in ResultTarget, completed, receipts, error \in BOOLEAN :
                     CommitWorkerResult(j, n, to, completed, receipts, error, t)

LateFenceStep ==
    \E j \in Job, n \in Numbers :
        \/ \E p \in Priority, t \in Nat : FencePreemptibleLease(j, n, p, t)
        \/ \E t \in Nat : FenceLease(j, n, t)
        \/ \E gen \in 1 .. MaxFence :
               \/ CancelPreemptionFence(j, n, gen)
               \/ \E p \in Priority : ResolvePreemptedLease(j, n, gen, p)
               \/ MarkPreemptionRecoveryRequired(j, n, gen)
               \/ ResolveFencedLease(j, n, gen)

LateNext == LateOperatorStep \/ LateLeaseStep \/ LateFenceStep \/ Tick

LEMMA StampsAreNaturals == TypeOK => Stamps \subseteq Nat
  BY DEF TypeOK, Stamps

\* A step of the ledger is one of these.
LEMMA NextIsLate == IInv /\ [Next]_vars => [LateNext]_vars
<1> SUFFICES ASSUME IInv, Next PROVE LateNext
  OBVIOUS
<1>1. Stamps \subseteq Nat
  BY StampsAreNaturals DEF IInv
<1>2. OperatorStep => LateOperatorStep
  BY <1>1, Zenon DEF OperatorStep, LateOperatorStep
<1>3. LeaseStep => LateLeaseStep
  BY <1>1, Zenon DEF LeaseStep, LateLeaseStep
<1>4. FenceStep => LateFenceStep
  BY <1>1, Zenon DEF FenceStep, LateFenceStep
<1>5. QED
  BY <1>2, <1>3, <1>4 DEF Next, LateNext

LEMMA OperatorSound == IInv /\ LateOperatorStep => IInv'
<1> SUFFICES ASSUME IInv, LateOperatorStep PROVE IInv'
  OBVIOUS
<1> PICK j \in Job :
        \/ \E env \in Envelope, t \in Nat : CreateJob(j, env, t)
        \/ \E token \in Token, t \in Nat : ConfirmJob(j, token, t)
        \/ \E token \in Token, t \in Nat, e \in 1 .. MaxTime :
               IssueConfirmationChallenge(j, token, e, t)
        \/ \E to \in Status, completed, error \in BOOLEAN :
               TransitionJob(j, to, completed, error)
  BY DEF LateOperatorStep
<1>1. jobs[j] \in Row /\ RowSound(jobs[j]) /\ JobSound(j)
  BY DEF IInv, TypeOK, JobSound
<1>2. jobs[j].status \notin OpenAttempt => ~Leased(j)
  BY <1>1 DEF JobSound
<1>3. ASSUME NEW env \in Envelope, NEW t \in Nat, CreateJob(j, env, t) PROVE IInv'
  <2>1. jobs[j].status = "absent"
    BY <1>3 DEF CreateJob, Exists
  <2>2. NewRow(env).attemptCount = jobs[j].attemptCount
    BY <1>1, <2>1 DEF RowSound, NewRow
  <2>3. QED
    BY <1>2, <1>3, <2>1, <2>2, NewRowTyped, NewRowSound, UnleasedStep
    DEF CreateJob, OpenAttempt
<1>4. ASSUME NEW token \in Token, NEW t \in Nat, NEW e \in 1 .. MaxTime,
             IssueConfirmationChallenge(j, token, e, t)
      PROVE  IInv'
  <2>1. jobs[j].status = "needs_confirmation" /\ jobs[j].env.effect \in Dangerous
    BY <1>4 DEF IssueConfirmationChallenge
  <2>2. ChallengedRow(jobs[j], token, e).attemptCount = jobs[j].attemptCount
    BY <1>1 DEF ChallengedRow, Row
  <2>3. e \in Nat
    BY BoundsAssumption
  <2>4. QED
    BY <1>1, <1>2, <1>4, <2>1, <2>2, <2>3, ChallengedTyped, ChallengedSound, UnleasedStep
    DEF IssueConfirmationChallenge, OpenAttempt
<1>5. QED
  BY <1>3, <1>4, ConfirmSound, TransitionSound

LEMMA LeaseEndBounded ==
  ASSUME TypeOK, NEW j \in Job, NEW d \in LeaseSeconds, NEW t \in Nat
  PROVE  LeaseEnd(j, d, t) \in Nat /\ LeaseEnd(j, d, t) <= jobs[j].env.deadline
<1>1. t \in Nat /\ d \in Nat
  BY BoundsAssumption DEF Stamps, TypeOK
<1>2. jobs[j].env.deadline \in Nat
  BY EnvelopeAssumption DEF TypeOK, Row, EnvelopeType
<1>3. QED
  BY <1>1, <1>2 DEF LeaseEnd

LEMMA LeaseNextSound ==
  ASSUME IInv, NEW j \in Job, NEW interactive \in BOOLEAN, NEW d \in LeaseSeconds,
         NEW t \in Nat, LeaseNext(j, interactive, d, t)
  PROVE  IInv'
<1> DEFINE n == jobs[j].attemptCount + 1
           r == LeasedRow(jobs[j])
           a == [status |-> "leased", bound |-> FALSE]
           l == [attempt |-> n, expires |-> LeaseEnd(j, d, t), fence |-> "none", gen |-> 0]
<1>1. jobs[j] \in Row /\ JobSound(j) /\ jobs[j].status = "queued"
      /\ jobs[j].attemptCount \in Nat /\ jobs[j].attemptCount < MaxAttemptNo
  BY DEF IInv, TypeOK, LeaseNext, Leasable, Row
<1>2. n \in Numbers /\ n # 0
  BY <1>1, BoundsAssumption DEF Numbers
<1>3. r \in Row /\ RowSound(r) /\ r.attemptCount = n /\ r.status = "leased" /\ r.env = jobs[j].env
  BY <1>1, LeasedTyped, TakenSound DEF JobSound, LeasedRow, Row
<1>4. a \in Attempt /\ a.status = "leased"
  BY DEF Attempt, AttemptStatus, Status
<1>5. l \in Lease /\ l.attempt = n /\ l.expires <= jobs[j].env.deadline
  BY <1>2, LeaseEndBounded, BoundsAssumption DEF IInv, Lease, FenceReason, Numbers
<1>6. /\ jobs' = [jobs EXCEPT ![j] = r]
      /\ attempts' = [attempts EXCEPT ![j][n] = a]
      /\ leases' = [leases EXCEPT ![j] = l]
      /\ now' = now
  BY DEF LeaseNext
<1> HIDE DEF n, r, a, l
<1>7. TypeOK'
  BY <1>2, <1>3, <1>4, <1>5, <1>6 DEF IInv, TypeOK, Numbers
<1>8. JobSound(j)'
  <2>1. jobs'[j] = r /\ leases'[j] = l
    BY <1>6 DEF IInv, TypeOK
  <2>2. \A m \in Numbers : attempts'[j][m] = IF m = n THEN a ELSE attempts[j][m]
    BY <1>6, <1>2 DEF IInv, TypeOK, Numbers
  <2>3. ~Leased(j) /\ leases[j].attempt = 0
    BY <1>1 DEF JobSound, OpenAttempt, Leased
  <2>4. \A m \in Numbers : attempts[j][m].status \notin OpenAttempt
    BY <1>1, <2>3 DEF JobSound, Numbers
  <2>5. \A m \in Numbers : m > n => attempts[j][m] = NoAttempt
    BY <1>1 DEF JobSound, Numbers, n
  <2>6. QED
    BY <1>2, <1>3, <1>4, <1>5, <2>1, <2>2, <2>4, <2>5 DEF JobSound, Leased, OpenAttempt, Numbers
<1>9. ASSUME NEW i \in Job, i # j PROVE JobSound(i)'
  BY <1>6, <1>9, FrameSound DEF IInv, TypeOK
<1>10. QED
  BY <1>7, <1>8, <1>9 DEF IInv

\* MarkRunning and BindWorkerPid: the attempt and its job change together.
LEMMA RunningSound ==
  ASSUME IInv, NEW j \in Job, NEW n \in Numbers, leases[j].attempt = n,
         NEW a \in Attempt, a.status = "running",
         NEW r \in Row, RowSound(r), r.attemptCount = jobs[j].attemptCount,
         r.env = jobs[j].env, r.status = "running",
         jobs' = [jobs EXCEPT ![j] = r],
         attempts' = [attempts EXCEPT ![j][n] = a],
         UNCHANGED <<leases, now>>
  PROVE  IInv'
<1>1. TypeOK'
  BY DEF IInv, TypeOK, Numbers
<1>2. JobSound(j)'
  <2>1. jobs'[j] = r
    BY DEF IInv, TypeOK
  <2>2. \A m \in Numbers : attempts'[j][m] = IF m = n THEN a ELSE attempts[j][m]
    BY DEF IInv, TypeOK, Numbers
  <2>3. JobSound(j) /\ Leased(j) /\ n = jobs[j].attemptCount /\ n \in Nat
    BY BoundsAssumption DEF IInv, JobSound, Leased, Numbers
  <2>4. QED
    BY <2>1, <2>2, <2>3 DEF JobSound, Leased, OpenAttempt
<1>3. ASSUME NEW i \in Job, i # j PROVE JobSound(i)'
  BY <1>3, FrameSound DEF IInv, TypeOK
<1>4. QED
  BY <1>1, <1>2, <1>3 DEF IInv

\* What a live credential finds.  Here and below t is any timestamp: a caller
\* may keep one that is long past.
LEMMA HeldSound ==
  ASSUME IInv, NEW j \in Job, NEW n, NEW t, HeldBy(j, n, t)
  PROVE  Leased(j) /\ leases[j].attempt = n /\ n \in Numbers
         /\ jobs[j].status \in OpenAttempt /\ attempts[j][n].status = jobs[j].status
  BY BoundsAssumption DEF HeldBy, IInv, TypeOK, Lease, Leased, JobSound, Numbers

LEMMA MarkSound ==
  ASSUME IInv, NEW j \in Job, NEW n, NEW t, MarkRunning(j, n, t)
  PROVE  IInv'
<1> DEFINE r == RunningRow(jobs[j])
<1>1. jobs[j] \in Row /\ RowSound(jobs[j])
  BY DEF IInv, TypeOK, JobSound
<1>2. leases[j].attempt = n /\ jobs[j].status \in OpenAttempt /\ n \in Numbers
  BY HeldSound DEF MarkRunning
<1>3. jobs[j].status = "leased"
  BY <1>2 DEF MarkRunning, CanTransition, AllowedFrom, OpenAttempt
<1>4. r \in Row /\ RowSound(r) /\ r.attemptCount = jobs[j].attemptCount
      /\ r.env = jobs[j].env /\ r.status = "running"
  BY <1>1, <1>3, RunningTyped, TakenSound DEF RunningRow, Row
<1>5. /\ jobs' = [jobs EXCEPT ![j] = r]
      /\ attempts' = [attempts EXCEPT ![j][n] = [status |-> "running", bound |-> FALSE]]
      /\ UNCHANGED <<leases, now>>
  BY DEF MarkRunning
<1>6. [status |-> "running", bound |-> FALSE] \in Attempt
  BY DEF Attempt, AttemptStatus, Status
<1> HIDE DEF r
<1>7. QED
  BY <1>2, <1>4, <1>5, <1>6, RunningSound

LEMMA BindSound ==
  ASSUME IInv, NEW j \in Job, NEW n, NEW t, BindWorkerPid(j, n, t)
  PROVE  IInv'
<1>1. jobs[j] \in Row /\ RowSound(jobs[j])
  BY DEF IInv, TypeOK, JobSound
<1>2. leases[j].attempt = n /\ jobs[j].status = "running" /\ n \in Numbers
  BY HeldSound DEF BindWorkerPid
<1>3. jobs' = [jobs EXCEPT ![j] = jobs[j]]
  BY DEF BindWorkerPid, IInv, TypeOK
<1>4. /\ attempts' = [attempts EXCEPT ![j][n] = [status |-> "running", bound |-> TRUE]]
      /\ UNCHANGED <<leases, now>>
  BY DEF BindWorkerPid
<1>5. [status |-> "running", bound |-> TRUE] \in Attempt
  BY DEF Attempt, AttemptStatus, Status
<1>6. QED
  BY <1>1, <1>2, <1>3, <1>4, <1>5, RunningSound

LEMMA AbandonSound ==
  ASSUME IInv, NEW j \in Job, NEW n, NEW t, AbandonUnstartedLease(j, n, t)
  PROVE  IInv'
<1> DEFINE r == Released(jobs[j], "deferred")
<1>1. jobs[j] \in Row /\ RowSound(jobs[j])
  BY DEF IInv, TypeOK, JobSound
<1>2. leases[j].attempt = n /\ n \in Numbers /\ jobs[j].status \in OpenAttempt
  BY HeldSound DEF AbandonUnstartedLease
<1>3. r \in Row /\ RowSound(r)
  BY <1>1, <1>2, ReleasedTyped, ReleasedSound DEF Status
<1>4. r.attemptCount = jobs[j].attemptCount
  BY <1>1 DEF Released, Moved, Row
<1>5. jobs' = [jobs EXCEPT ![j] = r] /\ CloseAttempt(j, n, "deferred") /\ UNCHANGED now
  BY DEF AbandonUnstartedLease
<1>6. "deferred" \in AttemptStatus \ OpenAttempt
  BY DEF AttemptStatus, Status, OpenAttempt
<1> HIDE DEF r
<1>7. QED
  BY <1>2, <1>3, <1>4, <1>5, <1>6, CloseStep

LEMMA HeartbeatSound ==
  ASSUME IInv, NEW j \in Job, NEW n, NEW d \in LeaseSeconds, NEW t \in Nat,
         HeartbeatLease(j, n, d, t)
  PROVE  IInv'
<1> DEFINE l == [leases[j] EXCEPT !.expires = LeaseEnd(j, d, t)]
<1>1. leases[j] \in Lease /\ Leased(j)
  BY HeldSound DEF HeartbeatLease, IInv, TypeOK
<1>2. l \in Lease /\ l.attempt = leases[j].attempt /\ l.expires <= jobs[j].env.deadline
  BY <1>1, LeaseEndBounded DEF IInv, Lease
<1>3. leases' = [leases EXCEPT ![j] = l] /\ UNCHANGED <<jobs, attempts, now>>
  BY DEF HeartbeatLease, IInv, TypeOK
<1> HIDE DEF l
<1>4. QED
  BY <1>1, <1>2, <1>3, LeaseRowStep

LEMMA FinishSound ==
  ASSUME IInv, NEW j \in Job, NEW n, NEW t, NEW to \in SuspendTarget \cup ResultTarget,
         NEW completed \in BOOLEAN, NEW receipts \in BOOLEAN, NEW error \in BOOLEAN,
         FinishLease(j, n, to, completed, receipts, error, t)
  PROVE  IInv'
<1> DEFINE r == FinishedRow(jobs[j], to, completed, receipts, error)
<1>1. jobs[j] \in Row /\ RowSound(jobs[j])
  BY DEF IInv, TypeOK, JobSound
<1>2. to \in Status /\ to \in AttemptStatus \ OpenAttempt
  BY DEF SuspendTarget, ResultTarget, Status, AttemptStatus, OpenAttempt
<1>3. HeldBy(j, n, t) /\ jobs' = [jobs EXCEPT ![j] = r] /\ CloseAttempt(j, n, to)
      /\ UNCHANGED now /\ CanTransition(jobs[j].status, to, completed)
      /\ (to \in NeedsError => error) /\ (ReceiptRequired(jobs[j], to) => receipts)
  BY DEF FinishLease
<1>4. leases[j].attempt = n /\ n \in Numbers /\ jobs[j].status \in OpenAttempt
  BY <1>3, HeldSound
<1>5. r \in Row /\ RowSound(r)
  BY <1>1, <1>2, <1>3, <1>4, FinishedTyped, FinishedSound
<1>6. r.attemptCount = jobs[j].attemptCount
  BY <1>1 DEF FinishedRow, Moved, Row
<1> HIDE DEF r
<1>7. QED
  BY <1>2, <1>3, <1>4, <1>5, <1>6, CloseStep

LEMMA LeaseSound == IInv /\ LateLeaseStep => IInv'
<1> SUFFICES ASSUME IInv, LateLeaseStep PROVE IInv'
  OBVIOUS
<1> PICK j \in Job, t \in Nat :
        \/ \E interactive \in BOOLEAN, d \in LeaseSeconds : LeaseNext(j, interactive, d, t)
        \/ \E n \in Numbers :
               \/ MarkRunning(j, n, t)
               \/ BindWorkerPid(j, n, t)
               \/ AbandonUnstartedLease(j, n, t)
               \/ \E d \in LeaseSeconds : HeartbeatLease(j, n, d, t)
               \/ \E to \in SuspendTarget, receipts, error \in BOOLEAN :
                     SuspendLease(j, n, to, receipts, error, t)
               \/ \E to \in ResultTarget, completed, receipts, error \in BOOLEAN :
                     CommitWorkerResult(j, n, to, completed, receipts, error, t)
  BY DEF LateLeaseStep
<1>1. ASSUME NEW n \in Numbers, NEW to \in SuspendTarget, NEW receipts \in BOOLEAN,
             NEW error \in BOOLEAN, SuspendLease(j, n, to, receipts, error, t)
      PROVE  IInv'
  BY <1>1, FinishSound, FALSE \in BOOLEAN DEF SuspendLease
<1>2. ASSUME NEW n \in Numbers, NEW to \in ResultTarget, NEW completed \in BOOLEAN,
             NEW receipts \in BOOLEAN, NEW error \in BOOLEAN,
             CommitWorkerResult(j, n, to, completed, receipts, error, t)
      PROVE  IInv'
  BY <1>2, FinishSound DEF CommitWorkerResult
<1>3. QED
  BY <1>1, <1>2, LeaseNextSound, MarkSound, BindSound, AbandonSound, HeartbeatSound

\* A fence handle names the lease that is there.
LEMMA OwnLease ==
  ASSUME IInv, NEW j \in Job, NEW n, n # 0, leases[j].attempt = n
  PROVE  n \in Numbers /\ Leased(j) /\ jobs[j].status \in OpenAttempt
         /\ jobs[j] \in Row /\ RowSound(jobs[j]) /\ leases[j] \in Lease
         /\ leases[j].expires <= jobs[j].env.deadline
  BY BoundsAssumption DEF IInv, TypeOK, Lease, Leased, JobSound, Numbers

LEMMA StandingFenceSound ==
  ASSUME IInv, NEW j \in Job, NEW n, n # 0, leases[j].attempt = n,
         NEW reason \in FenceReason, Fence(j, reason)
  PROVE  IInv'
<1> DEFINE l == [leases[j] EXCEPT !.fence = reason, !.gen = leases[j].gen + 1]
<1>1. Leased(j) /\ leases[j] \in Lease /\ leases[j].expires <= jobs[j].env.deadline
  BY OwnLease
<1>2. l \in Lease /\ l.attempt = leases[j].attempt /\ l.expires = leases[j].expires
  <2>1. leases[j].gen + 1 \in 0 .. MaxFence
    BY <1>1, BoundsAssumption DEF Lease, Fence
  <2>2. QED
    BY <1>1, <2>1 DEF Lease
<1>3. leases' = [leases EXCEPT ![j] = l] /\ UNCHANGED <<jobs, attempts, now>>
  BY DEF Fence, IInv, TypeOK
<1> HIDE DEF l
<1>4. QED
  BY <1>1, <1>2, <1>3, LeaseRowStep

LEMMA CancelSound ==
  ASSUME IInv, NEW j \in Job, NEW n, NEW gen, CancelPreemptionFence(j, n, gen)
  PROVE  IInv'
<1> DEFINE l == [leases[j] EXCEPT !.fence = "none"]
<1>1. leases[j].attempt = n /\ n # 0
  BY DEF CancelPreemptionFence, FenceMatches
<1>2. l \in Lease /\ l.attempt = leases[j].attempt /\ l.expires = leases[j].expires
  BY <1>1, OwnLease DEF Lease, FenceReason
<1>3. leases' = [leases EXCEPT ![j] = l] /\ UNCHANGED <<jobs, attempts, now>>
  BY DEF CancelPreemptionFence, IInv, TypeOK
<1> HIDE DEF l
<1>4. QED
  BY <1>1, <1>2, <1>3, OwnLease, LeaseRowStep

LEMMA PreemptedSound ==
  ASSUME IInv, NEW j \in Job, NEW n, n # 0, leases[j].attempt = n,
         NEW to \in {"queued", "deferred"},
         NEW o \in {"preempted", "preempted_recovery_required"},
         jobs' = [jobs EXCEPT ![j] = Released(jobs[j], to)],
         CloseAttempt(j, n, o), UNCHANGED now
  PROVE  IInv'
<1> DEFINE r == Released(jobs[j], to)
<1>1. r \in Row /\ RowSound(r)
  BY OwnLease, ReleasedTyped, ReleasedSound DEF Status
<1>2. r.attemptCount = jobs[j].attemptCount
  BY OwnLease DEF Released, Moved, Row
<1>3. o \in AttemptStatus \ OpenAttempt
  BY DEF AttemptStatus, OpenAttempt
<1>4. jobs' = [jobs EXCEPT ![j] = r]
  OBVIOUS
<1> HIDE DEF r
<1>5. QED
  BY <1>1, <1>2, <1>3, <1>4, OwnLease, CloseStep

LEMMA ResolveSound ==
  ASSUME IInv, NEW j \in Job, NEW n, NEW gen, ResolveFencedLease(j, n, gen)
  PROVE  IInv'
<1> DEFINE r == ExpiredRow(jobs[j])
<1>1. n # 0 /\ leases[j].attempt = n /\ CloseAttempt(j, n, "timed_out") /\ UNCHANGED now
      /\ jobs' = [jobs EXCEPT ![j] = r]
  BY DEF ResolveFencedLease, FenceMatches
<1>2. r \in Row /\ RowSound(r)
  BY <1>1, OwnLease, ExpiredTyped, ExpiredSound
<1>3. r.attemptCount = jobs[j].attemptCount
  BY <1>1, OwnLease DEF ExpiredRow, Released, Moved, Row
<1>4. "timed_out" \in AttemptStatus \ OpenAttempt
  BY DEF AttemptStatus, Status, OpenAttempt
<1> HIDE DEF r
<1>5. QED
  BY <1>1, <1>2, <1>3, <1>4, OwnLease, CloseStep

LEMMA FenceSound == IInv /\ LateFenceStep => IInv'
<1> SUFFICES ASSUME IInv, NEW j \in Job, NEW n \in Numbers,
                    \/ \E p \in Priority, t \in Nat : FencePreemptibleLease(j, n, p, t)
                    \/ \E t \in Nat : FenceLease(j, n, t)
                    \/ \E gen \in 1 .. MaxFence :
                           \/ CancelPreemptionFence(j, n, gen)
                           \/ \E p \in Priority : ResolvePreemptedLease(j, n, gen, p)
                           \/ MarkPreemptionRecoveryRequired(j, n, gen)
                           \/ ResolveFencedLease(j, n, gen)
             PROVE  IInv'
  BY DEF LateFenceStep
<1>1. ASSUME NEW p \in Priority, NEW t, FencePreemptibleLease(j, n, p, t) \/ FenceLease(j, n, t)
      PROVE  IInv'
  BY <1>1, StandingFenceSound DEF FencePreemptibleLease, FenceLease, FenceReason
<1>2. ASSUME NEW gen, NEW p, ResolvePreemptedLease(j, n, gen, p) PROVE IInv'
  BY <1>2, PreemptedSound DEF ResolvePreemptedLease, FenceMatches
<1>3. ASSUME NEW gen, MarkPreemptionRecoveryRequired(j, n, gen) PROVE IInv'
  BY <1>3, PreemptedSound DEF MarkPreemptionRecoveryRequired, FenceMatches
<1>4. "P0" \in Priority
  BY DEF Priority
<1>5. QED
  BY <1>1, <1>2, <1>3, <1>4, CancelSound, ResolveSound

LEMMA LateSound == IInv /\ [LateNext]_vars => IInv'
<1> SUFFICES ASSUME IInv, [LateNext]_vars PROVE IInv'
  OBVIOUS
<1>1. CASE LateOperatorStep
  BY <1>1, OperatorSound
<1>2. CASE LateLeaseStep
  BY <1>2, LeaseSound
<1>3. CASE LateFenceStep
  BY <1>3, FenceSound
<1>4. CASE Tick
  BY <1>4, TickSound
<1>5. CASE UNCHANGED vars
  <2>1. TypeOK'
    BY <1>5 DEF vars, IInv, TypeOK
  <2>2. ASSUME NEW j \in Job PROVE JobSound(j)'
    BY <1>5, FrameSound DEF vars, IInv
  <2>3. QED
    BY <2>1, <2>2 DEF IInv
<1>6. QED
  BY <1>1, <1>2, <1>3, <1>4, <1>5 DEF LateNext

\* In every reachable state the three tables agree about every job.
THEOREM Invariance == Spec => []IInv
  BY InitSound, LateSound, NextIsLate, PTL DEF Spec

-----------------------------------------------------------------------------
(* The invariants the runs check.                                          *)

\* Every variable keeps its type.
THEOREM TypeCorrect == Spec => []TypeOK
<1>1. IInv => TypeOK
  BY DEF IInv
<1>2. QED
  BY <1>1, Invariance, PTL

\* A lease row always names the newest attempt of a leased or running job.
THEOREM LeaseIsCurrent == Spec => []LeaseCurrent
<1>1. IInv => LeaseCurrent
  BY DEF IInv, JobSound, LeaseCurrent
<1>2. QED
  BY <1>1, Invariance, PTL

\* No attempt stays open without its own lease.
THEOREM AttemptsAreOwned == Spec => []NoOrphanAttempt
<1>1. IInv => NoOrphanAttempt
  BY DEF IInv, JobSound, NoOrphanAttempt
<1>2. QED
  BY <1>1, Invariance, PTL

\* No path puts a dangerous job in the queue but its confirmation.
THEOREM DangerNeedsConfirmation == Spec => []DangerousConfirmed
<1>1. IInv => DangerousConfirmed
  BY DEF IInv, JobSound, RowSound, DangerousConfirmed
<1>2. QED
  BY <1>1, Invariance, PTL

\* A dangerous job with an unknown effect is never queued or run.
THEOREM AmbiguousIsHeld == Spec => []AmbiguousNeverRuns
<1>1. IInv => AmbiguousNeverRuns
  BY DEF IInv, JobSound, RowSound, AmbiguousNeverRuns
<1>2. QED
  BY <1>1, Invariance, PTL

\* Every committed row passes the checks _job_from_row makes when reading it.
THEOREM RowsReadable == Spec => []CanonicalRow
<1>1. IInv => CanonicalRow
  BY DEF IInv, JobSound, RowSound, CanonicalRow
<1>2. QED
  BY <1>1, Invariance, PTL

\* A verified commit phase has a leased success, and a receipt, behind it.
THEOREM VerifiedIsEvidence == Spec => []VerifiedHasEvidence
<1>1. IInv => VerifiedHasEvidence
  BY DEF IInv, JobSound, RowSound, VerifiedHasEvidence
<1>2. QED
  BY <1>1, Invariance, PTL

\* No lease outlives the deadline of its job.
THEOREM LeaseIsBounded == Spec => []LeaseWithinDeadline
<1>1. IInv => LeaseWithinDeadline
  BY DEF IInv, JobSound, LeaseWithinDeadline
<1>2. QED
  BY <1>1, Invariance, PTL

-----------------------------------------------------------------------------
(* What a step may do to the row of a job, as the guards of the operations *)
(* and the invariant leave it.                                             *)

RowStep(j) ==
    \/ jobs'[j] = jobs[j]
    \/ ~Leased(j) /\ ~Fenced(j) /\ jobs[j].status \in {"absent", "needs_confirmation", "queued"}
    \/ ~Leased(j) /\ ~Fenced(j)
       /\ \E to \in Status, completed \in BOOLEAN : CanTransition(jobs[j].status, to, completed)
    \/ Leased(j) /\ ~Fenced(j) /\ jobs'[j].status # "queued"
    \/ Leased(j) /\ SafeToPreempt(jobs[j].env) /\ jobs'[j] = Released(jobs[j], "queued")
    \/ Leased(j) /\ jobs'[j] = Released(jobs[j], "deferred")
    \/ Leased(j) /\ jobs'[j] = ExpiredRow(jobs[j])

LEMMA UnleasedUnfenced ==
  ASSUME IInv, NEW j \in Job, jobs[j].status \notin OpenAttempt \/ ~Leased(j)
  PROVE  ~Leased(j) /\ ~Fenced(j)
  BY DEF IInv, JobSound, NoLease, Fenced

LEMMA OperatorRowStep == IInv /\ LateOperatorStep => \A i \in Job : RowStep(i)
<1> SUFFICES ASSUME IInv, LateOperatorStep PROVE \A i \in Job : RowStep(i)
  OBVIOUS
<1> PICK j \in Job :
        \/ \E env \in Envelope, t \in Nat : CreateJob(j, env, t)
        \/ \E token \in Token, t \in Nat : ConfirmJob(j, token, t)
        \/ \E token \in Token, t \in Nat, e \in 1 .. MaxTime :
               IssueConfirmationChallenge(j, token, e, t)
        \/ \E to \in Status, completed, error \in BOOLEAN :
               TransitionJob(j, to, completed, error)
  BY DEF LateOperatorStep
<1>1. ASSUME NEW i \in Job, i # j PROVE RowStep(i)
  <2>1. jobs'[i] = jobs[i]
    BY <1>1 DEF IInv, TypeOK, CreateJob, ConfirmJob, IssueConfirmationChallenge, TransitionJob
  <2>2. QED
    BY <2>1 DEF RowStep
<1>2. \/ jobs[j].status \in {"absent", "needs_confirmation"}
      \/ ~Leased(j) /\ \E to \in Status, completed \in BOOLEAN :
                           CanTransition(jobs[j].status, to, completed)
  BY DEF CreateJob, Exists, ConfirmJob, IssueConfirmationChallenge, TransitionJob
<1>3. RowStep(j)
  BY <1>2, UnleasedUnfenced DEF RowStep, OpenAttempt
<1>4. QED
  BY <1>1, <1>3

LEMMA LeaseRowStepKinds == IInv /\ LateLeaseStep => \A i \in Job : RowStep(i)
<1> SUFFICES ASSUME IInv, LateLeaseStep PROVE \A i \in Job : RowStep(i)
  OBVIOUS
<1> PICK j \in Job, t \in Nat :
        \/ \E interactive \in BOOLEAN, d \in LeaseSeconds : LeaseNext(j, interactive, d, t)
        \/ \E n \in Numbers :
               \/ MarkRunning(j, n, t)
               \/ BindWorkerPid(j, n, t)
               \/ AbandonUnstartedLease(j, n, t)
               \/ \E d \in LeaseSeconds : HeartbeatLease(j, n, d, t)
               \/ \E to \in SuspendTarget, receipts, error \in BOOLEAN :
                     SuspendLease(j, n, to, receipts, error, t)
               \/ \E to \in ResultTarget, completed, receipts, error \in BOOLEAN :
                     CommitWorkerResult(j, n, to, completed, receipts, error, t)
  BY DEF LateLeaseStep
<1>1. jobs[j] \in Row
  BY DEF IInv, TypeOK
<1> DEFINE K ==
      \/ jobs[j].status = "queued" /\ jobs' = [jobs EXCEPT ![j] = LeasedRow(jobs[j])]
      \/ \E n \in Numbers : HeldBy(j, n, t) /\ jobs' = jobs
      \/ \E n \in Numbers : HeldBy(j, n, t) /\ jobs' = [jobs EXCEPT ![j] = RunningRow(jobs[j])]
      \/ \E n \in Numbers : HeldBy(j, n, t)
             /\ jobs' = [jobs EXCEPT ![j] = Released(jobs[j], "deferred")]
      \/ \E n \in Numbers, to \in SuspendTarget \cup ResultTarget,
            completed, receipts, error \in BOOLEAN : HeldBy(j, n, t)
             /\ jobs' = [jobs EXCEPT ![j] = FinishedRow(jobs[j], to, completed, receipts, error)]
<1>2. K
  <2>1. ASSUME NEW interactive \in BOOLEAN, NEW d \in LeaseSeconds,
               LeaseNext(j, interactive, d, t)
        PROVE  K
    BY <2>1 DEF LeaseNext, Leasable
  <2>2. ASSUME NEW n \in Numbers, MarkRunning(j, n, t) PROVE K
    BY <2>2 DEF MarkRunning
  <2>3. ASSUME NEW n \in Numbers, BindWorkerPid(j, n, t) PROVE K
    BY <2>3 DEF BindWorkerPid
  <2>4. ASSUME NEW n \in Numbers, AbandonUnstartedLease(j, n, t) PROVE K
    BY <2>4 DEF AbandonUnstartedLease
  <2>5. ASSUME NEW n \in Numbers, NEW d \in LeaseSeconds, HeartbeatLease(j, n, d, t)
        PROVE  K
    BY <2>5 DEF HeartbeatLease
  <2>6. ASSUME NEW n \in Numbers, NEW to \in SuspendTarget, NEW receipts \in BOOLEAN,
               NEW error \in BOOLEAN, SuspendLease(j, n, to, receipts, error, t)
        PROVE  K
    <3>1. FALSE \in BOOLEAN /\ to \in SuspendTarget \cup ResultTarget /\ HeldBy(j, n, t)
          /\ jobs' = [jobs EXCEPT ![j] = FinishedRow(jobs[j], to, FALSE, receipts, error)]
      BY <2>6 DEF SuspendLease, FinishLease
    <3>2. QED
      BY <3>1, Zenon
  <2>7. ASSUME NEW n \in Numbers, NEW to \in ResultTarget, NEW completed \in BOOLEAN,
               NEW receipts \in BOOLEAN, NEW error \in BOOLEAN,
               CommitWorkerResult(j, n, to, completed, receipts, error, t)
        PROVE  K
    <3>1. to \in SuspendTarget \cup ResultTarget /\ HeldBy(j, n, t)
          /\ jobs' = [jobs EXCEPT ![j] = FinishedRow(jobs[j], to, completed, receipts, error)]
      BY <2>7 DEF CommitWorkerResult, FinishLease
    <3>2. QED
      BY <3>1, Zenon
  <2> HIDE DEF K
  <2>8. QED
    BY <2>1, <2>2, <2>3, <2>4, <2>5, <2>6, <2>7
<1>3. ASSUME NEW i \in Job, i # j PROVE RowStep(i)
  <2>1. jobs'[i] = jobs[i]
    BY <1>2, <1>3 DEF IInv, TypeOK
  <2>2. QED
    BY <2>1 DEF RowStep
<1>4. ASSUME NEW n \in Numbers, HeldBy(j, n, t) PROVE Leased(j) /\ ~Fenced(j)
  BY <1>4 DEF HeldBy, Leased
<1>5. \A to \in SuspendTarget \cup ResultTarget : \A completed, receipts, error \in BOOLEAN :
          FinishedRow(jobs[j], to, completed, receipts, error).status # "queued"
  BY <1>1 DEF FinishedRow, Moved, Row, SuspendTarget, ResultTarget
<1>6. RunningRow(jobs[j]).status # "queued" /\ Released(jobs[j], "deferred").status # "queued"
  BY <1>1 DEF RunningRow, Released, Moved, Row
<1>7. \A r : jobs' = [jobs EXCEPT ![j] = r] => jobs'[j] = r
  BY DEF IInv, TypeOK
<1>8. RowStep(j)
  BY <1>2, <1>4, <1>5, <1>6, <1>7, UnleasedUnfenced DEF RowStep, OpenAttempt
<1>9. QED
  BY <1>3, <1>8

LEMMA FenceRowStep == IInv /\ LateFenceStep => \A i \in Job : RowStep(i)
<1> SUFFICES ASSUME IInv, LateFenceStep PROVE \A i \in Job : RowStep(i)
  OBVIOUS
<1> PICK j \in Job, n \in Numbers :
        \/ \E p \in Priority, t \in Nat : FencePreemptibleLease(j, n, p, t)
        \/ \E t \in Nat : FenceLease(j, n, t)
        \/ \E gen \in 1 .. MaxFence :
               \/ CancelPreemptionFence(j, n, gen)
               \/ \E p \in Priority : ResolvePreemptedLease(j, n, gen, p)
               \/ MarkPreemptionRecoveryRequired(j, n, gen)
               \/ ResolveFencedLease(j, n, gen)
  BY DEF LateFenceStep
<1>1. \/ jobs' = jobs
      \/ Leased(j) /\ SafeToPreempt(jobs[j].env)
         /\ jobs' = [jobs EXCEPT ![j] = Released(jobs[j], "queued")]
      \/ Leased(j) /\ jobs' = [jobs EXCEPT ![j] = Released(jobs[j], "deferred")]
      \/ Leased(j) /\ jobs' = [jobs EXCEPT ![j] = ExpiredRow(jobs[j])]
  BY DEF FencePreemptibleLease, FenceLease, Fence, CancelPreemptionFence,
         ResolvePreemptedLease, MarkPreemptionRecoveryRequired, ResolveFencedLease,
         FenceMatches, Leased
<1>2. ASSUME NEW i \in Job, i # j PROVE RowStep(i)
  <2>1. jobs'[i] = jobs[i]
    BY <1>1, <1>2 DEF IInv, TypeOK
  <2>2. QED
    BY <2>1 DEF RowStep
<1>3. \A r : jobs' = [jobs EXCEPT ![j] = r] => jobs'[j] = r
  BY DEF IInv, TypeOK
<1>4. RowStep(j)
  BY <1>1, <1>3 DEF RowStep
<1>5. QED
  BY <1>2, <1>4

LEMMA RowSteps == IInv /\ [LateNext]_vars => \A i \in Job : RowStep(i)
<1>1. Tick \/ UNCHANGED vars => \A i \in Job : RowStep(i)
  BY DEF Tick, vars, RowStep
<1>2. QED
  BY <1>1, OperatorRowStep, LeaseRowStepKinds, FenceRowStep DEF LateNext

LEMMA TerminalStep ==
  ASSUME IInv, [LateNext]_vars, NEW j \in Job, jobs[j].status \in Terminal
  PROVE  jobs'[j] = jobs[j]
<1>1. ~Leased(j)
  BY UnleasedUnfenced DEF Terminal, OpenAttempt
<1>2. \A to, completed : ~CanTransition(jobs[j].status, to, completed)
  BY DEF CanTransition, AllowedFrom, Terminal
<1>3. RowStep(j)
  BY RowSteps
<1>4. QED
  BY <1>1, <1>2, <1>3 DEF RowStep, Terminal

\* Nothing about a finished job changes again.
THEOREM TerminalFinal == Spec => TerminalIsFinal
<1>1. IInv /\ [LateNext]_vars => \A j \in Job : jobs[j].status \in Terminal => jobs'[j] = jobs[j]
  BY TerminalStep
<1>2. QED
  BY <1>1, NextIsLate, Invariance, PTL DEF Spec, TerminalIsFinal

\* What FencedResultRejected and WriteNeverAutoRequeued ask of one step.
Rejecting == \A j \in Job : Fenced(j) /\ jobs'[j] # jobs[j] =>
    /\ jobs'[j].status \in {"queued", "deferred", "needs_confirmation", "timed_out"}
    /\ jobs'[j].receipts = jobs[j].receipts
    /\ jobs'[j].completed = jobs[j].completed

Withholding == \A j \in Job : Leased(j) /\ jobs'[j].status = "queued" =>
    jobs[j].env.effect \notin Writing

LEMMA FencedStep == IInv /\ [LateNext]_vars => Rejecting
<1> SUFFICES ASSUME IInv, [LateNext]_vars, NEW j \in Job, Fenced(j), jobs'[j] # jobs[j]
             PROVE  /\ jobs'[j].status \in {"queued", "deferred", "needs_confirmation", "timed_out"}
                    /\ jobs'[j].receipts = jobs[j].receipts
                    /\ jobs'[j].completed = jobs[j].completed
  BY DEF Rejecting
<1>1. jobs[j] \in Row
  BY DEF IInv, TypeOK
<1>2. jobs'[j] \in {Released(jobs[j], "queued"), Released(jobs[j], "deferred"),
                    ExpiredRow(jobs[j])}
  BY RowSteps DEF RowStep
<1>3. QED
  BY <1>1, <1>2 DEF ExpiredRow, ExpiryTarget, Released, Moved, Row

\* A result that arrives after the fence changes nothing.
THEOREM FenceRejects == Spec => FencedResultRejected
  BY FencedStep, NextIsLate, Invariance, PTL DEF Spec, FencedResultRejected, Rejecting

LEMMA WriteStep == IInv /\ [LateNext]_vars => Withholding
<1> SUFFICES ASSUME IInv, [LateNext]_vars, NEW j \in Job, Leased(j), jobs'[j].status = "queued"
             PROVE  jobs[j].env.effect \notin Writing
  BY DEF Withholding
<1>1. jobs[j] \in Row /\ jobs[j].status \in OpenAttempt
  BY DEF IInv, TypeOK, JobSound
<1>2. jobs'[j] # jobs[j] /\ jobs'[j] # Released(jobs[j], "deferred")
  BY <1>1 DEF OpenAttempt, Released, Moved, Row
<1>3. \/ SafeToPreempt(jobs[j].env)
      \/ jobs'[j] = ExpiredRow(jobs[j])
  BY <1>2, RowSteps DEF RowStep
<1>4. jobs'[j] = ExpiredRow(jobs[j]) => ExpiryTarget(jobs[j]) = "queued"
  BY <1>1 DEF ExpiredRow, Released, Moved, Row
<1>5. QED
  BY <1>3, <1>4 DEF SafeToPreempt, Writing, ExpiryTarget

\* While it is held, a job that may have written is never requeued.
THEOREM WritesNotRequeued == Spec => WriteNeverAutoRequeued
  BY WriteStep, NextIsLate, Invariance, PTL DEF Spec, WriteNeverAutoRequeued, Withholding

-----------------------------------------------------------------------------
(* What a step may do to the attempts of a job.                            *)

AttemptStep(j) ==
    \/ \A n \in Numbers : attempts'[j][n] # attempts[j][n] =>
           attempts[j][n].status \in OpenAttempt
    \/ /\ jobs[j].status = "queued"
       /\ Spent(j) < jobs[j].env.maxAttempts
       /\ \A n \in Numbers : attempts'[j][n] # attempts[j][n] =>
              n = jobs[j].attemptCount + 1

\* A step that writes only the attempt its own lease names.
LEMMA OwnAttemptStep ==
  ASSUME IInv, NEW j \in Job, NEW n \in Numbers, leases[j].attempt = n,
         NEW a, attempts' = [attempts EXCEPT ![j][n] = a]
  PROVE  \A i \in Job : AttemptStep(i)
<1>1. attempts[j][n].status \in OpenAttempt
  BY BoundsAssumption DEF IInv, JobSound, Leased, Numbers
<1>2. ASSUME NEW i \in Job, NEW m \in Numbers, attempts'[i][m] # attempts[i][m]
      PROVE  i = j /\ m = n
  BY <1>2 DEF IInv, TypeOK, Numbers
<1>3. QED
  BY <1>1, <1>2 DEF AttemptStep

LEMMA AttemptSteps == IInv /\ [LateNext]_vars => \A i \in Job : AttemptStep(i)
<1> SUFFICES ASSUME IInv, [LateNext]_vars PROVE \A i \in Job : AttemptStep(i)
  OBVIOUS
<1>1. CASE attempts' = attempts
  BY <1>1 DEF AttemptStep
<1>2. ASSUME NEW j \in Job, NEW n \in Numbers, leases[j].attempt = n,
             NEW o, CloseAttempt(j, n, o)
      PROVE  \A i \in Job : AttemptStep(i)
  BY <1>2, OwnAttemptStep DEF CloseAttempt
<1>3. CASE LateOperatorStep
  BY <1>1, <1>3 DEF LateOperatorStep, CreateJob, ConfirmJob, IssueConfirmationChallenge,
                    TransitionJob
<1>4. ASSUME NEW j \in Job, NEW t \in Nat, NEW interactive \in BOOLEAN,
             NEW d \in LeaseSeconds, LeaseNext(j, interactive, d, t)
      PROVE  \A i \in Job : AttemptStep(i)
  <2> DEFINE m == jobs[j].attemptCount + 1
             a == [status |-> "leased", bound |-> FALSE]
  <2>1. attempts' = [attempts EXCEPT ![j][m] = a]
        /\ jobs[j].status = "queued" /\ Spent(j) < jobs[j].env.maxAttempts
    BY <1>4 DEF LeaseNext, Leasable
  <2> HIDE DEF a
  <2>2. ASSUME NEW i \in Job, NEW n \in Numbers, attempts'[i][n] # attempts[i][n]
        PROVE  i = j /\ n = m
    BY <2>1, <2>2 DEF IInv, TypeOK, Numbers
  <2>3. QED
    BY <2>1, <2>2 DEF AttemptStep
<1>5. ASSUME NEW j \in Job, NEW t \in Nat, NEW n \in Numbers,
             \/ MarkRunning(j, n, t)
             \/ BindWorkerPid(j, n, t)
             \/ AbandonUnstartedLease(j, n, t)
             \/ \E d \in LeaseSeconds : HeartbeatLease(j, n, d, t)
             \/ \E to \in SuspendTarget \cup ResultTarget, completed, receipts, error \in BOOLEAN :
                   FinishLease(j, n, to, completed, receipts, error, t)
      PROVE  \A i \in Job : AttemptStep(i)
  <2>1. CASE MarkRunning(j, n, t)
    BY <2>1, OwnAttemptStep DEF MarkRunning, HeldBy
  <2>2. CASE BindWorkerPid(j, n, t)
    BY <2>2, OwnAttemptStep DEF BindWorkerPid, HeldBy
  <2>3. CASE AbandonUnstartedLease(j, n, t)
    BY <2>3, <1>2 DEF AbandonUnstartedLease, HeldBy
  <2>4. CASE \E d \in LeaseSeconds : HeartbeatLease(j, n, d, t)
    BY <2>4, <1>1 DEF HeartbeatLease
  <2>5. CASE \E to \in SuspendTarget \cup ResultTarget,
                  completed, receipts, error \in BOOLEAN :
                 FinishLease(j, n, to, completed, receipts, error, t)
    BY <2>5, <1>2 DEF FinishLease, HeldBy
  <2>6. QED
    BY <1>5, <2>1, <2>2, <2>3, <2>4, <2>5
<1>6. CASE LateLeaseStep
  <2>1. ASSUME NEW j \in Job, NEW t \in Nat, NEW n \in Numbers, NEW to \in SuspendTarget,
               NEW receipts \in BOOLEAN, NEW error \in BOOLEAN,
               SuspendLease(j, n, to, receipts, error, t)
        PROVE  \A i \in Job : AttemptStep(i)
    BY <1>5, <2>1, FALSE \in BOOLEAN DEF SuspendLease
  <2>2. ASSUME NEW j \in Job, NEW t \in Nat, NEW n \in Numbers, NEW to \in ResultTarget,
               NEW completed \in BOOLEAN, NEW receipts \in BOOLEAN, NEW error \in BOOLEAN,
               CommitWorkerResult(j, n, to, completed, receipts, error, t)
        PROVE  \A i \in Job : AttemptStep(i)
    BY <1>5, <2>2 DEF CommitWorkerResult
  <2>3. QED
    BY <1>4, <1>5, <1>6, <2>1, <2>2 DEF LateLeaseStep
<1>7. CASE LateFenceStep
  <2>1. ASSUME NEW j \in Job, NEW n \in Numbers, NEW t, NEW p,
               FencePreemptibleLease(j, n, p, t) \/ FenceLease(j, n, t)
        PROVE  attempts' = attempts
    BY <2>1 DEF FencePreemptibleLease, FenceLease, Fence
  <2>2. ASSUME NEW j \in Job, NEW n \in Numbers, NEW gen, CancelPreemptionFence(j, n, gen)
        PROVE  attempts' = attempts
    BY <2>2 DEF CancelPreemptionFence
  <2>3. ASSUME NEW j \in Job, NEW n \in Numbers, NEW gen, NEW p,
               \/ ResolvePreemptedLease(j, n, gen, p)
               \/ MarkPreemptionRecoveryRequired(j, n, gen)
               \/ ResolveFencedLease(j, n, gen)
        PROVE  \A i \in Job : AttemptStep(i)
    BY <1>2, <2>3 DEF ResolvePreemptedLease, MarkPreemptionRecoveryRequired,
                      ResolveFencedLease, FenceMatches
  <2>4. QED
    BY <1>1, <1>7, <2>1, <2>2, <2>3 DEF LateFenceStep
<1>8. QED
  BY <1>1, <1>3, <1>6, <1>7 DEF LateNext, Tick, vars

LEMMA ClosedAttemptStep ==
  ASSUME IInv, [LateNext]_vars, NEW j \in Job, NEW n \in Numbers,
         attempts[j][n].status \notin OpenAttempt \cup {"none"}
  PROVE  attempts'[j][n] = attempts[j][n]
<1>1. n # jobs[j].attemptCount + 1
  <2>1. jobs[j].attemptCount \in Nat /\ n \in Nat
    BY BoundsAssumption DEF IInv, TypeOK, Row, Numbers
  <2>2. n > jobs[j].attemptCount => attempts[j][n].status = "none"
    BY DEF IInv, JobSound, NoAttempt
  <2>3. QED
    BY <2>1, <2>2
<1>2. QED
  BY <1>1, AttemptSteps DEF AttemptStep

\* The outcome of an attempt that ended is never rewritten.
THEOREM ClosedAttemptFinal == Spec => ClosedAttemptIsFinal
<1>1. IInv /\ [LateNext]_vars =>
        \A j \in Job, n \in Numbers :
          attempts[j][n].status \notin OpenAttempt \cup {"none"} =>
              attempts'[j][n] = attempts[j][n]
  BY ClosedAttemptStep
<1>2. QED
  BY <1>1, NextIsLate, Invariance, PTL DEF Spec, ClosedAttemptIsFinal

-----------------------------------------------------------------------------
(* The retry budget.                                                       *)

\* No operation on an existing row touches its envelope.
LEMMA RowsKeepEnvelope ==
  ASSUME NEW row \in Row
  PROVE  /\ ConfirmedRow(row).env = row.env
         /\ \A token, e : ChallengedRow(row, token, e).env = row.env
         /\ \A to, c, e : Moved(row, to, c, e).env = row.env
         /\ \A to : Released(row, to).env = row.env
         /\ LeasedRow(row).env = row.env
         /\ RunningRow(row).env = row.env
         /\ \A to, c, x, e : FinishedRow(row, to, c, x, e).env = row.env
         /\ ExpiredRow(row).env = row.env
  BY DEF Row, ConfirmedRow, ChallengedRow, Moved, Released, LeasedRow, RunningRow,
         FinishedRow, ExpiredRow

\* The envelope of a job never changes once the job exists.
LEMMA EnvelopeKept ==
  ASSUME IInv, [LateNext]_vars, NEW i \in Job, Exists(i)
  PROVE  jobs'[i].env = jobs[i].env
<1>1. CASE jobs' = jobs
  BY <1>1
<1>2. ASSUME NEW j \in Job, NEW r, r.env = jobs[j].env, jobs' = [jobs EXCEPT ![j] = r]
      PROVE  jobs'[i].env = jobs[i].env
  BY <1>2 DEF IInv, TypeOK
<1>3. ASSUME NEW j \in Job
      PROVE  /\ ConfirmedRow(jobs[j]).env = jobs[j].env
             /\ \A token, e : ChallengedRow(jobs[j], token, e).env = jobs[j].env
             /\ \A to, c, e : Moved(jobs[j], to, c, e).env = jobs[j].env
             /\ \A to : Released(jobs[j], to).env = jobs[j].env
             /\ LeasedRow(jobs[j]).env = jobs[j].env
             /\ RunningRow(jobs[j]).env = jobs[j].env
             /\ \A to, c, x, e : FinishedRow(jobs[j], to, c, x, e).env = jobs[j].env
             /\ ExpiredRow(jobs[j]).env = jobs[j].env
  BY RowsKeepEnvelope DEF IInv, TypeOK
<1>4. CASE LateOperatorStep
  <2>1. ASSUME NEW j \in Job, NEW t, NEW env, CreateJob(j, env, t)
        PROVE  jobs'[i].env = jobs[i].env
    BY <2>1 DEF CreateJob, Exists, IInv, TypeOK
  <2>2. ASSUME NEW j \in Job, NEW t, NEW token, ConfirmJob(j, token, t)
        PROVE  jobs'[i].env = jobs[i].env
    BY <1>2, <1>3, <2>2 DEF ConfirmJob
  <2>3. ASSUME NEW j \in Job, NEW t, NEW token, NEW e,
               IssueConfirmationChallenge(j, token, e, t)
        PROVE  jobs'[i].env = jobs[i].env
    BY <1>2, <1>3, <2>3 DEF IssueConfirmationChallenge
  <2>4. ASSUME NEW j \in Job, NEW to, NEW c, NEW e, TransitionJob(j, to, c, e)
        PROVE  jobs'[i].env = jobs[i].env
    BY <1>2, <1>3, <2>4 DEF TransitionJob
  <2>5. QED
    BY <1>4, <2>1, <2>2, <2>3, <2>4 DEF LateOperatorStep
<1>5. CASE LateLeaseStep
  <2>1. ASSUME NEW j \in Job, NEW t, NEW interactive, NEW d, LeaseNext(j, interactive, d, t)
        PROVE  jobs'[i].env = jobs[i].env
    BY <1>2, <1>3, <2>1 DEF LeaseNext
  <2>2. ASSUME NEW j \in Job, NEW t, NEW n, NEW d,
               \/ MarkRunning(j, n, t) \/ BindWorkerPid(j, n, t)
               \/ AbandonUnstartedLease(j, n, t) \/ HeartbeatLease(j, n, d, t)
        PROVE  jobs'[i].env = jobs[i].env
    <3>1. CASE MarkRunning(j, n, t)
      BY <1>2, <1>3, <3>1 DEF MarkRunning
    <3>2. CASE AbandonUnstartedLease(j, n, t)
      BY <1>2, <1>3, <3>2 DEF AbandonUnstartedLease
    <3>3. CASE BindWorkerPid(j, n, t) \/ HeartbeatLease(j, n, d, t)
      BY <1>1, <3>3 DEF BindWorkerPid, HeartbeatLease
    <3>4. QED
      BY <2>2, <3>1, <3>2, <3>3
  <2>3. ASSUME NEW j \in Job, NEW t, NEW n, NEW to, NEW c, NEW x, NEW e,
               FinishLease(j, n, to, c, x, e, t)
        PROVE  jobs'[i].env = jobs[i].env
    BY <1>2, <1>3, <2>3 DEF FinishLease
  <2>4. ASSUME NEW j \in Job, NEW t, NEW n, NEW to, NEW c, NEW x, NEW e,
               SuspendLease(j, n, to, x, e, t) \/ CommitWorkerResult(j, n, to, c, x, e, t)
        PROVE  jobs'[i].env = jobs[i].env
    BY <2>3, <2>4 DEF SuspendLease, CommitWorkerResult
  <2>5. QED
    BY <1>5, <2>1, <2>2, <2>4 DEF LateLeaseStep
<1>6. CASE LateFenceStep
  <2>1. ASSUME NEW j \in Job, NEW n, NEW t, NEW p, NEW gen,
               \/ FencePreemptibleLease(j, n, p, t) \/ FenceLease(j, n, t)
               \/ CancelPreemptionFence(j, n, gen)
        PROVE  jobs' = jobs
    BY <2>1 DEF FencePreemptibleLease, FenceLease, Fence, CancelPreemptionFence
  <2>2. ASSUME NEW j \in Job, NEW n, NEW gen, NEW p,
               \/ ResolvePreemptedLease(j, n, gen, p)
               \/ MarkPreemptionRecoveryRequired(j, n, gen)
               \/ ResolveFencedLease(j, n, gen)
        PROVE  jobs'[i].env = jobs[i].env
    BY <1>2, <1>3, <2>2 DEF ResolvePreemptedLease, MarkPreemptionRecoveryRequired,
                            ResolveFencedLease
  <2>3. QED
    BY <1>1, <1>6, <2>1, <2>2 DEF LateFenceStep
<1>7. QED
  BY <1>1, <1>4, <1>5, <1>6 DEF LateNext, Tick, vars

\* The attempts that count against max_attempts.
Counted(j) == {n \in 1 .. MaxAttemptNo : attempts[j][n].status \notin {"none", "preempted"}}

LEMMA CountedFinite ==
  ASSUME NEW j \in Job, NEW S, S \subseteq 1 .. MaxAttemptNo
  PROVE  IsFiniteSet(S) /\ Cardinality(S) \in Nat
<1>1. 1 \in Int /\ MaxAttemptNo \in Int
  BY BoundsAssumption
<1>2. IsFiniteSet(1 .. MaxAttemptNo)
  BY <1>1, FS_Interval
<1>3. IsFiniteSet(S)
  BY <1>2, FS_Subset
<1>4. QED
  BY <1>3, FS_CardinalityType

LEMMA BudgetStep ==
  ASSUME IInv, BudgetKept, [LateNext]_vars
  PROVE  BudgetKept'
<1> SUFFICES ASSUME NEW j \in Job, Exists(j)'
             PROVE  Spent(j)' <= jobs'[j].env.maxAttempts
  BY DEF BudgetKept
<1>1. /\ Counted(j) \subseteq 1 .. MaxAttemptNo /\ Counted(j)' \subseteq 1 .. MaxAttemptNo
      /\ Spent(j) = Cardinality(Counted(j)) /\ Spent(j)' = Cardinality(Counted(j)')
  BY DEF Counted, Spent
<1>2. IsFiniteSet(Counted(j)) /\ Spent(j) \in Nat /\ Spent(j)' \in Nat
  BY <1>1, CountedFinite
<1>3. jobs'[j].env.maxAttempts \in Nat
  BY LateSound, EnvelopeAssumption DEF IInv, TypeOK, Row, EnvelopeType
<1>4. CASE ~Exists(j)
  <2>1. \A n \in Numbers : attempts[j][n] = NoAttempt
    BY <1>4, BoundsAssumption DEF IInv, JobSound, RowSound, Exists, Numbers
  <2>2. \A n \in Numbers : attempts'[j][n] = attempts[j][n]
    BY <1>4, <2>1, AttemptSteps DEF AttemptStep, Exists, NoAttempt, OpenAttempt
  <2>3. Counted(j)' = {}
    BY <2>1, <2>2 DEF Counted, Numbers, NoAttempt
  <2>4. QED
    BY <1>1, <1>3, <2>3, FS_EmptySet
<1>5. CASE Exists(j)
  <2>1. jobs'[j].env = jobs[j].env /\ Spent(j) <= jobs[j].env.maxAttempts
    BY <1>5, EnvelopeKept DEF BudgetKept
  <2>2. CASE \A n \in Numbers : attempts'[j][n] # attempts[j][n] =>
                 attempts[j][n].status \in OpenAttempt
    <3>1. Counted(j)' \subseteq Counted(j)
      BY <2>2 DEF Counted, Numbers, OpenAttempt
    <3>2. Spent(j)' <= Spent(j)
      BY <1>1, <1>2, <3>1, FS_Subset
    <3>3. QED
      BY <1>2, <1>3, <2>1, <3>2
  <2>3. CASE /\ Spent(j) < jobs[j].env.maxAttempts
             /\ \A n \in Numbers : attempts'[j][n] # attempts[j][n] =>
                    n = jobs[j].attemptCount + 1
    <3> DEFINE m == jobs[j].attemptCount + 1
               T == Counted(j) \cup {m}
    <3>1. Counted(j)' \subseteq T
      BY <2>3 DEF Counted, Numbers
    <3> HIDE DEF m
    <3>2. IsFiniteSet(T) /\ Cardinality(T) <= Spent(j) + 1
      <4>1. IsFiniteSet(T) /\ Cardinality(T) = IF m \in Counted(j) THEN Cardinality(Counted(j))
                                               ELSE Cardinality(Counted(j)) + 1
        BY <1>2, FS_AddElement
      <4>2. QED
        BY <1>1, <1>2, <4>1
    <3>3. Spent(j)' <= Spent(j) + 1
      <4>1. Cardinality(T) \in Nat /\ Spent(j)' <= Cardinality(T)
        BY <1>1, <3>1, <3>2, FS_Subset, FS_CardinalityType
      <4>2. QED
        BY <1>2, <3>2, <4>1
    <3>4. QED
      BY <1>2, <1>3, <2>1, <2>3, <3>3
  <2>4. QED
    BY <2>2, <2>3, AttemptSteps DEF AttemptStep
<1>6. QED
  BY <1>4, <1>5

\* Preemptions, expiries and requeues together never spend more attempts than
\* max_attempts.
THEOREM BudgetHolds == Spec => []BudgetKept
<1>1. Init => BudgetKept
  <2> SUFFICES ASSUME Init, NEW j \in Job PROVE ~Exists(j)
    BY DEF BudgetKept
  <2>1. jobs[j] = AbsentRow
    BY DEF Init
  <2>2. QED
    BY <2>1 DEF Exists, AbsentRow, NewRow
<1>2. IInv /\ BudgetKept /\ [LateNext]_vars => BudgetKept'
  BY BudgetStep
<1>3. QED
  BY <1>1, <1>2, NextIsLate, Invariance, PTL DEF Spec
=============================================================================
