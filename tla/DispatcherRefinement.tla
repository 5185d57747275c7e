------------------------ MODULE DispatcherRefinement ------------------------
(***************************************************************************)
(* What the ledger promises its callers, kept with the dispatcher as the   *)
(* caller: a dispatcher step is one operation of the ledger or none, so    *)
(* the contract and the action properties of the ledger hold of the whole  *)
(* system, through its crashes, its failed kills and its old timestamps.   *)
(* And what the dispatcher promises on top of it, WorkerContract.          *)
(***************************************************************************)
EXTENDS DispatcherProofs, JobLedgerRefinement

LEMMA SystemStep ==
  ASSUME Base, [DNext]_dvars
  PROVE  IInv /\ [LateNext]_vars
  BY LedgerOperation DEF Base

\* The ledger sees nothing of the dispatcher but its own operations, one
\* transaction at a time, whatever the processes do in between.
THEOREM OnlyLedgerOperations == DSpec => [][LateNext]_vars
<1>1. Base /\ [DNext]_dvars => [LateNext]_vars
  BY SystemStep
<1>2. QED
  BY <1>1, BaseStart, BaseKept, PTL DEF DSpec

-----------------------------------------------------------------------------
(* The lease contract.                                                      *)

LEMMA ContractStart == DInit => Contract!Init
<1> SUFFICES ASSUME DInit PROVE Contract!Init
  OBVIOUS
<1>1. ASSUME NEW j \in Job
      PROVE  leases[j].attempt = 0 /\ Fenced(j) = FALSE /\ jobs[j].attemptCount = 0
  BY DEF DInit, NoLease, NewRow, Fenced
<1>2. ASSUME NEW j \in Job PROVE Conclusion(j) = "pending"
  <2>1. jobs[j].status \in {"needs_confirmation", "queued"}
    BY DEF DInit, NewRow
  <2>2. QED
    BY <2>1 DEF Conclusion, Terminal
<1>3. QED
  BY <1>1, <1>2 DEF Contract!Init

\* With the dispatcher as its caller the ledger still implements the lease
\* contract: a job has one owner at a time, owners are numbered in order, a
\* fenced owner commits nothing and an outcome is final.
THEOREM DispatcherContract == DSpec => ImplementsContract
<1>1. Base /\ [DNext]_dvars => [Contract!Next]_(Contract!vars)
  BY SystemStep, ContractStep
<1>2. QED
  BY <1>1, ContractStart, BaseStart, BaseKept, PTL
  DEF DSpec, ImplementsContract, Contract!Spec

-----------------------------------------------------------------------------
(* What a step may never do.                                               *)

\* No call, however late it settles, changes a job that is over.
THEOREM DispatcherTerminal == DSpec => TerminalIsFinal
<1>1. Base /\ [DNext]_dvars =>
        [\A j \in Job : jobs[j].status \in Terminal => jobs'[j] = jobs[j]]_vars
  BY SystemStep, TerminalStep
<1>2. QED
  BY <1>1, BaseStart, BaseKept, PTL DEF DSpec, TerminalIsFinal

\* No call rewrites the outcome of an attempt that ended, its own included.
THEOREM DispatcherHistory == DSpec => ClosedAttemptIsFinal
<1>1. Base /\ [DNext]_dvars =>
        [\A j \in Job, n \in Numbers :
           attempts[j][n].status \notin OpenAttempt \cup {"none"} =>
               attempts'[j][n] = attempts[j][n]]_vars
  BY SystemStep, ClosedAttemptStep
<1>2. QED
  BY <1>1, BaseStart, BaseKept, PTL DEF DSpec, ClosedAttemptIsFinal

\* A worker's result that meets a fence changes nothing, whether the fence is
\* of this call, of an earlier one or of an earlier core.
THEOREM DispatcherFence == DSpec => FencedResultRejected
<1>1. Base /\ [DNext]_dvars => [Rejecting]_vars
  BY SystemStep, FencedStep
<1>2. QED
  BY <1>1, BaseStart, BaseKept, PTL DEF DSpec, FencedResultRejected, Rejecting

\* No path of the dispatcher, preemption, expiry and failed start included,
\* requeues a job that may have written something.
THEOREM DispatcherWrites == DSpec => WriteNeverAutoRequeued
<1>1. Base /\ [DNext]_dvars => [Withholding]_vars
  BY SystemStep, WriteStep
<1>2. QED
  BY <1>1, BaseStart, BaseKept, PTL DEF DSpec, WriteNeverAutoRequeued, Withholding

\* However calls fail and cores restart, the attempts that were not refunded
\* stay within max_attempts.
THEOREM DispatcherBudget == DSpec => []BudgetKept
<1>1. DInit => BudgetKept
  <2> SUFFICES ASSUME DInit, NEW j \in Job PROVE Spent(j) <= jobs[j].env.maxAttempts
    BY DEF BudgetKept
  <2>1. \A n \in Numbers : attempts[j][n].status = "none"
    BY DEF DInit, NoAttempt
  <2>2. Counted(j) = {}
    BY <2>1 DEF Counted, Numbers
  <2>3. Spent(j) = 0
    BY <2>2, FS_EmptySet DEF Spent, Counted
  <2>4. jobs[j].env.maxAttempts \in Nat
    BY LedgerStart, EnvelopeAssumption DEF IInv, TypeOK, Row, EnvelopeType
  <2>5. QED
    BY <2>3, <2>4
<1>2. Base /\ BudgetKept /\ [DNext]_dvars => BudgetKept'
  BY SystemStep, BudgetStep
<1>3. QED
  BY <1>1, <1>2, BaseStart, BaseKept, PTL DEF DSpec

-----------------------------------------------------------------------------
(* The worker contract.                                                     *)

\* A step that touches processes launches one, ends one or ends them all, and
\* is not a step of the ledger.
LEMMA ProcessStep ==
  ASSUME DTypeOK, [DNext]_dvars
  PROVE  \/ table' = table /\ alive' = alive
         \/ StartWorker
         \/ \E j \in Job : Reap(j) /\ UNCHANGED vars
         \/ \E j \in Job : WorkerExits(j)
         \/ \E j \in Job, n \in Numbers : OrphanEnds(j, n)
         \/ \E killed \in BOOLEAN : Restart(killed)
<1> DEFINE Same == table' = table /\ alive' = alive
           Killed == \E j \in Job : Reap(j) /\ UNCHANGED vars
<1>1. CASE Dispatch
  BY <1>1 DEF Dispatch, Begin
<1>2. CASE Proceed
  <2>1. CASE DrainVictim \/ KillUnbound \/ KillFenced
    <3>1. op.job \in Job /\ op.victim \in Job
      BY <2>1, OpFields DEF DrainVictim, KillUnbound, KillFenced, At
    <3>2. Killed
      BY <2>1, <3>1 DEF DrainVictim, KillUnbound, KillFenced
    <3>3. QED
      BY <3>2
  <2>2. CASE NoVictimLeft \/ FenceVictim \/ RefuseVictim \/ RequeueVictim \/ Mark
             \/ StartRefused \/ CommitUnbound \/ Resolve
             \/ FenceHeld("expire", "kill") \/ FenceHeld("fence", "resolve")
    BY <2>2 DEF NoVictimLeft, FenceVictim, RefuseVictim, RequeueVictim, Mark, StartRefused,
                CommitUnbound, Resolve, FenceHeld
  <2>3. ASSUME NEW t \in Stamps,
               StartFails(t) \/ Bind(t) \/ Settle(t) \/ CommitResult(t) \/ CommitTooLate(t)
        PROVE  Same
    BY <2>3 DEF StartFails, Bind, Settle, CommitResult, CommitTooLate
  <2>4. QED
    BY <1>2, <2>1, <2>2, <2>3 DEF Proceed
<1>3. CASE Failure
  BY <1>3 DEF Failure, DrainFails, RequeueFails, MarkFails, KillUnboundFails,
              KillFencedFails, LedgerRaises, BindFails
<1>4. CASE Handle
  <2>1. PICK j \in Job : Watch(j) \/ PollTimedOut(j) \/ \E t \in Stamps : Heartbeat(j, t)
    BY <1>4 DEF Handle
  <2>2. CASE PollExited(j) \/ PollTimedOut(j)
    BY <2>2 DEF PollExited, PollTimedOut
  <2>3. CASE \E t \in Stamps : Expire(j, t) \/ Heartbeat(j, t)
    BY <2>3 DEF Expire, Heartbeat
  <2>4. QED
    BY <2>1, <2>2, <2>3 DEF Watch
<1>5. CASE Environment
  BY <1>5 DEF Environment, Api, DTick, own
<1>6. CASE UNCHANGED dvars
  BY <1>6 DEF dvars, own
<1>7. QED
  BY <1>1, <1>2, <1>3, <1>4, <1>5, <1>6 DEF DNext

\* A call comes to the start of its worker by marking the job running, and
\* nothing happens to the leases until it goes on.
LEMMA StartStep ==
  ASSUME DTypeOK, [DNext]_dvars, op'.pc = "start"
  PROVE  Mark \/ (op' = op /\ leases' = leases)
<1> USE DEF At
<1>1. ASSUME op.pc # "idle", NEW pc, pc # "start", Goto(pc) \/ \E t : GotoAt(pc, t)
      PROVE  FALSE
  BY <1>1, Moves
<1>2. ~Return
  BY DEF Return, Idle
<1>3. CASE Dispatch
  BY <1>3 DEF Dispatch, Begin
<1>4. CASE Proceed
  <2>1. ASSUME NoVictimLeft \/ RefuseVictim \/ DrainVictim \/ RequeueVictim \/ StartWorker
               \/ StartRefused \/ KillUnbound \/ KillFenced
               \/ FenceHeld("expire", "kill") \/ FenceHeld("fence", "resolve")
        PROVE  FALSE
    BY <1>1, <2>1 DEF NoVictimLeft, RefuseVictim, DrainVictim, RequeueVictim, StartWorker,
                      StartRefused, KillUnbound, KillFenced, FenceHeld
  <2>2. ASSUME FenceVictim PROVE FALSE
    <3>1. op \in Call
      BY <2>2, OpTyped DEF FenceVictim
    <3>2. op'.pc = "drain"
      BY <2>2, <3>1 DEF FenceVictim, Call
    <3>3. QED
      BY <3>2
  <2>3. ASSUME CommitUnbound \/ Resolve \/ \E t \in Stamps : Bind(t) \/ CommitResult(t)
        PROVE  FALSE
    BY <1>1, <1>2, <2>3 DEF CommitUnbound, Resolve, Bind, CommitResult, Conflict
  <2>4. ASSUME NEW t \in Stamps, StartFails(t) \/ Settle(t) \/ CommitTooLate(t)
        PROVE  FALSE
    BY <1>1, <1>2, <2>4 DEF StartFails, Settle, CommitTooLate, Conflict
  <2>5. QED
    BY <1>4, <2>1, <2>2, <2>3, <2>4 DEF Proceed
<1>5. CASE Failure
  <2>1. ASSUME DrainFails \/ RequeueFails \/ MarkFails \/ \E t \in Stamps : BindFails(t)
        PROVE  FALSE
    BY <1>1, <2>1 DEF DrainFails, RequeueFails, MarkFails, BindFails
  <2>2. QED
    BY <1>2, <1>5, <2>1 DEF Failure, KillUnboundFails, KillFencedFails, LedgerRaises
<1>6. CASE Handle
  BY <1>6 DEF Handle, Watch, PollExited, PollTimedOut, Expire, Heartbeat, Handled, CallFor
<1>7. CASE Environment
  <2>1. CASE Api \/ DTick
    BY <2>1 DEF Api, ConfirmJob, TransitionJob, DTick, Tick, own
  <2>2. CASE \E j \in Job : WorkerExits(j) \/ \E n \in Numbers : OrphanEnds(j, n)
    BY <2>2 DEF WorkerExits, OrphanEnds, vars
  <2>3. CASE \E killed \in BOOLEAN : Restart(killed)
    BY <2>3 DEF Restart, Idle
  <2>4. QED
    BY <1>7, <2>1, <2>2, <2>3 DEF Environment
<1>8. CASE UNCHANGED dvars
  BY <1>8 DEF dvars, own, vars
<1>9. QED
  BY <1>3, <1>4, <1>5, <1>6, <1>7, <1>8 DEF DNext

\* A worker the supervisor knows and has not seen exit is there, and a call
\* about to start one holds a lease that nobody fenced.
Backed == \A j \in Job : table[j].n # 0 /\ ~table[j].exited => <<j, table[j].n>> \in alive
Unbarred == op.pc = "start" => ~Fenced(op.job)

LEMMA BackedStep ==
  ASSUME Base, Backed, [DNext]_dvars
  PROVE  Backed'
<1> SUFFICES ASSUME NEW i \in Job, table'[i].n # 0, ~table'[i].exited
             PROVE  <<i, table'[i].n>> \in alive'
  BY DEF Backed
<1>1. CASE table' = table /\ alive' = alive
  BY <1>1 DEF Backed
<1>2. CASE StartWorker
  BY <1>2 DEF StartWorker, Backed, Base, DTypeOK
<1>3. ASSUME NEW j \in Job, Reap(j) PROVE <<i, table'[i].n>> \in alive'
  BY <1>3 DEF Reap, NoWorker, Backed, Base, DTypeOK
<1>4. ASSUME NEW j \in Job, WorkerExits(j) PROVE <<i, table'[i].n>> \in alive'
  <2>1. table'[i] = table[i] /\ i # j
    BY <1>4 DEF WorkerExits, Base, DTypeOK
  <2>2. QED
    BY <1>4, <2>1 DEF WorkerExits, Backed
<1>5. ASSUME NEW j \in Job, NEW n \in Numbers, OrphanEnds(j, n)
      PROVE  <<i, table'[i].n>> \in alive'
  BY <1>5 DEF OrphanEnds, Owns, Backed
<1>6. ASSUME NEW killed \in BOOLEAN, Restart(killed) PROVE <<i, table'[i].n>> \in alive'
  BY <1>6 DEF Restart, NoWorker
<1>7. QED
  BY <1>1, <1>2, <1>3, <1>4, <1>5, <1>6, ProcessStep DEF Base

LEMMA UnbarredStep ==
  ASSUME Base, Unbarred, [DNext]_dvars
  PROVE  Unbarred'
<1> SUFFICES ASSUME op'.pc = "start" PROVE ~Fenced(op.job)' 
  BY DEF Unbarred
<1>1. CASE Mark
  <2>1. op'.job = op.job
    BY <1>1, Moves DEF Mark, At, Base
  <2>2. leases' = leases /\ ~Fenced(op.job)
    BY <1>1 DEF Mark, MarkRunning, HeldBy
  <2>3. QED
    BY <2>1, <2>2 DEF Fenced
<1>2. CASE op' = op /\ leases' = leases
  BY <1>2 DEF Unbarred, Fenced
<1>3. QED
  BY <1>1, <1>2, StartStep DEF Base

LEMMA AlwaysBacked == DSpec => [](Base /\ Held /\ Backed /\ Unbarred)
<1>1. DInit => Backed /\ Unbarred
  BY DEF DInit, Backed, Unbarred, NoWorker, Idle
<1>2. QED
  BY <1>1, BackedStep, UnbarredStep, BaseStart, BaseKept, HeldStart, HeldKept, PTL DEF DSpec

\* What the contract sees of a step that leaves the ledger alone.
LEMMA LedgerStays ==
  ASSUME UNCHANGED vars
  PROVE  UNCHANGED WorkerPromise!vars
  BY DEF vars, WorkerPromise!vars, Fenced, Conclusion

\* The lease part of the contract is the ledger's own.
LEMMA HandoverMap ==
  ASSUME Base, Held, Held', [Contract!Next]_(Contract!vars), alive' = alive
  PROVE  [WorkerPromise!WNext]_(WorkerPromise!wvars)
<1>1. CASE UNCHANGED Contract!vars
  BY <1>1 DEF Contract!vars, WorkerPromise!vars, WorkerPromise!wvars
<1>2. CASE Contract!Next
  <2>1. WorkerPromise!Next
    BY <1>2 DEF Contract!Next, Contract!Acquire, Contract!Bar, Contract!Unbar, Contract!Yield,
                Contract!Expire, Contract!Complete, Contract!Retire, Contract!Release,
                Contract!Owned, WorkerPromise!Next, WorkerPromise!Acquire, WorkerPromise!Bar,
                WorkerPromise!Unbar, WorkerPromise!Yield, WorkerPromise!Expire,
                WorkerPromise!Complete, WorkerPromise!Retire, WorkerPromise!Release,
                WorkerPromise!Owned
  <2>2. ASSUME NEW j \in Job, leases'[j].attempt # leases[j].attempt, NEW w \in alive, w[1] = j
        PROVE  FALSE
    <3>1. PICK n \in Numbers : w = <<j, n>>
      BY <2>2 DEF Base, DTypeOK
    <3>2. leases[j].attempt = n /\ leases'[j].attempt = n
      BY <1>2, <2>2, <3>1 DEF Held, JobHeld
    <3>3. QED
      BY <2>2, <3>2
  <2>3. WorkerPromise!Handover
    BY <2>1, <2>2 DEF WorkerPromise!Handover, WorkerPromise!Vacant
  <2>4. QED
    BY <2>3 DEF WorkerPromise!WNext
<1>3. QED
  BY <1>1, <1>2

LEMMA LaunchMap ==
  ASSUME Base, Held, Unbarred, StartWorker
  PROVE  WorkerPromise!WNext
<1>1. op.pc = "start" /\ op.job \in Job /\ op.n # 0
  BY OpFields DEF StartWorker, At, Base
<1>2. leases[op.job].attempt = op.n /\ Clear(op.job) /\ Fenced(op.job) = FALSE
  BY <1>1 DEF Held, CallSound, Unstarted, Unbarred, Fenced
<1>3. alive' = alive \cup {<<op.job, op.n>>} /\ UNCHANGED vars
  BY DEF StartWorker
<1>4. \A w \in alive : w[1] # op.job
  BY <1>2 DEF Clear, Base, DTypeOK
<1>5. WorkerPromise!Launch(op.job)
  BY <1>1, <1>2, <1>3, <1>4, LedgerStays
  DEF WorkerPromise!Launch, WorkerPromise!Owned, WorkerPromise!Vacant
<1>6. QED
  BY <1>1, <1>5 DEF WorkerPromise!WNext

LEMMA PromiseStep ==
  ASSUME Base, Held, Backed, Unbarred, [DNext]_dvars
  PROVE  [WorkerPromise!WNext]_(WorkerPromise!wvars)
<1>1. CASE alive' = alive
  BY <1>1, HeldKept, SystemStep, ContractStep, HandoverMap
<1>2. ASSUME UNCHANGED vars, alive' \subseteq alive
      PROVE  [WorkerPromise!WNext]_(WorkerPromise!wvars)
  BY <1>2, LedgerStays DEF WorkerPromise!WNext, WorkerPromise!Exit
<1>3. CASE StartWorker
  BY <1>3, LaunchMap
<1>4. CASE \E j \in Job : Reap(j) /\ UNCHANGED vars
  BY <1>2, <1>4 DEF Reap
<1>5. ASSUME NEW j \in Job, WorkerExits(j) PROVE UNCHANGED vars /\ alive' \subseteq alive
  BY <1>5 DEF WorkerExits, Backed
<1>6. ASSUME NEW j \in Job, NEW n \in Numbers, OrphanEnds(j, n)
      PROVE  UNCHANGED vars /\ alive' \subseteq alive
  BY <1>6 DEF OrphanEnds
<1>7. ASSUME NEW killed \in BOOLEAN, Restart(killed)
      PROVE  UNCHANGED vars /\ alive' \subseteq alive
  BY <1>7 DEF Restart
<1>8. QED
  BY <1>1, <1>2, <1>3, <1>4, <1>5, <1>6, <1>7, ProcessStep DEF Base

\* Through every failure, preemption and crash, a job changes hands only when no
\* process of its last owner is left, and no fenced owner launches one.
THEOREM WorkersExclusive == DSpec => ImplementsWorkerContract
<1>1. DInit => WorkerPromise!WInit
  <2>1. DInit => WorkerPromise!Init
    BY ContractStart DEF Contract!Init, WorkerPromise!Init
  <2>2. QED
    BY <2>1 DEF DInit, WorkerPromise!WInit
<1>2. Base /\ Held /\ Backed /\ Unbarred /\ [DNext]_dvars
        => [WorkerPromise!WNext]_(WorkerPromise!wvars)
  BY PromiseStep
<1>3. QED
  BY <1>1, <1>2, AlwaysBacked, PTL DEF DSpec, ImplementsWorkerContract, WorkerPromise!WSpec
=============================================================================
