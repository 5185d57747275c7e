--------------------------- MODULE LeaseContract ----------------------------
(***************************************************************************)
(* What the ledger promises to the workers of a job, whatever its tables   *)
(* look like: at most one owner at a time, owners numbered in order and    *)
(* never twice, a barred owner cannot complete anything, and a job that    *)
(* has an outcome is never owned again.  JobLedger implements this module. *)
(***************************************************************************)
EXTENDS Naturals

CONSTANTS Job, Outcome, Pending, Expired

VARIABLES
    owner,    \* the number of the attempt that owns the job, 0 if none
    issued,   \* the last number issued
    barred,   \* the owner lost the right to report
    outcome   \* Pending until the job is over

vars == <<owner, issued, barred, outcome>>

Init ==
    /\ owner = [j \in Job |-> 0]
    /\ issued = [j \in Job |-> 0]
    /\ barred = [j \in Job |-> FALSE]
    /\ outcome = [j \in Job |-> Pending]

Owned(j) == owner[j] # 0

Acquire(j) ==
    /\ ~Owned(j) /\ outcome[j] = Pending
    /\ owner' = [owner EXCEPT ![j] = issued[j] + 1]
    /\ issued' = [issued EXCEPT ![j] = issued[j] + 1]
    /\ UNCHANGED <<barred, outcome>>

Bar(j) ==
    /\ Owned(j) /\ ~barred[j]
    /\ barred' = [barred EXCEPT ![j] = TRUE]
    /\ UNCHANGED <<owner, issued, outcome>>

Unbar(j) ==
    /\ Owned(j) /\ barred[j]
    /\ barred' = [barred EXCEPT ![j] = FALSE]
    /\ UNCHANGED <<owner, issued, outcome>>

Release(j) ==
    /\ Owned(j)
    /\ owner' = [owner EXCEPT ![j] = 0]
    /\ barred' = [barred EXCEPT ![j] = FALSE]
    /\ UNCHANGED issued

\* The owner gives the job back unfinished, or is made to.
Yield(j) == Release(j) /\ UNCHANGED outcome

\* Only an owner that is not barred reports an outcome.
Complete(j, o) ==
    /\ ~barred[j] /\ Release(j)
    /\ outcome' = [outcome EXCEPT ![j] = o]

\* A barred owner leaves nothing but a timeout.
Expire(j) ==
    /\ barred[j] /\ Release(j)
    /\ outcome' = [outcome EXCEPT ![j] = Expired]

\* A job nobody owns is ended from outside.
Retire(j, o) ==
    /\ ~Owned(j) /\ outcome[j] = Pending
    /\ outcome' = [outcome EXCEPT ![j] = o]
    /\ UNCHANGED <<owner, issued, barred>>

Next ==
    \E j \in Job :
        \/ Acquire(j) \/ Bar(j) \/ Unbar(j) \/ Yield(j) \/ Expire(j)
        \/ \E o \in Outcome : Complete(j, o) \/ Retire(j, o)

Spec == Init /\ [][Next]_vars
=============================================================================
