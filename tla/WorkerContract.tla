--------------------------- MODULE WorkerContract ---------------------------
(***************************************************************************)
(* What the dispatcher promises about the worker processes of a job, on    *)
(* top of what the ledger promises about its leases: a process runs only   *)
(* for the attempt that owns the job, it is launched only while that       *)
(* attempt may still report, and a job changes hands only when nothing of  *)
(* its last owner runs any more.  Processes may end at any time, of many   *)
(* jobs at once, and so may the core; the promise survives both.           *)
(***************************************************************************)
EXTENDS LeaseContract

VARIABLE running  \* the process groups that exist, <<job, attempt>>

wvars == <<vars, running>>

WInit == Init /\ running = {}

Vacant(j) == \A w \in running : w[1] # j

\* The lease moves; of a job with a process only the fence may.
Handover ==
    /\ UNCHANGED running
    /\ \A j \in Job : owner'[j] # owner[j] => Vacant(j)
    /\ Next

Launch(j) ==
    /\ running' = running \cup {<<j, owner[j]>>}
    /\ Owned(j) /\ ~barred[j] /\ Vacant(j)
    /\ UNCHANGED vars

\* Some processes end or are killed.
Exit == running' \subseteq running /\ UNCHANGED vars

WNext == Exit \/ (\E j \in Job : Launch(j)) \/ Handover

WSpec == WInit /\ [][WNext]_wvars
=============================================================================
