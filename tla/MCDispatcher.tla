---------------------------- MODULE MCDispatcher ----------------------------
(***************************************************************************)
(* Small instances of Dispatcher for TLC: a preemptible heavy reader with  *)
(* two attempts and a dangerous interactive job that may push it aside.     *)
(***************************************************************************)
EXTENDS Dispatcher

CONSTANT lightJob

Reader == [effect |-> "read_only", priority |-> "P3", heavy |-> TRUE,
           maxAttempts |-> 2, notBefore |-> 0, latestStart |-> 2,
           deadline |-> 3, key |-> NoKey, token |-> NoToken, tokenExpires |-> 0]

Commit == [Reader EXCEPT !.effect = "external_commit", !.priority = "P1",
                         !.heavy = FALSE, !.maxAttempts = 1, !.key = "commit",
                         !.token = CHOOSE k \in Token : TRUE, !.tokenExpires = 2]

ReaderAndCommit == [j \in Job |-> IF j = lightJob THEN Commit ELSE Reader]

\* Success with and without a receipt, and one answer that suspends the job.
Success == [target |-> "succeeded", completed |-> TRUE, receipts |-> TRUE, error |-> FALSE]
SomeVerdicts ==
    {Success, [Success EXCEPT !.receipts = FALSE],
     [Success EXCEPT !.target = "needs_confirmation", !.completed = FALSE]}

BothEnvelopes == {Reader, Commit}
=============================================================================
