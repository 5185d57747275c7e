---------------------------- MODULE MCJobLedger -----------------------------
(***************************************************************************)
(* Small instances of JobLedger for TLC.  The envelopes are chosen one per *)
(* class of job the ledger tells apart: a preemptible heavy reader with    *)
(* retries, a writing job with retries, and a dangerous interactive job.   *)
(***************************************************************************)
EXTENDS JobLedger

Reader == [effect |-> "read_only", priority |-> "P2", heavy |-> TRUE,
           maxAttempts |-> 2, notBefore |-> 0, latestStart |-> 2,
           deadline |-> 3, key |-> NoKey, token |-> NoToken, tokenExpires |-> 0]

Draft == [Reader EXCEPT !.effect = "local_draft", !.key = "draft"]

Commit == [effect |-> "external_commit", priority |-> "P1", heavy |-> FALSE,
           maxAttempts |-> 2, notBefore |-> 0, latestStart |-> 2,
           deadline |-> 3, key |-> "commit",
           token |-> CHOOSE k \in Token : TRUE, tokenExpires |-> 2]

AllEnvelopes == {Reader, Draft, Commit}
=============================================================================
