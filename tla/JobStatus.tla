------------------------------ MODULE JobStatus ------------------------------
(***************************************************************************)
(* The job state machine of magi_v3/state.py: the statuses a ledger row    *)
(* may carry, which of them are final, and the table every checked status  *)
(* change is looked up in.  A constant module: it has no variables.        *)
(***************************************************************************)

Status ==
    {"queued", "leased", "running", "waiting_children", "awaiting_input",
     "needs_confirmation", "succeeded", "degraded", "failed", "deferred",
     "skipped", "cancelled", "timed_out"}

Terminal ==
    {"succeeded", "degraded", "failed", "skipped", "cancelled", "timed_out"}

\* Mutant: a failed job may be put back in the queue.
RetryFailedAllowedFrom(s) ==
    CASE s = "queued"  -> {"leased", "deferred", "skipped", "cancelled"}
      [] s = "leased"  -> {"running", "queued", "deferred",
                           "needs_confirmation", "cancelled", "timed_out"}
      [] s = "running" -> {"waiting_children", "awaiting_input",
                           "needs_confirmation", "succeeded", "degraded",
                           "failed", "deferred", "cancelled", "timed_out"}
      [] s \in {"deferred", "failed"} -> {"queued", "cancelled"}
      [] OTHER -> {}

\* ALLOWED_TRANSITIONS, one row per status that can be left.
AllowedFrom(s) ==
    CASE s = "queued"  -> {"leased", "deferred", "skipped", "cancelled"}
      [] s = "leased"  -> {"running", "queued", "deferred",
                           "needs_confirmation", "cancelled", "timed_out"}
      [] s = "running" -> {"waiting_children", "awaiting_input",
                           "needs_confirmation", "succeeded", "degraded",
                           "failed", "deferred", "cancelled", "timed_out"}
      [] s = "waiting_children" -> {"queued", "succeeded", "degraded",
                                    "failed", "cancelled", "timed_out"}
      [] s \in {"awaiting_input", "needs_confirmation"} ->
                          {"queued", "cancelled", "timed_out"}
      [] s = "deferred" -> {"queued", "cancelled"}
      [] OTHER -> {}

\* ensure_transition: the table, and no success that is not a business success.
CanTransition(from, to, completed) ==
    /\ to \in AllowedFrom(from)
    /\ to = "succeeded" => completed

\* The statuses whose row carries finished_at: the final ones and deferred.
Finished == Terminal \cup {"deferred"}

\* The statuses that carry an error payload whenever they are reached.
NeedsError == {"failed", "timed_out"}
=============================================================================
