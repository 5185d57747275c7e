------------------------------ MODULE MCOutbox ------------------------------
(* The instance of Outbox that MCOutbox.cfg checks. *)
EXTENDS Outbox
=============================================================================
