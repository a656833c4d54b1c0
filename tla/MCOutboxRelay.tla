----------------------------- MODULE MCOutboxRelay -----------------------------
(***************************************************************************)
(* An instance of OutboxRelay for TLC.                                     *)
(***************************************************************************)
EXTENDS OutboxRelay

=============================================================================
