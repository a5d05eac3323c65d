------------------------------ MODULE MCOutbox ------------------------------
(* Model checking of Outbox.                                               *)
EXTENDS Outbox
=============================================================================
