------------------------------ MODULE MCOutbox ------------------------------
(* Instances of Outbox for TLC: two overlapping ticks, up to three rows.   *)
EXTENDS Outbox
=============================================================================
