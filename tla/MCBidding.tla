------------------------------ MODULE MCBidding ------------------------------
(* An instance of Bidding for TLC: one task, two requests and the scan.    *)
EXTENDS Bidding, TLC
=============================================================================
