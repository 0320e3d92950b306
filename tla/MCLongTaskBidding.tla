-------------------------- MODULE MCLongTaskBidding --------------------------
(* An instance of LongTaskBidding for TLC: one task and its workspaces.    *)
EXTENDS LongTaskBidding
AllOperations == {"publish", "submit", "selectBid", "rejectAll", "close",
                  "expire", "cancel", "specTimeout", "reopen"}
=============================================================================
