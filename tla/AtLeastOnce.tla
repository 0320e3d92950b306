---------------------------- MODULE AtLeastOnce ----------------------------
(***************************************************************************)
(* What the comments of webhook-dispatcher.service.ts and of               *)
(* notification-dispatcher.service.ts promise of an outbox: a message that *)
(* was taken on is tried until its receiver accepts it, refuses it, or has *)
(* failed to answer Limit times.  It may be received more than once, and   *)
(* may be tried again after it was settled; but it is called delivered     *)
(* only if it was, and given up only for a reason.                         *)
(***************************************************************************)
EXTENDS Integers

CONSTANTS Messages, Limit

VARIABLES
    box,        \* where each message stands
    delivered,  \* messages that reached their receiver at least once
    refused,    \* messages that the receiver refused
    tries       \* how often each was tried, up to Limit

vars == <<box, delivered, refused, tries>>

Boxes == {"absent", "skipped", "pending", "success", "dead"}
Tried(m) == IF tries[m] < Limit THEN tries[m] + 1 ELSE Limit

Init ==
    /\ box = [m \in Messages |-> "absent"]
    /\ delivered = {}
    /\ refused = {}
    /\ tries = [m \in Messages |-> 0]

Take(m) ==
    /\ box[m] = "absent"
    /\ \E s \in {"pending", "skipped"} : box' = [box EXCEPT ![m] = s]
    /\ UNCHANGED <<delivered, refused, tries>>

\* A message reaches its receiver, or is refused, or neither.
Try(m) ==
    /\ box[m] \notin {"absent", "skipped"}
    /\ tries' = [tries EXCEPT ![m] = Tried(m)]
    /\ \/ delivered' \in {delivered, delivered \cup {m}} /\ UNCHANGED refused
       \/ refused' = refused \cup {m} /\ UNCHANGED delivered
    /\ UNCHANGED box

Settle(m) ==
    /\ box[m] \notin {"absent", "skipped"}
    /\ \/ box' = [box EXCEPT ![m] = "pending"]
       \/ m \in delivered /\ box' = [box EXCEPT ![m] = "success"]
       \/ /\ m \in refused \/ tries[m] = Limit
          /\ box' = [box EXCEPT ![m] = "dead"]
    /\ UNCHANGED <<delivered, refused, tries>>

Next == \E m \in Messages : Take(m) \/ Try(m) \/ Settle(m)

Spec == Init /\ [][Next]_vars
=============================================================================
