------------------------------ MODULE MCOutbox ------------------------------
(* Small instances of Outbox for TLC.                                        *)
(*                                                                           *)
(* Dispatch: two overlapping executions of the task share the rows of two    *)
(* requests, two rows of one and one of the other, with a batch smaller than *)
(* the backlog and one crash; nobody is connected.                           *)
(* Delivery: one request with an event for the group of an admitted          *)
(* connection and one for another group, a connection that is turned away,   *)
(* and a channel that holds one message: a republished event overflows it.   *)
EXTENDS Outbox, TLC

CONSTANTS r1, r2, e1, e2, e3, g1, g2

DispatchRequestOf == [e \in Events |-> IF e = e3 THEN r2 ELSE r1]
DispatchTarget == [e \in Events |-> g1]

DeliveryRequestOf == [e \in Events |-> r1]
DeliveryTarget == [e \in Events |-> IF e = e1 THEN g1 ELSE g2]
DeliveryGroupOf == [c \in Conns |-> g1]

WorkerSymmetry == Permutations(Workers)

=============================================================================
