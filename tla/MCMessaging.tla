---------------------------- MODULE MCMessaging ----------------------------
(* Small instances of Messaging for TLC.                                     *)
(*                                                                           *)
(* Threads: two posts of one inbound message of a group and two sends to the *)
(* same group, one of which spells a number differently; one viewer.         *)
(* Inbound: two posts of one inbound message, a send to a group its sender   *)
(* is in, a webhook for a number nobody has, and two exceptions.             *)
EXTENDS Messaging, TLC

CONSTANTS s1, s2, d1, d2, d3, m1, m2, line1, u1

Plain == {"+1 555 0100", "15550100"}
InstanceDigits == [n \in Plain \cup {"+15550199"} |->
    IF n \in Plain THEN "15550100" ELSE "15550199"]

ThreadsMessageId == [d \in Deliveries |-> m1]
ThreadsLine == [t \in Txns |-> line1]
ThreadsTo == [t \in Txns |->
    IF t = s2 THEN {"+1 555 0100", "+15550199"} ELSE {"15550100", "+15550199"}]

\* The posts of one message are alike.
DeliverySymmetry == Permutations(Deliveries)

InboundMessageId == [d \in Deliveries |-> IF d = d3 THEN m2 ELSE m1]
InboundLine == [t \in Txns |-> IF t = d3 THEN NoLine ELSE line1]
InboundTo == [t \in Txns |->
    IF t = s1 THEN {"+1 555 0100", "+15550199"} ELSE {"15550100"}]

=============================================================================
