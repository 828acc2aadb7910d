-------------------------- MODULE MCTelephonySync --------------------------
(* Small instances of TelephonySync for TLC: an extension the provider       *)
(* creates, changes and deletes or changes again, a second one that is only  *)
(* created, and requests that assign either of them.                         *)
EXTENDS TelephonySync, TLC

CONSTANTS x1, x2, u1, u2, a1, a2

InstanceMaxOps == [o \in Objects |-> IF o = x1 THEN 3 ELSE 1]

UserSymmetry == Permutations(Users) \cup Permutations(Requests)

=============================================================================
