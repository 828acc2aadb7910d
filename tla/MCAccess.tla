------------------------------ MODULE MCAccess ------------------------------
(* A small instance of Access for TLC: one lead, one caller with an          *)
(* extension, two lines, two departments, two divisions and two groups; one  *)
(* line and one department may be of another tenant.                         *)
EXTENDS Access, TLC

CONSTANTS n1, n2, d1, d2

Symmetry == Permutations(Divisions) \cup Permutations(Groups)

=============================================================================
