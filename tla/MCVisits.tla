------------------------------ MODULE MCVisits ------------------------------
(***************************************************************************)
(* The instance of Visits for TLC.                                           *)
(***************************************************************************)
EXTENDS Visits, TLC

VisitSymmetry == Permutations(Tokens) \cup Permutations(Buys)

=============================================================================
