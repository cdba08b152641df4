---------------------------- MODULE MCEndpoints ----------------------------
(***************************************************************************)
(* An instance of Endpoints for TLC: every request, and every outcome.        *)
(***************************************************************************)
EXTENDS Endpoints

=============================================================================
