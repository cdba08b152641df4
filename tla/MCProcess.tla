----------------------------- MODULE MCProcess -----------------------------
(***************************************************************************)
(* Instances of Process for TLC: one tick is 5 s of the timers of a request,  *)
(* and 2.5 s of the start's.                                                 *)
(***************************************************************************)
EXTENDS Process, TLC

RequestSymmetry == Permutations(Requests)

=============================================================================
