---------------------------- MODULE MCRateLimiter ----------------------------
(***************************************************************************)
(* An instance of RateLimiter for TLC: interchangeable peers.                *)
(***************************************************************************)
EXTENDS RateLimiter, TLC

PeerSymmetry == Permutations(Peers)

=============================================================================
