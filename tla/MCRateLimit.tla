---------------------------- MODULE MCRateLimit ----------------------------
(* Model-checking instance of RateLimit: requests are interchangeable. *)
EXTENDS RateLimit, TLC

Symmetry == Permutations(Requests)
=============================================================================
