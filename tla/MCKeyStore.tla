----------------------------- MODULE MCKeyStore -----------------------------
(* Model-checking instance of KeyStore: hashes and calls are interchangeable. *)
EXTENDS KeyStore, TLC

Symmetry == Permutations(Keys) \cup Permutations(Ops)
=============================================================================
