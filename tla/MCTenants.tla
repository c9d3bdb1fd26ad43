----------------------------- MODULE MCTenants ------------------------------
(* Model-checking instance of Tenants. *)
EXTENDS Tenants, TLC

Symmetric == Permutations(Orgs) \cup Permutations(Teams) \cup Permutations(Keys) \cup Permutations(Ops)
=============================================================================
