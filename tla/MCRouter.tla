------------------------------ MODULE MCRouter ------------------------------
(* Model-checking instance of Router: a fallback chain of two providers. *)
EXTENDS Router

CONSTANTS p, q

ChainPQ == <<p, q>>
=============================================================================
