------------------------------- MODULE MCChat -------------------------------
(* Model-checking instance of Chat: one key may ask everything, the other    *)
(* has a fallback chain and may ask one question.                            *)
EXTENDS Chat, TLC

CONSTANTS a, b, x, y

PermittedAB == [k \in Keys |-> IF k = a THEN {x, y} ELSE {x}]

Symmetry == Permutations(Requests)
=============================================================================
