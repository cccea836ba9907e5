----------------------------- MODULE MCRequest -----------------------------
(* Model checking of Request.                                              *)
EXTENDS RequestRefinement, TLC

CONSTANTS c1, c2, countries, subdivisions, holidays

Calls == Permutations({c1, c2})
=============================================================================
