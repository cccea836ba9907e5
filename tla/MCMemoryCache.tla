--------------------------- MODULE MCMemoryCache ---------------------------
(* Model checking of MemoryCache and of its refinement of TTLMap.          *)
EXTENDS MemoryCacheRefinement, TLC

Symmetric == Permutations(Thread) \union Permutations(Key) \union Permutations(Value)
=============================================================================
