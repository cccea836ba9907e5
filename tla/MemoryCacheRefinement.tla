----------------------- MODULE MemoryCacheRefinement -----------------------
(***************************************************************************)
(* MemoryCache implements TTLMap: an entry that has expired but has not    *)
(* been swept is one that the abstract map no longer has.                  *)
(***************************************************************************)
EXTENDS MemoryCache

(* The refinement mapping. *)
Visible(e) == IF e # NoEntry /\ ~Expired(e, now) THEN e ELSE NoEntry

Live   == [k \in Key |-> Visible(entries[k])]
View   == [t \in Thread |-> IF pc[t] = "getCheck" THEN Visible(got[t]) ELSE NoEntry]
Answer == [t \in Thread |-> IF pc[t] = "getRet" THEN got[t] ELSE NoEntry]

Contract == INSTANCE TTLMap WITH live <- Live, view <- View, answer <- Answer

\* Whatever the interleaving of callers, sweeper, Close and clock, callers see
\* the abstract map: eviction, laziness and locking are invisible (cache.go:156-261).
ImplementsTTLMap == Contract!MapSpec
=============================================================================
