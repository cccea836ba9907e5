------------------------- MODULE RequestRefinement -------------------------
(***************************************************************************)
(* Request implements CallContract: calls that share a cache, a jitter     *)
(* source and a hook look to their callers as if each were alone.          *)
(***************************************************************************)
EXTENDS Request

(* The refinement mapping. *)
PhaseOf(p) ==
    CASE p = "idle" -> "idle"
      [] p \in {"top", "randLock", "backoff", "sleepEnter", "sleep"} -> "ready"
      [] p \in {"cacheGet", "net", "fill", "cachePut", "hook"} -> "trying"
      [] p \in {"judge", "post"} -> "tried"
      [] p = "done" -> "returned"

\* What a response or an error to the query q amounts to.
VerdictOf(q, r, e) ==
    [of        |-> IF r # None THEN r.body.of ELSE q,
     how       |-> CASE e # None -> "failure"
                     [] e = None /\ r.status >= 400 -> "status"
                     [] OTHER -> "answer",
     transient |-> ShouldRetry(r, e)]

Phase   == [c \in Call |-> PhaseOf(pc[c])]
Ended   == [c \in Call |-> Done(c)]
Reached == [c \in Call |-> IF pc[c] \in {"judge", "post"}
                           THEN VerdictOf(query[c], resp[c], err[c]) ELSE None]

\* The hook counts the tries, as it does for those who install one.
Contract == INSTANCE CallContract
    WITH NoVerdict <- None, phase <- Phase, ended <- Ended, tries <- hooks, verdict <- Reached

\* However calls share the Client, and whatever the network does, each of them
\* keeps the promise of a call alone: cache, jitter mutex, siblings and the
\* closing of bodies are invisible (request.go:63-282, transport_cache.go:114-207).
ImplementsCallContract == Contract!CallSpec
=============================================================================
