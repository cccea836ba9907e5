--------------------------- MODULE RequestProofs ---------------------------
(***************************************************************************)
(* Proofs about Request for every set of calls and requests, every number  *)
(* of attempts, with and without cache and timeout.                        *)
(*                                                                         *)
(* IInv says, point by point of a call, how often it has tried (Counted),  *)
(* which body it must still close (Bodies), and whose answer it holds      *)
(* (Answers); and of what the calls share, that the jitter source has one  *)
(* user (Jitter) and that the cache holds whole answers.  The properties   *)
(* follow, then the refinement of CallContract, action by action, and the  *)
(* bound on the steps of a call.                                           *)
(***************************************************************************)
EXTENDS RequestRefinement, TLAPS

USE QueryAssumption, AttemptAssumption, SwitchAssumption, StatusAssumption, NoneAssumption

\* Where a call holds no response that it still answers for.
Quiet == {"idle", "top", "cacheGet", "net", "randLock", "backoff", "sleepEnter", "sleep", "done"}

InAttempt == {"idle", "top", "cacheGet", "net", "fill", "cachePut", "hook"}
Between   == {"randLock", "backoff", "sleepEnter", "sleep"}

Counted(c) ==
    /\ pc[c] \in InAttempt => ran[c] = attempt[c] /\ hooks[c] = attempt[c]
    /\ pc[c] = "judge" => ran[c] = attempt[c] /\ hooks[c] = attempt[c] + 1
    /\ pc[c] \in Between => /\ ran[c] = attempt[c] + 1 /\ hooks[c] = attempt[c] + 1
                            /\ attempt[c] < Attempts - 1
    /\ pc[c] \in {"post", "done"} => hooks[c] = ran[c]

\* Between the network and the end of the attempt at most one body is open,
\* that of the response at hand.
Bodies(c) ==
    /\ pc[c] \in Quiet => open[c] = {}
    /\ pc[c] = "fill" => resp[c] # None /\ open[c] = {ThisBody(c)}
    /\ pc[c] = "cachePut" => resp[c] # None /\ open[c] = {} /\ resp[c].buffered
    /\ pc[c] \in {"hook", "judge", "post"} =>
          /\ resp[c] = None => open[c] = {} /\ err[c] # None
          /\ resp[c] # None => open[c] \subseteq {resp[c].n}
          /\ resp[c] # None /\ err[c] = None => resp[c].buffered \/ resp[c].n \in open[c]

\* What a call is handed belongs to its request; what it is about to store is
\* a whole 200.
Answers(c) ==
    /\ resp[c] # None => resp[c].body.of = query[c]
    /\ pc[c] \in {"fill", "cachePut"} =>
          /\ CacheConsulted(c)
          /\ resp[c] # None /\ resp[c].body.status = 200
    /\ pc[c] = "cachePut" => resp[c].body.kind \in {"data", "empty", "malformed"}

\* Exactly the calls that compute a delay hold the mutex, and it admits one.
Jitter ==
    /\ \A c \in Call : pc[c] = "backoff" => c \in randMu
    /\ \A c, d \in randMu : c = d

IInv ==
    /\ TypeOK
    /\ \A c \in Call : Counted(c) /\ Bodies(c) /\ Answers(c)
    /\ Jitter
    /\ CacheHoldsWholeAnswers

\* A call makes at least one attempt (request.go:92-95).
LEMMA AttemptsType == Attempts \in Nat /\ Attempts >= 1
  BY DEF Attempts

\* The invariant holds before the first call.
LEMMA InitIInv == Init => IInv
  BY AttemptsType DEF Init, IInv, TypeOK, Pc, Result, Counted, Bodies, Answers, Jitter,
     CacheHoldsWholeAnswers, InAttempt, Between, Quiet

\* What the network or the cache hands up is a response, never None.
Fetched(s, b, i) == [status |-> s, body |-> b, buffered |-> FALSE, n |-> i]
Cached(b, i)     == [status |-> 200, body |-> b, buffered |-> TRUE, n |-> i]

\* What the network answers is a response.
LEMMA FetchedType ==
  ASSUME NEW s \in Nat, NEW b \in Body, NEW i \in 1..Attempts
  PROVE  /\ Fetched(s, b, i) \in Response /\ Fetched(s, b, i) # None
         /\ Fetched(s, b, i).body = b /\ Fetched(s, b, i).n = i
<1>1. Fetched(s, b, i) \in Response
  BY DEF Response, Fetched
<1> QED  BY <1>1 DEF Fetched

\* What is made of a cache hit is a response.
LEMMA CachedType ==
  ASSUME NEW b \in Body, NEW i \in 1..Attempts
  PROVE  /\ Cached(b, i) \in Response /\ Cached(b, i) # None
         /\ Cached(b, i).body = b /\ Cached(b, i).buffered
<1>1. Cached(b, i) \in Response
  BY DEF Response, Cached
<1> QED  BY <1>1 DEF Cached

\* Attempts number their bodies from one.
LEMMA ThisBodyType == ASSUME TypeOK, NEW c \in Call PROVE ThisBody(c) \in 1..Attempts
  BY AttemptsType DEF TypeOK, ThisBody

\* A response that is read ahead stays the response it was.
LEMMA ReadAhead ==
  ASSUME NEW r \in Response
  PROVE  /\ [r EXCEPT !.buffered = TRUE] \in Response
         /\ [r EXCEPT !.buffered = TRUE] # None
         /\ [r EXCEPT !.buffered = TRUE].buffered
         /\ [r EXCEPT !.buffered = TRUE].body = r.body
  BY DEF Response

\* Every step keeps the types; the counters need Counted to stay in range.
LEMMA TypeStep == ASSUME IInv, [Next]_vars PROVE TypeOK'
<1> USE AttemptsType DEF IInv, TypeOK, Pc, Result, loopVars, respVars, sideVars
<1>1. ASSUME NEW c \in Call, Start(c) PROVE TypeOK'
  BY <1>1 DEF Start, Goto
<1>2. ASSUME NEW c \in Call, StartInvalid(c) PROVE TypeOK'
  BY <1>2 DEF StartInvalid, Goto, Return
<1>3. ASSUME NEW c \in Call, Cancel(c) PROVE TypeOK'
  BY <1>3 DEF Cancel
<1>4. ASSUME NEW c \in Call, Expire(c) PROVE TypeOK'
  BY <1>4 DEF Expire
<1>5. ASSUME NEW c \in Call, LoopTopDone(c) PROVE TypeOK'
  BY <1>5 DEF LoopTopDone, Goto, Return
<1>6. ASSUME NEW c \in Call, Dispatch(c) PROVE TypeOK'
  BY <1>6 DEF Dispatch, Goto
<1>7. ASSUME NEW c \in Call, CacheHit(c) PROVE TypeOK'
<2> DEFINE r == Cached(cache[cacheKey(query[c])], ThisBody(c))
<2>1. cache[cacheKey(query[c])] \in Body /\ 200 \in Nat
  BY <1>7 DEF CacheHit, cacheKey
<2>2. ThisBody(c) \in 1..Attempts
  BY ThisBodyType
<2>3. /\ r \in Response /\ r # None /\ r.buffered /\ r.body = cache[cacheKey(query[c])]
  BY <2>1, <2>2, CachedType
<2>4. resp' = [resp EXCEPT ![c] = r] /\ err' = [err EXCEPT ![c] = None]
      /\ open' = [open EXCEPT ![c] = open[c]]
  BY <1>7 DEF CacheHit, Outcome, Cached
<2> HIDE DEF r
<2> QED  BY <1>7, <2>2, <2>3, <2>4 DEF CacheHit, Goto
<1>8. ASSUME NEW c \in Call, CacheMiss(c) PROVE TypeOK'
  BY <1>8 DEF CacheMiss, Goto
<1>9. ASSUME NEW c \in Call, NetAnswer(c) PROVE TypeOK'
<2>1. PICK s \in Status, k \in Kind :
          /\ Goto(c, "net", IF MayFill(c, s) THEN "fill" ELSE "hook")
          /\ Outcome(c, [status |-> s, body |-> [of |-> query[c], status |-> s, kind |-> k],
                         buffered |-> FALSE, n |-> ThisBody(c)],
                     None, open[c] \union {ThisBody(c)})
  BY <1>9 DEF NetAnswer
<2> DEFINE b == [of |-> query[c], status |-> s, kind |-> k]
          r == Fetched(s, b, ThisBody(c))
<2>2. b \in Body /\ s \in Nat /\ b.of = query[c] /\ b.status = s
  BY DEF Body
<2>3. ThisBody(c) \in 1..Attempts
  BY ThisBodyType
<2>4. resp' = [resp EXCEPT ![c] = r] /\ err' = [err EXCEPT ![c] = None]
      /\ open' = [open EXCEPT ![c] = open[c] \union {ThisBody(c)}]
  BY <2>1 DEF Outcome, Fetched
<2> HIDE DEF b
<2>5. /\ r \in Response
  BY <2>2, <2>3, FetchedType
<2> HIDE DEF r
<2> QED  BY <1>9, <2>1, <2>3, <2>4, <2>5 DEF NetAnswer, Goto
<1>10. ASSUME NEW c \in Call, NetError(c) PROVE TypeOK'
  BY <1>10 DEF NetError, Goto, Outcome, Error
<1>11. ASSUME NEW c \in Call, NetRedirectRefused(c) PROVE TypeOK'
<2> DEFINE b == [of |-> query[c], status |-> 302, kind |-> "empty"]
          r == Fetched(302, b, ThisBody(c))
<2>1. b \in Body /\ 302 \in Nat
  BY DEF Body, Kind
<2>2. ThisBody(c) \in 1..Attempts
  BY ThisBodyType
<2>3. resp' = [resp EXCEPT ![c] = r] /\ err' = [err EXCEPT ![c] = "other"]
      /\ open' = [open EXCEPT ![c] = open[c]]
  BY <1>11 DEF NetRedirectRefused, Outcome, Fetched
<2> HIDE DEF b
<2>4. r \in Response /\ r # None
  BY <2>1, <2>2, FetchedType
<2> HIDE DEF r
<2> QED  BY <1>11, <2>2, <2>3, <2>4 DEF NetRedirectRefused, Goto, Error
<1>12. ASSUME NEW c \in Call, NetAbort(c) PROVE TypeOK'
  BY <1>12 DEF NetAbort, Goto, Outcome, Error
<1>13. ASSUME NEW c \in Call, FillWhole(c) PROVE TypeOK'
<2>1. resp[c] \in Response
  BY <1>13 DEF FillWhole, Goto, Bodies
<2> DEFINE r == [resp[c] EXCEPT !.buffered = TRUE]
<2>2. r \in Response /\ r # None /\ r.buffered /\ r.body = resp[c].body
  BY <2>1, ReadAhead
<2>3. resp' = [resp EXCEPT ![c] = r] /\ err' = [err EXCEPT ![c] = None] /\ open' = [open EXCEPT ![c] = open[c] \ {ThisBody(c)}]
  BY <1>13 DEF FillWhole, Outcome
<2> HIDE DEF r
<2> QED  BY <1>13, <2>2, <2>3 DEF FillWhole, Goto
<1>14. ASSUME NEW c \in Call, FillTooLarge(c) PROVE TypeOK'
  BY <1>14 DEF FillTooLarge, Goto, Outcome, Error
<1>15. ASSUME NEW c \in Call, FillCut(c) PROVE TypeOK'
  BY <1>15 DEF FillCut, Goto, Outcome, Error
<1>16. ASSUME NEW c \in Call, FillAbort(c) PROVE TypeOK'
  BY <1>16 DEF FillAbort, Goto, Outcome, Error
<1>17. ASSUME NEW c \in Call, CachePut(c) PROVE TypeOK'
<2>1. resp[c].body \in Body
  BY <1>17 DEF CachePut, Goto, Bodies, Response
<2> QED  BY <1>17, <2>1 DEF CachePut, Goto, cacheKey
<1>18. ASSUME NEW c \in Call, Hook(c) PROVE TypeOK'
<2>1. hooks[c] + 1 \in 0..Attempts
  BY <1>18 DEF Hook, Goto, Counted, InAttempt
<2> QED  BY <1>18, <2>1 DEF Hook, Goto
<1>19. ASSUME NEW c \in Call, JudgeFinal(c) PROVE TypeOK'
<2>1. attempt[c] + 1 \in 0..Attempts
  OBVIOUS
<2> QED  BY <1>19, <2>1 DEF JudgeFinal, Goto, Outcome
<1>20. ASSUME NEW c \in Call, JudgeRetry(c) PROVE TypeOK'
<2>1. attempt[c] + 1 \in 0..Attempts
  OBVIOUS
<2> QED  BY <1>20, <2>1 DEF JudgeRetry, Goto, Outcome
<1>21. ASSUME NEW c \in Call, RandLock(c) PROVE TypeOK'
  BY <1>21 DEF RandLock, Goto
<1>22. ASSUME NEW c \in Call, Backoff(c) PROVE TypeOK'
  BY <1>22 DEF Backoff, Goto
<1>23. ASSUME NEW c \in Call, SleepZero(c) PROVE TypeOK'
<2>1. attempt[c] + 1 \in 0..(Attempts - 1)
  BY <1>23 DEF SleepZero, NextAttempt, Goto, Counted, Between
<2> QED  BY <1>23, <2>1 DEF SleepZero, NextAttempt, Goto
<1>24. ASSUME NEW c \in Call, SleepBegin(c) PROVE TypeOK'
  BY <1>24 DEF SleepBegin, Goto
<1>25. ASSUME NEW c \in Call, SleepEnd(c) PROVE TypeOK'
<2>1. attempt[c] + 1 \in 0..(Attempts - 1)
  BY <1>25 DEF SleepEnd, NextAttempt, Goto, Counted, Between
<2> QED  BY <1>25, <2>1 DEF SleepEnd, NextAttempt, Goto
<1>26. ASSUME NEW c \in Call, SleepCancelled(c) PROVE TypeOK'
  BY <1>26 DEF SleepCancelled, Goto, Return
<1>27. ASSUME NEW c \in Call, PostError(c) PROVE TypeOK'
  BY <1>27 DEF PostError, Goto, Return
<1>28. ASSUME NEW c \in Call, PostStatus(c) PROVE TypeOK'
  BY <1>28 DEF PostStatus, Goto, Finish, Return
<1>29. ASSUME NEW c \in Call, PostDecode(c) PROVE TypeOK'
<2>1. resp[c] \in Response
  BY <1>29 DEF PostDecode, Bodies
<2>2. resp[c].body.kind \in Kind
  BY <2>1 DEF Response, Body
<2>3. PICK r \in Result : Finish(c, r)
  BY <1>29, <2>2 DEF PostDecode, Kind
<2> QED  BY <2>3 DEF Goto, Finish, Return
<1>30. ASSUME NEW c \in Call, PostDecodeAbort(c) PROVE TypeOK'
  BY <1>30 DEF PostDecodeAbort, Goto, Finish, Return
<1>31. ASSUME NEW q \in Query, CacheForget(q) PROVE TypeOK'
  BY <1>31 DEF CacheForget
<1>32. CASE UNCHANGED vars
  BY <1>32 DEF vars
<1> QED
  BY <1>1, <1>2, <1>3, <1>4, <1>5, <1>6, <1>7, <1>8, <1>9, <1>10, <1>11, <1>12, <1>13, <1>14,
     <1>15, <1>16, <1>17, <1>18, <1>19, <1>20, <1>21, <1>22, <1>23, <1>24, <1>25, <1>26, <1>27,
     <1>28, <1>29, <1>30, <1>31, <1>32 DEF Next, Begin, Context, LoopTop, CacheGet, Network,
     Fill, Judge, Sleep, Post

\* Attempts are counted where they end; the hook fires in each of them.
LEMMA CountedStep == ASSUME IInv, NEW d \in Call, [Next]_vars PROVE Counted(d)'
<1> USE AttemptsType DEF IInv, TypeOK, Counted, InAttempt, Between, loopVars, respVars, sideVars
<1>1. ASSUME NEW c \in Call, Start(c) PROVE Counted(d)'
  BY <1>1 DEF Start, Goto
<1>2. ASSUME NEW c \in Call, StartInvalid(c) PROVE Counted(d)'
  BY <1>2 DEF StartInvalid, Goto, Return
<1>3. ASSUME NEW c \in Call, Cancel(c) PROVE Counted(d)'
  BY <1>3 DEF Cancel
<1>4. ASSUME NEW c \in Call, Expire(c) PROVE Counted(d)'
  BY <1>4 DEF Expire
<1>5. ASSUME NEW c \in Call, LoopTopDone(c) PROVE Counted(d)'
  BY <1>5 DEF LoopTopDone, Goto, Return
<1>6. ASSUME NEW c \in Call, Dispatch(c) PROVE Counted(d)'
  BY <1>6 DEF Dispatch, Goto
<1>7. ASSUME NEW c \in Call, CacheHit(c) PROVE Counted(d)'
  BY <1>7 DEF CacheHit, Goto, Outcome
<1>8. ASSUME NEW c \in Call, CacheMiss(c) PROVE Counted(d)'
  BY <1>8 DEF CacheMiss, Goto
<1>9. ASSUME NEW c \in Call, NetAnswer(c) PROVE Counted(d)'
  BY <1>9 DEF NetAnswer, Goto, Outcome
<1>10. ASSUME NEW c \in Call, NetError(c) PROVE Counted(d)'
  BY <1>10 DEF NetError, Goto, Outcome
<1>11. ASSUME NEW c \in Call, NetRedirectRefused(c) PROVE Counted(d)'
  BY <1>11 DEF NetRedirectRefused, Goto, Outcome
<1>12. ASSUME NEW c \in Call, NetAbort(c) PROVE Counted(d)'
  BY <1>12 DEF NetAbort, Goto, Outcome
<1>13. ASSUME NEW c \in Call, FillWhole(c) PROVE Counted(d)'
  BY <1>13 DEF FillWhole, Goto, Outcome
<1>14. ASSUME NEW c \in Call, FillTooLarge(c) PROVE Counted(d)'
  BY <1>14 DEF FillTooLarge, Goto, Outcome
<1>15. ASSUME NEW c \in Call, FillCut(c) PROVE Counted(d)'
  BY <1>15 DEF FillCut, Goto, Outcome
<1>16. ASSUME NEW c \in Call, FillAbort(c) PROVE Counted(d)'
  BY <1>16 DEF FillAbort, Goto, Outcome
<1>17. ASSUME NEW c \in Call, CachePut(c) PROVE Counted(d)'
  BY <1>17 DEF CachePut, Goto
<1>18. ASSUME NEW c \in Call, Hook(c) PROVE Counted(d)'
  BY <1>18 DEF Hook, Goto
<1>19. ASSUME NEW c \in Call, JudgeFinal(c) PROVE Counted(d)'
  BY <1>19 DEF JudgeFinal, Goto
<1>20. ASSUME NEW c \in Call, JudgeRetry(c) PROVE Counted(d)'
  BY <1>20 DEF JudgeRetry, Goto, Outcome, RetryWanted, LastAttempt
<1>21. ASSUME NEW c \in Call, RandLock(c) PROVE Counted(d)'
  BY <1>21 DEF RandLock, Goto
<1>22. ASSUME NEW c \in Call, Backoff(c) PROVE Counted(d)'
  BY <1>22 DEF Backoff, Goto
<1>23. ASSUME NEW c \in Call, SleepZero(c) PROVE Counted(d)'
  BY <1>23 DEF SleepZero, Goto, NextAttempt
<1>24. ASSUME NEW c \in Call, SleepBegin(c) PROVE Counted(d)'
  BY <1>24 DEF SleepBegin, Goto
<1>25. ASSUME NEW c \in Call, SleepEnd(c) PROVE Counted(d)'
  BY <1>25 DEF SleepEnd, Goto, NextAttempt
<1>26. ASSUME NEW c \in Call, SleepCancelled(c) PROVE Counted(d)'
  BY <1>26 DEF SleepCancelled, Goto, Return
<1>27. ASSUME NEW c \in Call, PostError(c) PROVE Counted(d)'
  BY <1>27 DEF PostError, Goto, Return
<1>28. ASSUME NEW c \in Call, PostStatus(c) PROVE Counted(d)'
  BY <1>28 DEF PostStatus, Goto, Finish, Return
<1>29. ASSUME NEW c \in Call, PostDecode(c) PROVE Counted(d)'
  BY <1>29 DEF PostDecode, Goto, Finish, Return
<1>30. ASSUME NEW c \in Call, PostDecodeAbort(c) PROVE Counted(d)'
  BY <1>30 DEF PostDecodeAbort, Goto, Finish, Return
<1>31. ASSUME NEW q \in Query, CacheForget(q) PROVE Counted(d)'
  BY <1>31 DEF CacheForget
<1>32. CASE UNCHANGED vars
  BY <1>32 DEF vars
<1> QED
  BY <1>1, <1>2, <1>3, <1>4, <1>5, <1>6, <1>7, <1>8, <1>9, <1>10, <1>11, <1>12, <1>13, <1>14,
     <1>15, <1>16, <1>17, <1>18, <1>19, <1>20, <1>21, <1>22, <1>23, <1>24, <1>25, <1>26, <1>27,
     <1>28, <1>29, <1>30, <1>31, <1>32 DEF Next, Begin, Context, LoopTop, CacheGet, Network,
     Fill, Judge, Sleep, Post

\* A body is opened by the network only and closed before it is forgotten.
LEMMA BodiesStep == ASSUME IInv, NEW d \in Call, [Next]_vars PROVE Bodies(d)'
<1> USE AttemptsType DEF IInv, TypeOK, Bodies, Quiet, ThisBody, loopVars, respVars, sideVars
<1>1. ASSUME NEW c \in Call, Start(c) PROVE Bodies(d)'
  BY <1>1 DEF Start, Goto
<1>2. ASSUME NEW c \in Call, StartInvalid(c) PROVE Bodies(d)'
  BY <1>2 DEF StartInvalid, Goto, Return
<1>3. ASSUME NEW c \in Call, Cancel(c) PROVE Bodies(d)'
  BY <1>3 DEF Cancel
<1>4. ASSUME NEW c \in Call, Expire(c) PROVE Bodies(d)'
  BY <1>4 DEF Expire
<1>5. ASSUME NEW c \in Call, LoopTopDone(c) PROVE Bodies(d)'
  BY <1>5 DEF LoopTopDone, Goto, Return
<1>6. ASSUME NEW c \in Call, Dispatch(c) PROVE Bodies(d)'
  BY <1>6 DEF Dispatch, Goto
<1>7. ASSUME NEW c \in Call, CacheHit(c) PROVE Bodies(d)'
<2> DEFINE r == Cached(cache[cacheKey(query[c])], ThisBody(c))
<2>1. cache[cacheKey(query[c])] \in Body /\ 200 \in Nat
  BY <1>7 DEF CacheHit, cacheKey
<2>2. ThisBody(c) \in 1..Attempts
  BY ThisBodyType
<2>3. /\ r \in Response /\ r # None /\ r.buffered /\ r.body = cache[cacheKey(query[c])]
  BY <2>1, <2>2, CachedType
<2>4. resp' = [resp EXCEPT ![c] = r] /\ err' = [err EXCEPT ![c] = None]
      /\ open' = [open EXCEPT ![c] = open[c]]
  BY <1>7 DEF CacheHit, Outcome, Cached
<2> HIDE DEF r
<2> QED  BY <1>7, <2>2, <2>3, <2>4 DEF CacheHit, Goto
<1>8. ASSUME NEW c \in Call, CacheMiss(c) PROVE Bodies(d)'
  BY <1>8 DEF CacheMiss, Goto
<1>9. ASSUME NEW c \in Call, NetAnswer(c) PROVE Bodies(d)'
<2>1. PICK s \in Status, k \in Kind :
          /\ Goto(c, "net", IF MayFill(c, s) THEN "fill" ELSE "hook")
          /\ Outcome(c, [status |-> s, body |-> [of |-> query[c], status |-> s, kind |-> k],
                         buffered |-> FALSE, n |-> ThisBody(c)],
                     None, open[c] \union {ThisBody(c)})
  BY <1>9 DEF NetAnswer
<2> DEFINE b == [of |-> query[c], status |-> s, kind |-> k]
          r == Fetched(s, b, ThisBody(c))
<2>2. b \in Body /\ s \in Nat /\ b.of = query[c] /\ b.status = s
  BY DEF Body
<2>3. ThisBody(c) \in 1..Attempts
  BY ThisBodyType
<2>4. resp' = [resp EXCEPT ![c] = r] /\ err' = [err EXCEPT ![c] = None]
      /\ open' = [open EXCEPT ![c] = open[c] \union {ThisBody(c)}]
  BY <2>1 DEF Outcome, Fetched
<2> HIDE DEF b
<2>5. /\ r \in Response /\ r # None /\ r.n = ThisBody(c) /\ r.body = b
  BY <2>2, <2>3, FetchedType
<2> HIDE DEF r
<2> QED  BY <1>9, <2>1, <2>3, <2>4, <2>5 DEF NetAnswer, Goto
<1>10. ASSUME NEW c \in Call, NetError(c) PROVE Bodies(d)'
  BY <1>10 DEF NetError, Goto, Outcome, Error
<1>11. ASSUME NEW c \in Call, NetRedirectRefused(c) PROVE Bodies(d)'
<2> DEFINE b == [of |-> query[c], status |-> 302, kind |-> "empty"]
          r == Fetched(302, b, ThisBody(c))
<2>1. b \in Body /\ 302 \in Nat
  BY DEF Body, Kind
<2>2. ThisBody(c) \in 1..Attempts
  BY ThisBodyType
<2>3. resp' = [resp EXCEPT ![c] = r] /\ err' = [err EXCEPT ![c] = "other"]
      /\ open' = [open EXCEPT ![c] = open[c]]
  BY <1>11 DEF NetRedirectRefused, Outcome, Fetched
<2> HIDE DEF b
<2>4. r \in Response /\ r # None
  BY <2>1, <2>2, FetchedType
<2> HIDE DEF r
<2> QED  BY <1>11, <2>2, <2>3, <2>4 DEF NetRedirectRefused, Goto, Error
<1>12. ASSUME NEW c \in Call, NetAbort(c) PROVE Bodies(d)'
  BY <1>12 DEF NetAbort, Goto, Outcome, Error
<1>13. ASSUME NEW c \in Call, FillWhole(c) PROVE Bodies(d)'
<2>1. resp[c] \in Response
  BY <1>13 DEF FillWhole, Goto, Bodies
<2> DEFINE r == [resp[c] EXCEPT !.buffered = TRUE]
<2>2. r \in Response /\ r # None /\ r.buffered /\ r.body = resp[c].body
  BY <2>1, ReadAhead
<2>3. resp' = [resp EXCEPT ![c] = r] /\ err' = [err EXCEPT ![c] = None] /\ open' = [open EXCEPT ![c] = open[c] \ {ThisBody(c)}]
  BY <1>13 DEF FillWhole, Outcome
<2> HIDE DEF r
<2> QED  BY <1>13, <2>2, <2>3 DEF FillWhole, Goto
<1>14. ASSUME NEW c \in Call, FillTooLarge(c) PROVE Bodies(d)'
  BY <1>14 DEF FillTooLarge, Goto, Outcome, Error
<1>15. ASSUME NEW c \in Call, FillCut(c) PROVE Bodies(d)'
  BY <1>15 DEF FillCut, Goto, Outcome, Error
<1>16. ASSUME NEW c \in Call, FillAbort(c) PROVE Bodies(d)'
  BY <1>16 DEF FillAbort, Goto, Outcome, Error
<1>17. ASSUME NEW c \in Call, CachePut(c) PROVE Bodies(d)'
  BY <1>17 DEF CachePut, Goto
<1>18. ASSUME NEW c \in Call, Hook(c) PROVE Bodies(d)'
  BY <1>18 DEF Hook, Goto
<1>19. ASSUME NEW c \in Call, JudgeFinal(c) PROVE Bodies(d)'
  BY <1>19 DEF JudgeFinal, Goto
<1>20. ASSUME NEW c \in Call, JudgeRetry(c) PROVE Bodies(d)'
  BY <1>20 DEF JudgeRetry, Goto, Outcome
<1>21. ASSUME NEW c \in Call, RandLock(c) PROVE Bodies(d)'
  BY <1>21 DEF RandLock, Goto
<1>22. ASSUME NEW c \in Call, Backoff(c) PROVE Bodies(d)'
  BY <1>22 DEF Backoff, Goto
<1>23. ASSUME NEW c \in Call, SleepZero(c) PROVE Bodies(d)'
  BY <1>23 DEF SleepZero, Goto, NextAttempt
<1>24. ASSUME NEW c \in Call, SleepBegin(c) PROVE Bodies(d)'
  BY <1>24 DEF SleepBegin, Goto
<1>25. ASSUME NEW c \in Call, SleepEnd(c) PROVE Bodies(d)'
  BY <1>25 DEF SleepEnd, Goto, NextAttempt
<1>26. ASSUME NEW c \in Call, SleepCancelled(c) PROVE Bodies(d)'
  BY <1>26 DEF SleepCancelled, Goto, Return
<1>27. ASSUME NEW c \in Call, PostError(c) PROVE Bodies(d)'
  BY <1>27 DEF PostError, Goto, Return
<1>28. ASSUME NEW c \in Call, PostStatus(c) PROVE Bodies(d)'
  BY <1>28 DEF PostStatus, Goto, Finish, Return
<1>29. ASSUME NEW c \in Call, PostDecode(c) PROVE Bodies(d)'
  BY <1>29 DEF PostDecode, Goto, Finish, Return
<1>30. ASSUME NEW c \in Call, PostDecodeAbort(c) PROVE Bodies(d)'
  BY <1>30 DEF PostDecodeAbort, Goto, Finish, Return
<1>31. ASSUME NEW q \in Query, CacheForget(q) PROVE Bodies(d)'
  BY <1>31 DEF CacheForget
<1>32. CASE UNCHANGED vars
  BY <1>32 DEF vars
<1> QED
  BY <1>1, <1>2, <1>3, <1>4, <1>5, <1>6, <1>7, <1>8, <1>9, <1>10, <1>11, <1>12, <1>13, <1>14,
     <1>15, <1>16, <1>17, <1>18, <1>19, <1>20, <1>21, <1>22, <1>23, <1>24, <1>25, <1>26, <1>27,
     <1>28, <1>29, <1>30, <1>31, <1>32 DEF Next, Begin, Context, LoopTop, CacheGet, Network,
     Fill, Judge, Sleep, Post

\* A response is made for the query of its call, by the network or by the cache.
LEMMA AnswersStep == ASSUME IInv, NEW d \in Call, [Next]_vars PROVE Answers(d)'
<1> USE DEF IInv, TypeOK, Answers, CacheConsulted, loopVars, respVars, sideVars
<1>1. ASSUME NEW c \in Call, Start(c) PROVE Answers(d)'
  BY <1>1 DEF Start, Goto
<1>2. ASSUME NEW c \in Call, StartInvalid(c) PROVE Answers(d)'
  BY <1>2 DEF StartInvalid, Goto, Return
<1>3. ASSUME NEW c \in Call, Cancel(c) PROVE Answers(d)'
  BY <1>3 DEF Cancel
<1>4. ASSUME NEW c \in Call, Expire(c) PROVE Answers(d)'
  BY <1>4 DEF Expire
<1>5. ASSUME NEW c \in Call, LoopTopDone(c) PROVE Answers(d)'
  BY <1>5 DEF LoopTopDone, Goto, Return
<1>6. ASSUME NEW c \in Call, Dispatch(c) PROVE Answers(d)'
  BY <1>6 DEF Dispatch, Goto
<1>7. ASSUME NEW c \in Call, CacheHit(c) PROVE Answers(d)'
<2> DEFINE r == Cached(cache[cacheKey(query[c])], ThisBody(c))
<2>1. cache[cacheKey(query[c])] \in Body /\ 200 \in Nat
  BY <1>7 DEF CacheHit, cacheKey
<2>2. ThisBody(c) \in 1..Attempts
  BY ThisBodyType
<2>3. /\ r \in Response /\ r # None /\ r.buffered /\ r.body = cache[cacheKey(query[c])]
  BY <2>1, <2>2, CachedType
<2>4. resp' = [resp EXCEPT ![c] = r] /\ err' = [err EXCEPT ![c] = None]
      /\ open' = [open EXCEPT ![c] = open[c]]
  BY <1>7 DEF CacheHit, Outcome, Cached
<2> HIDE DEF r
<2>5. r.body.of = query[c]
  BY <1>7, <2>3 DEF CacheHit, cacheKey, CacheHoldsWholeAnswers
<2> QED  BY <1>7, <2>3, <2>4, <2>5 DEF CacheHit, Goto
<1>8. ASSUME NEW c \in Call, CacheMiss(c) PROVE Answers(d)'
  BY <1>8 DEF CacheMiss, Goto
<1>9. ASSUME NEW c \in Call, NetAnswer(c) PROVE Answers(d)'
<2>1. PICK s \in Status, k \in Kind :
          /\ Goto(c, "net", IF MayFill(c, s) THEN "fill" ELSE "hook")
          /\ Outcome(c, [status |-> s, body |-> [of |-> query[c], status |-> s, kind |-> k],
                         buffered |-> FALSE, n |-> ThisBody(c)],
                     None, open[c] \union {ThisBody(c)})
  BY <1>9 DEF NetAnswer
<2> DEFINE b == [of |-> query[c], status |-> s, kind |-> k]
          r == Fetched(s, b, ThisBody(c))
<2>2. b \in Body /\ s \in Nat /\ b.of = query[c] /\ b.status = s
  BY DEF Body
<2>3. ThisBody(c) \in 1..Attempts
  BY ThisBodyType
<2>4. resp' = [resp EXCEPT ![c] = r] /\ err' = [err EXCEPT ![c] = None]
      /\ open' = [open EXCEPT ![c] = open[c] \union {ThisBody(c)}]
  BY <2>1 DEF Outcome, Fetched
<2> HIDE DEF b
<2>5. /\ r \in Response /\ r # None /\ r.n = ThisBody(c) /\ r.body = b
  BY <2>2, <2>3, FetchedType
<2> HIDE DEF r
<2>6. r.body.of = query[c] /\ r.body.status = s
  BY <2>2, <2>5
<2> QED  BY <1>9, <2>1, <2>4, <2>5, <2>6 DEF NetAnswer, Goto, MayFill
<1>10. ASSUME NEW c \in Call, NetError(c) PROVE Answers(d)'
  BY <1>10 DEF NetError, Goto, Outcome
<1>11. ASSUME NEW c \in Call, NetRedirectRefused(c) PROVE Answers(d)'
  BY <1>11 DEF NetRedirectRefused, Goto, Outcome
<1>12. ASSUME NEW c \in Call, NetAbort(c) PROVE Answers(d)'
  BY <1>12 DEF NetAbort, Goto, Outcome
<1>13. ASSUME NEW c \in Call, FillWhole(c) PROVE Answers(d)'
<2>1. resp[c] \in Response
  BY <1>13 DEF FillWhole, Goto, Bodies
<2> DEFINE r == [resp[c] EXCEPT !.buffered = TRUE]
<2>2. r \in Response /\ r # None /\ r.buffered /\ r.body = resp[c].body
  BY <2>1, ReadAhead
<2>3. resp' = [resp EXCEPT ![c] = r] /\ err' = [err EXCEPT ![c] = None] /\ open' = [open EXCEPT ![c] = open[c] \ {ThisBody(c)}]
  BY <1>13 DEF FillWhole, Outcome
<2>4. r.body.of = query[c] /\ r.body.status = 200 /\ r.body.kind \in {"data", "empty", "malformed"}
  BY <1>13, <2>2 DEF FillWhole, Goto
<2> HIDE DEF r
<2> QED  BY <1>13, <2>2, <2>3, <2>4 DEF FillWhole, Goto
<1>14. ASSUME NEW c \in Call, FillTooLarge(c) PROVE Answers(d)'
  BY <1>14 DEF FillTooLarge, Goto, Outcome
<1>15. ASSUME NEW c \in Call, FillCut(c) PROVE Answers(d)'
  BY <1>15 DEF FillCut, Goto, Outcome
<1>16. ASSUME NEW c \in Call, FillAbort(c) PROVE Answers(d)'
  BY <1>16 DEF FillAbort, Goto, Outcome
<1>17. ASSUME NEW c \in Call, CachePut(c) PROVE Answers(d)'
  BY <1>17 DEF CachePut, Goto
<1>18. ASSUME NEW c \in Call, Hook(c) PROVE Answers(d)'
  BY <1>18 DEF Hook, Goto
<1>19. ASSUME NEW c \in Call, JudgeFinal(c) PROVE Answers(d)'
  BY <1>19 DEF JudgeFinal, Goto
<1>20. ASSUME NEW c \in Call, JudgeRetry(c) PROVE Answers(d)'
  BY <1>20 DEF JudgeRetry, Goto, Outcome
<1>21. ASSUME NEW c \in Call, RandLock(c) PROVE Answers(d)'
  BY <1>21 DEF RandLock, Goto
<1>22. ASSUME NEW c \in Call, Backoff(c) PROVE Answers(d)'
  BY <1>22 DEF Backoff, Goto
<1>23. ASSUME NEW c \in Call, SleepZero(c) PROVE Answers(d)'
  BY <1>23 DEF SleepZero, Goto, NextAttempt
<1>24. ASSUME NEW c \in Call, SleepBegin(c) PROVE Answers(d)'
  BY <1>24 DEF SleepBegin, Goto
<1>25. ASSUME NEW c \in Call, SleepEnd(c) PROVE Answers(d)'
  BY <1>25 DEF SleepEnd, Goto, NextAttempt
<1>26. ASSUME NEW c \in Call, SleepCancelled(c) PROVE Answers(d)'
  BY <1>26 DEF SleepCancelled, Goto, Return
<1>27. ASSUME NEW c \in Call, PostError(c) PROVE Answers(d)'
  BY <1>27 DEF PostError, Goto, Return
<1>28. ASSUME NEW c \in Call, PostStatus(c) PROVE Answers(d)'
  BY <1>28 DEF PostStatus, Goto, Finish, Return
<1>29. ASSUME NEW c \in Call, PostDecode(c) PROVE Answers(d)'
  BY <1>29 DEF PostDecode, Goto, Finish, Return
<1>30. ASSUME NEW c \in Call, PostDecodeAbort(c) PROVE Answers(d)'
  BY <1>30 DEF PostDecodeAbort, Goto, Finish, Return
<1>31. ASSUME NEW q \in Query, CacheForget(q) PROVE Answers(d)'
  BY <1>31 DEF CacheForget
<1>32. CASE UNCHANGED vars
  BY <1>32 DEF vars
<1> QED
  BY <1>1, <1>2, <1>3, <1>4, <1>5, <1>6, <1>7, <1>8, <1>9, <1>10, <1>11, <1>12, <1>13, <1>14,
     <1>15, <1>16, <1>17, <1>18, <1>19, <1>20, <1>21, <1>22, <1>23, <1>24, <1>25, <1>26, <1>27,
     <1>28, <1>29, <1>30, <1>31, <1>32 DEF Next, Begin, Context, LoopTop, CacheGet, Network,
     Fill, Judge, Sleep, Post

\* The mutex admits a call when it is free, and the call frees it.
LEMMA JitterStep == ASSUME IInv, [Next]_vars PROVE Jitter'
<1> USE DEF IInv, TypeOK, Jitter, loopVars, respVars, sideVars
<1>1. ASSUME NEW c \in Call, Start(c) PROVE Jitter'
  BY <1>1 DEF Start, Goto
<1>2. ASSUME NEW c \in Call, StartInvalid(c) PROVE Jitter'
  BY <1>2 DEF StartInvalid, Goto, Return
<1>3. ASSUME NEW c \in Call, Cancel(c) PROVE Jitter'
  BY <1>3 DEF Cancel
<1>4. ASSUME NEW c \in Call, Expire(c) PROVE Jitter'
  BY <1>4 DEF Expire
<1>5. ASSUME NEW c \in Call, LoopTopDone(c) PROVE Jitter'
  BY <1>5 DEF LoopTopDone, Goto, Return
<1>6. ASSUME NEW c \in Call, Dispatch(c) PROVE Jitter'
  BY <1>6 DEF Dispatch, Goto
<1>7. ASSUME NEW c \in Call, CacheHit(c) PROVE Jitter'
  BY <1>7 DEF CacheHit, Goto, Outcome
<1>8. ASSUME NEW c \in Call, CacheMiss(c) PROVE Jitter'
  BY <1>8 DEF CacheMiss, Goto
<1>9. ASSUME NEW c \in Call, NetAnswer(c) PROVE Jitter'
  BY <1>9 DEF NetAnswer, Goto, Outcome
<1>10. ASSUME NEW c \in Call, NetError(c) PROVE Jitter'
  BY <1>10 DEF NetError, Goto, Outcome
<1>11. ASSUME NEW c \in Call, NetRedirectRefused(c) PROVE Jitter'
  BY <1>11 DEF NetRedirectRefused, Goto, Outcome
<1>12. ASSUME NEW c \in Call, NetAbort(c) PROVE Jitter'
  BY <1>12 DEF NetAbort, Goto, Outcome
<1>13. ASSUME NEW c \in Call, FillWhole(c) PROVE Jitter'
  BY <1>13 DEF FillWhole, Goto, Outcome
<1>14. ASSUME NEW c \in Call, FillTooLarge(c) PROVE Jitter'
  BY <1>14 DEF FillTooLarge, Goto, Outcome
<1>15. ASSUME NEW c \in Call, FillCut(c) PROVE Jitter'
  BY <1>15 DEF FillCut, Goto, Outcome
<1>16. ASSUME NEW c \in Call, FillAbort(c) PROVE Jitter'
  BY <1>16 DEF FillAbort, Goto, Outcome
<1>17. ASSUME NEW c \in Call, CachePut(c) PROVE Jitter'
  BY <1>17 DEF CachePut, Goto
<1>18. ASSUME NEW c \in Call, Hook(c) PROVE Jitter'
  BY <1>18 DEF Hook, Goto
<1>19. ASSUME NEW c \in Call, JudgeFinal(c) PROVE Jitter'
  BY <1>19 DEF JudgeFinal, Goto
<1>20. ASSUME NEW c \in Call, JudgeRetry(c) PROVE Jitter'
  BY <1>20 DEF JudgeRetry, Goto, Outcome
<1>21. ASSUME NEW c \in Call, RandLock(c) PROVE Jitter'
  BY <1>21 DEF RandLock, Goto
<1>22. ASSUME NEW c \in Call, Backoff(c) PROVE Jitter'
  BY <1>22 DEF Backoff, Goto
<1>23. ASSUME NEW c \in Call, SleepZero(c) PROVE Jitter'
  BY <1>23 DEF SleepZero, Goto, NextAttempt
<1>24. ASSUME NEW c \in Call, SleepBegin(c) PROVE Jitter'
  BY <1>24 DEF SleepBegin, Goto
<1>25. ASSUME NEW c \in Call, SleepEnd(c) PROVE Jitter'
  BY <1>25 DEF SleepEnd, Goto, NextAttempt
<1>26. ASSUME NEW c \in Call, SleepCancelled(c) PROVE Jitter'
  BY <1>26 DEF SleepCancelled, Goto, Return
<1>27. ASSUME NEW c \in Call, PostError(c) PROVE Jitter'
  BY <1>27 DEF PostError, Goto, Return
<1>28. ASSUME NEW c \in Call, PostStatus(c) PROVE Jitter'
  BY <1>28 DEF PostStatus, Goto, Finish, Return
<1>29. ASSUME NEW c \in Call, PostDecode(c) PROVE Jitter'
  BY <1>29 DEF PostDecode, Goto, Finish, Return
<1>30. ASSUME NEW c \in Call, PostDecodeAbort(c) PROVE Jitter'
  BY <1>30 DEF PostDecodeAbort, Goto, Finish, Return
<1>31. ASSUME NEW q \in Query, CacheForget(q) PROVE Jitter'
  BY <1>31 DEF CacheForget
<1>32. CASE UNCHANGED vars
  BY <1>32 DEF vars
<1> QED
  BY <1>1, <1>2, <1>3, <1>4, <1>5, <1>6, <1>7, <1>8, <1>9, <1>10, <1>11, <1>12, <1>13, <1>14,
     <1>15, <1>16, <1>17, <1>18, <1>19, <1>20, <1>21, <1>22, <1>23, <1>24, <1>25, <1>26, <1>27,
     <1>28, <1>29, <1>30, <1>31, <1>32 DEF Next, Begin, Context, LoopTop, CacheGet, Network,
     Fill, Judge, Sleep, Post

\* Only CachePut stores, and what it stores is a whole 200 of its own request.
LEMMA CacheStep == ASSUME IInv, [Next]_vars PROVE CacheHoldsWholeAnswers'
<1> USE DEF IInv, TypeOK, CacheHoldsWholeAnswers, loopVars, respVars, sideVars
<1>1. ASSUME NEW c \in Call, Start(c) PROVE CacheHoldsWholeAnswers'
  BY <1>1 DEF Start, Goto
<1>2. ASSUME NEW c \in Call, StartInvalid(c) PROVE CacheHoldsWholeAnswers'
  BY <1>2 DEF StartInvalid, Goto, Return
<1>3. ASSUME NEW c \in Call, Cancel(c) PROVE CacheHoldsWholeAnswers'
  BY <1>3 DEF Cancel
<1>4. ASSUME NEW c \in Call, Expire(c) PROVE CacheHoldsWholeAnswers'
  BY <1>4 DEF Expire
<1>5. ASSUME NEW c \in Call, LoopTopDone(c) PROVE CacheHoldsWholeAnswers'
  BY <1>5 DEF LoopTopDone, Goto, Return
<1>6. ASSUME NEW c \in Call, Dispatch(c) PROVE CacheHoldsWholeAnswers'
  BY <1>6 DEF Dispatch, Goto
<1>7. ASSUME NEW c \in Call, CacheHit(c) PROVE CacheHoldsWholeAnswers'
  BY <1>7 DEF CacheHit, Goto, Outcome
<1>8. ASSUME NEW c \in Call, CacheMiss(c) PROVE CacheHoldsWholeAnswers'
  BY <1>8 DEF CacheMiss, Goto
<1>9. ASSUME NEW c \in Call, NetAnswer(c) PROVE CacheHoldsWholeAnswers'
  BY <1>9 DEF NetAnswer, Goto, Outcome
<1>10. ASSUME NEW c \in Call, NetError(c) PROVE CacheHoldsWholeAnswers'
  BY <1>10 DEF NetError, Goto, Outcome
<1>11. ASSUME NEW c \in Call, NetRedirectRefused(c) PROVE CacheHoldsWholeAnswers'
  BY <1>11 DEF NetRedirectRefused, Goto, Outcome
<1>12. ASSUME NEW c \in Call, NetAbort(c) PROVE CacheHoldsWholeAnswers'
  BY <1>12 DEF NetAbort, Goto, Outcome
<1>13. ASSUME NEW c \in Call, FillWhole(c) PROVE CacheHoldsWholeAnswers'
  BY <1>13 DEF FillWhole, Goto, Outcome
<1>14. ASSUME NEW c \in Call, FillTooLarge(c) PROVE CacheHoldsWholeAnswers'
  BY <1>14 DEF FillTooLarge, Goto, Outcome
<1>15. ASSUME NEW c \in Call, FillCut(c) PROVE CacheHoldsWholeAnswers'
  BY <1>15 DEF FillCut, Goto, Outcome
<1>16. ASSUME NEW c \in Call, FillAbort(c) PROVE CacheHoldsWholeAnswers'
  BY <1>16 DEF FillAbort, Goto, Outcome
<1>17. ASSUME NEW c \in Call, CachePut(c) PROVE CacheHoldsWholeAnswers'
  BY <1>17 DEF CachePut, Goto, cacheKey, Answers, CacheConsulted
<1>18. ASSUME NEW c \in Call, Hook(c) PROVE CacheHoldsWholeAnswers'
  BY <1>18 DEF Hook, Goto
<1>19. ASSUME NEW c \in Call, JudgeFinal(c) PROVE CacheHoldsWholeAnswers'
  BY <1>19 DEF JudgeFinal, Goto
<1>20. ASSUME NEW c \in Call, JudgeRetry(c) PROVE CacheHoldsWholeAnswers'
  BY <1>20 DEF JudgeRetry, Goto, Outcome
<1>21. ASSUME NEW c \in Call, RandLock(c) PROVE CacheHoldsWholeAnswers'
  BY <1>21 DEF RandLock, Goto
<1>22. ASSUME NEW c \in Call, Backoff(c) PROVE CacheHoldsWholeAnswers'
  BY <1>22 DEF Backoff, Goto
<1>23. ASSUME NEW c \in Call, SleepZero(c) PROVE CacheHoldsWholeAnswers'
  BY <1>23 DEF SleepZero, Goto, NextAttempt
<1>24. ASSUME NEW c \in Call, SleepBegin(c) PROVE CacheHoldsWholeAnswers'
  BY <1>24 DEF SleepBegin, Goto
<1>25. ASSUME NEW c \in Call, SleepEnd(c) PROVE CacheHoldsWholeAnswers'
  BY <1>25 DEF SleepEnd, Goto, NextAttempt
<1>26. ASSUME NEW c \in Call, SleepCancelled(c) PROVE CacheHoldsWholeAnswers'
  BY <1>26 DEF SleepCancelled, Goto, Return
<1>27. ASSUME NEW c \in Call, PostError(c) PROVE CacheHoldsWholeAnswers'
  BY <1>27 DEF PostError, Goto, Return
<1>28. ASSUME NEW c \in Call, PostStatus(c) PROVE CacheHoldsWholeAnswers'
  BY <1>28 DEF PostStatus, Goto, Finish, Return
<1>29. ASSUME NEW c \in Call, PostDecode(c) PROVE CacheHoldsWholeAnswers'
  BY <1>29 DEF PostDecode, Goto, Finish, Return
<1>30. ASSUME NEW c \in Call, PostDecodeAbort(c) PROVE CacheHoldsWholeAnswers'
  BY <1>30 DEF PostDecodeAbort, Goto, Finish, Return
<1>31. ASSUME NEW q \in Query, CacheForget(q) PROVE CacheHoldsWholeAnswers'
  BY <1>31 DEF CacheForget
<1>32. CASE UNCHANGED vars
  BY <1>32 DEF vars
<1> QED
  BY <1>1, <1>2, <1>3, <1>4, <1>5, <1>6, <1>7, <1>8, <1>9, <1>10, <1>11, <1>12, <1>13, <1>14,
     <1>15, <1>16, <1>17, <1>18, <1>19, <1>20, <1>21, <1>22, <1>23, <1>24, <1>25, <1>26, <1>27,
     <1>28, <1>29, <1>30, <1>31, <1>32 DEF Next, Begin, Context, LoopTop, CacheGet, Network,
     Fill, Judge, Sleep, Post

\* A retryable outcome leaves the loop with the last attempt only.
Spent(c) ==
    /\ pc[c] = "post" /\ ShouldRetry(resp[c], err[c]) => ran[c] = Attempts
    /\ pc[c] = "done" =>
          /\ result[c] = "apiExhausted" => ran[c] = Attempts
          /\ result[c] \in {"api", "failed", "exhausted"} /\ ShouldRetry(resp[c], err[c])
                => ran[c] = Attempts

\* After the loop nothing but the result is written; the loop is left for good on
\* an outcome that is not retried, or on the last attempt.
LEMMA SpentStep == ASSUME IInv, NEW d \in Call, Spent(d), [Next]_vars PROVE Spent(d)'
<1> USE AttemptsType DEF IInv, TypeOK, Spent, loopVars, respVars, sideVars
<1>1. ASSUME NEW c \in Call, Start(c) PROVE Spent(d)'
  BY <1>1 DEF Start, Goto
<1>2. ASSUME NEW c \in Call, StartInvalid(c) PROVE Spent(d)'
  BY <1>2 DEF StartInvalid, Goto, Return
<1>3. ASSUME NEW c \in Call, Cancel(c) PROVE Spent(d)'
  BY <1>3 DEF Cancel
<1>4. ASSUME NEW c \in Call, Expire(c) PROVE Spent(d)'
  BY <1>4 DEF Expire
<1>5. ASSUME NEW c \in Call, LoopTopDone(c) PROVE Spent(d)'
  BY <1>5 DEF LoopTopDone, Goto, Return
<1>6. ASSUME NEW c \in Call, Dispatch(c) PROVE Spent(d)'
  BY <1>6 DEF Dispatch, Goto
<1>7. ASSUME NEW c \in Call, CacheHit(c) PROVE Spent(d)'
  BY <1>7 DEF CacheHit, Goto, Outcome
<1>8. ASSUME NEW c \in Call, CacheMiss(c) PROVE Spent(d)'
  BY <1>8 DEF CacheMiss, Goto
<1>9. ASSUME NEW c \in Call, NetAnswer(c) PROVE Spent(d)'
  BY <1>9 DEF NetAnswer, Goto, Outcome
<1>10. ASSUME NEW c \in Call, NetError(c) PROVE Spent(d)'
  BY <1>10 DEF NetError, Goto, Outcome
<1>11. ASSUME NEW c \in Call, NetRedirectRefused(c) PROVE Spent(d)'
  BY <1>11 DEF NetRedirectRefused, Goto, Outcome
<1>12. ASSUME NEW c \in Call, NetAbort(c) PROVE Spent(d)'
  BY <1>12 DEF NetAbort, Goto, Outcome
<1>13. ASSUME NEW c \in Call, FillWhole(c) PROVE Spent(d)'
  BY <1>13 DEF FillWhole, Goto, Outcome
<1>14. ASSUME NEW c \in Call, FillTooLarge(c) PROVE Spent(d)'
  BY <1>14 DEF FillTooLarge, Goto, Outcome
<1>15. ASSUME NEW c \in Call, FillCut(c) PROVE Spent(d)'
  BY <1>15 DEF FillCut, Goto, Outcome
<1>16. ASSUME NEW c \in Call, FillAbort(c) PROVE Spent(d)'
  BY <1>16 DEF FillAbort, Goto, Outcome
<1>17. ASSUME NEW c \in Call, CachePut(c) PROVE Spent(d)'
  BY <1>17 DEF CachePut, Goto
<1>18. ASSUME NEW c \in Call, Hook(c) PROVE Spent(d)'
  BY <1>18 DEF Hook, Goto
<1>19. ASSUME NEW c \in Call, JudgeFinal(c) PROVE Spent(d)'
  BY <1>19 DEF JudgeFinal, Goto, RetryWanted, LastAttempt
<1>20. ASSUME NEW c \in Call, JudgeRetry(c) PROVE Spent(d)'
  BY <1>20 DEF JudgeRetry, Goto, Outcome
<1>21. ASSUME NEW c \in Call, RandLock(c) PROVE Spent(d)'
  BY <1>21 DEF RandLock, Goto
<1>22. ASSUME NEW c \in Call, Backoff(c) PROVE Spent(d)'
  BY <1>22 DEF Backoff, Goto
<1>23. ASSUME NEW c \in Call, SleepZero(c) PROVE Spent(d)'
  BY <1>23 DEF SleepZero, Goto, NextAttempt
<1>24. ASSUME NEW c \in Call, SleepBegin(c) PROVE Spent(d)'
  BY <1>24 DEF SleepBegin, Goto
<1>25. ASSUME NEW c \in Call, SleepEnd(c) PROVE Spent(d)'
  BY <1>25 DEF SleepEnd, Goto, NextAttempt
<1>26. ASSUME NEW c \in Call, SleepCancelled(c) PROVE Spent(d)'
  BY <1>26 DEF SleepCancelled, Goto, Return
<1>27. ASSUME NEW c \in Call, PostError(c) PROVE Spent(d)'
  BY <1>27 DEF PostError, Goto, Return
<1>28. ASSUME NEW c \in Call, PostStatus(c) PROVE Spent(d)'
  BY <1>28 DEF PostStatus, Goto, Finish, Return
<1>29. ASSUME NEW c \in Call, PostDecode(c) PROVE Spent(d)'
<2>1. resp[c] \in Response
  BY <1>29 DEF PostDecode, Bodies
<2>2. resp[c].body.kind \in Kind
  BY <2>1 DEF Response, Body
<2>3. PICK r \in {"data", "empty", "malformed", "tooLarge"} : Finish(c, r)
  BY <1>29, <2>2 DEF PostDecode, Kind
<2> QED  BY <2>3 DEF Goto, Finish, Return
<1>30. ASSUME NEW c \in Call, PostDecodeAbort(c) PROVE Spent(d)'
  BY <1>30 DEF PostDecodeAbort, Goto, Finish, Return
<1>31. ASSUME NEW q \in Query, CacheForget(q) PROVE Spent(d)'
  BY <1>31 DEF CacheForget
<1>32. CASE UNCHANGED vars
  BY <1>32 DEF vars
<1> QED
  BY <1>1, <1>2, <1>3, <1>4, <1>5, <1>6, <1>7, <1>8, <1>9, <1>10, <1>11, <1>12, <1>13, <1>14,
     <1>15, <1>16, <1>17, <1>18, <1>19, <1>20, <1>21, <1>22, <1>23, <1>24, <1>25, <1>26, <1>27,
     <1>28, <1>29, <1>30, <1>31, <1>32 DEF Next, Begin, Context, LoopTop, CacheGet, Network,
     Fill, Judge, Sleep, Post

-----------------------------------------------------------------------------

\* The inductive invariant: what every reachable state of the pipeline knows.
THEOREM PipelineInvariance == Spec => []IInv
<1>1. Init => IInv
  BY InitIInv
<1>2. IInv /\ [Next]_vars => IInv'
  <2> SUFFICES ASSUME IInv, [Next]_vars PROVE IInv'
    OBVIOUS
  <2>1. TypeOK' /\ Jitter' /\ CacheHoldsWholeAnswers'
    BY TypeStep, JitterStep, CacheStep
  <2>2. \A d \in Call : Counted(d)' /\ Bodies(d)' /\ Answers(d)'
    BY CountedStep, BodiesStep, AnswersStep
  <2> QED  BY <2>1, <2>2 DEF IInv
<1> QED  BY <1>1, <1>2, PTL DEF Spec

\* Every variable of the pipeline keeps its type; that the loop variable and the
\* hook count stay below the number of attempts is the retry loop's bound
\* (request.go:104).
THEOREM TypeCorrect == Spec => []TypeOK
<1>1. IInv => TypeOK
  BY DEF IInv
<1> QED  BY <1>1, PipelineInvariance, PTL

\* A call that has returned has closed every network body it was given
\* (request.go:141-219, transport_cache.go:181-182).
THEOREM BodiesClosed == Spec => []NoBodyLeaks
<1>1. IInv => NoBodyLeaks
  BY DEF IInv, Bodies, Quiet, NoBodyLeaks
<1> QED  BY <1>1, PipelineInvariance, PTL

\* After the loop there is an error or an open body to decode, never the nil
\* response that a retry leaves behind (request.go:154, 220).
THEOREM NoNilResponse == Spec => []DecodedBodyIsOpen
<1>1. IInv => DecodedBodyIsOpen
  BY DEF IInv, Bodies, DecodedBodyIsOpen
<1> QED  BY <1>1, PipelineInvariance, PTL

\* The shared cache holds whole 200 bodies of cacheable requests under their own
\* keys (transport_cache.go:165, 183-204).
THEOREM CacheSound == Spec => []CacheHoldsWholeAnswers
<1>1. IInv => CacheHoldsWholeAnswers
  BY DEF IInv
<1> QED  BY <1>1, PipelineInvariance, PTL

\* No call is answered with the body of another request, whatever its siblings
\* put into the cache meanwhile (transport_cache.go:103-110, 133-148).
THEOREM OwnAnswer == Spec => []AnswersOwnRequest
<1>1. IInv => AnswersOwnRequest
  BY DEF IInv, Answers, AnswersOwnRequest
<1> QED  BY <1>1, PipelineInvariance, PTL

\* At every time, a retryable outcome behind the loop is one of the last attempt.
LEMMA SpentInvariance == Spec => [](\A c \in Call : Spent(c))
<1>1. Init => \A c \in Call : Spent(c)
  BY DEF Init, Spent
<1>2. IInv /\ (\A c \in Call : Spent(c)) /\ [Next]_vars => (\A c \in Call : Spent(c))'
  <2> SUFFICES ASSUME IInv, \A c \in Call : Spent(c), [Next]_vars, NEW d \in Call
               PROVE  Spent(d)'
    OBVIOUS
  <2> QED  BY SpentStep
<1> QED  BY <1>1, <1>2, PipelineInvariance, PTL DEF Spec

\* A call that ends on a retryable outcome has used every attempt, for any number
\* of attempts, and only then is it called exhausted (request.go:133-140, 232-238).
THEOREM RetriesAreSpent == Spec => []GivesUpOnlyWhenSpent
<1>1. (\A c \in Call : Spent(c)) => GivesUpOnlyWhenSpent
  BY DEF Spent, GivesUpOnlyWhenSpent
<1> QED  BY <1>1, SpentInvariance, PTL

\* The request hook has fired once for every round trip (transport_hook.go:85).
THEOREM OneHookPerRoundTrip == Spec => []HookPerRoundTrip
<1>1. ASSUME IInv, NEW c \in Call
      PROVE  hooks[c] = ran[c] + (IF pc[c] = "judge" THEN 1 ELSE 0)
  <2>1. ran[c] \in Int /\ hooks[c] \in Int /\ attempt[c] \in Int /\ pc[c] \in Pc
    BY <1>1, AttemptsType DEF IInv, TypeOK
  <2>2. CASE pc[c] = "judge"
    BY <1>1, <2>1, <2>2 DEF IInv, Counted
  <2>3. CASE pc[c] # "judge"
    BY <1>1, <2>1, <2>3 DEF IInv, Counted, InAttempt, Between, Pc
  <2> QED  BY <2>2, <2>3
<1>2. IInv => HookPerRoundTrip
  BY <1>1 DEF HookPerRoundTrip
<1> QED  BY <1>2, PipelineInvariance, PTL

\* No two calls use the Client's rand.Rand at once (request.go:163-165).
THEOREM JitterExclusive == Spec => []RandIsExclusive
<1>1. IInv => RandIsExclusive
  BY DEF IInv, Jitter, RandIsExclusive
<1> QED  BY <1>1, PipelineInvariance, PTL
-----------------------------------------------------------------------------
(* The refinement of CallContract.                                         *)

Ready  == {"top"} \union Between
Trying == {"cacheGet", "net", "fill", "cachePut", "hook"}
Tried  == {"judge", "post"}

\* A step of c leaves what the other calls hold alone.
Others(c) ==
    /\ query' = query
    /\ \A d \in Call \ {c} : resp'[d] = resp[d] /\ err'[d] = err[d]

\* A step that changes nothing but the response of c leaves the others alone.
LEMMA OutcomeOthers ==
  ASSUME TypeOK, NEW c \in Call, NEW r, NEW e, NEW o, Outcome(c, r, e, o), query' = query
  PROVE  Others(c) /\ resp'[c] = r /\ err'[c] = e
  BY DEF TypeOK, Outcome, Others

\* What a move of c does to the mapped phases and verdicts.
LEMMA MapsTo ==
  ASSUME NEW c \in Call, NEW from, NEW to, TypeOK, Goto(c, from, to), Others(c)
  PROVE  /\ Contract!Move(c, PhaseOf(from), PhaseOf(to))
         /\ Reached' = [Reached EXCEPT ![c] =
               IF to \in Tried THEN VerdictOf(query[c], resp'[c], err'[c]) ELSE None]
<1>1. Phase[c] = PhaseOf(from) /\ Phase' = [Phase EXCEPT ![c] = PhaseOf(to)]
  BY DEF TypeOK, Goto, Phase
<1>2. pc' = [pc EXCEPT ![c] = to] /\ DOMAIN Reached = Call
  BY DEF Goto, Reached
<1>3. Reached' = [d \in Call |-> IF pc'[d] \in Tried THEN VerdictOf(query'[d], resp'[d], err'[d]) ELSE None]
  BY DEF Reached, Tried
<1>4. ASSUME NEW d \in Call \ {c} PROVE Reached'[d] = Reached[d]
  BY <1>2, <1>3 DEF TypeOK, Others, Reached, Tried
<1>5. Reached'[c] = IF to \in Tried THEN VerdictOf(query[c], resp'[c], err'[c]) ELSE None
  BY <1>2, <1>3 DEF TypeOK, Others
<1> QED  BY <1>1, <1>2, <1>3, <1>4, <1>5 DEF Contract!Move

\* Steps inside a try, and steps between two tries, are invisible.
LEMMA Hidden ==
  ASSUME NEW c \in Call, NEW from, NEW to, TypeOK, Goto(c, from, to), Others(c),
         (from \in Ready /\ to \in Ready) \/ (from \in Trying /\ to \in Trying),
         UNCHANGED <<ctx, result, hooks>>
  PROVE  UNCHANGED Contract!callVars
<1>1. PhaseOf(from) = PhaseOf(to) /\ to \notin Tried /\ pc[c] = from /\ from \notin Tried
  BY DEF PhaseOf, Ready, Between, Trying, Tried, Goto
<1>2. Phase[c] = PhaseOf(from) /\ Phase' = [Phase EXCEPT ![c] = PhaseOf(to)]
      /\ Reached' = [Reached EXCEPT ![c] = None]
  BY <1>1, MapsTo DEF Contract!Move
<1>3. Phase' = Phase
  BY <1>1, <1>2 DEF Phase
<1>4. Reached[c] = None
  BY <1>1 DEF Reached, Tried
<1>5. Reached' = Reached
  BY <1>2, <1>4 DEF Reached
<1>6. Ended' = Ended /\ query' = query
  BY DEF Ended, Done, Others
<1> QED  BY <1>3, <1>5, <1>6 DEF Contract!callVars
\* The verdict that is mapped is one the contract knows, and answers c's query.
LEMMA VerdictFits ==
  ASSUME IInv, NEW c \in Call, pc[c] = "hook"
  PROVE  /\ VerdictOf(query[c], resp[c], err[c]) \in Contract!Verdict
         /\ VerdictOf(query[c], resp[c], err[c]).of = query[c]
         /\ VerdictOf(query[c], resp[c], err[c]).how = "answer"
               => ~VerdictOf(query[c], resp[c], err[c]).transient
<1> DEFINE v == VerdictOf(query[c], resp[c], err[c])
<1>1. query[c] \in Query /\ resp[c] \in Response \union {None}
  BY DEF IInv, TypeOK
<1>2. (resp[c] # None => resp[c].body.of = query[c]) /\ (resp[c] = None => err[c] # None)
  BY DEF IInv, Answers, Bodies
<1>3. v.of = query[c] /\ v.how \in {"answer", "status", "failure"} /\ v.transient \in BOOLEAN
  BY <1>2 DEF VerdictOf, ShouldRetry
<1>4. v = [of |-> v.of, how |-> v.how, transient |-> v.transient]
  BY DEF VerdictOf
<1>5. v \in Contract!Verdict
  BY <1>1, <1>3, <1>4 DEF Contract!Verdict
<1>6. v.how = "answer" => ~v.transient
  <2>1. SUFFICES ASSUME v.how = "answer" PROVE ~ShouldRetry(resp[c], err[c])
    BY DEF VerdictOf
  <2>2. err[c] = None /\ ~(resp[c].status >= 400)
    BY <2>1 DEF VerdictOf
  <2>3. resp[c] # None /\ resp[c].status \in Nat
    BY <1>1, <1>2, <2>2 DEF Response
  <2> QED  BY <2>2, <2>3 DEF ShouldRetry, RetryableStatus
<1> QED  BY <1>3, <1>5, <1>6

\* The result of a way out behind the loop is one that the contract allows.
LEMMA Reporting ==
  ASSUME IInv, NEW c \in Call, Spent(c), NEW r, pc[c] = "post", Goto(c, "post", "done"),
         UNCHANGED <<ctx, query, resp, err, hooks>>, Return(c, r),
         r \in Contract!Reports(VerdictOf(query[c], resp[c], err[c]), ran[c])
  PROVE  Contract!Report(c)
<1>1. TypeOK /\ Others(c)
  BY DEF IInv, Others
<1>2. /\ Contract!Move(c, PhaseOf("post"), PhaseOf("done"))
      /\ Reached' = [Reached EXCEPT ![c] = None]
  BY <1>1, MapsTo DEF Tried
<1>3. Contract!Move(c, "tried", "returned")
  BY <1>2 DEF PhaseOf
<1>4. hooks[c] = ran[c]
  BY DEF IInv, Counted
<1>5. Reached[c] = VerdictOf(query[c], resp[c], err[c])
  BY DEF Reached
<1>6. Reached[c].transient => hooks[c] = Attempts
  BY <1>4, <1>5 DEF Spent, VerdictOf
<1>7. r \in Contract!Reports(Reached[c], hooks[c]) /\ result' = [result EXCEPT ![c] = r]
  BY <1>4, <1>5 DEF Return
<1>8. Ended' = Ended
  BY DEF Ended, Done
<1> QED  BY <1>2, <1>3, <1>6, <1>7, <1>8 DEF Contract!Report

\* Every step of every call is a step of the contract, or none.
LEMMA StepKeepsContract ==
  ASSUME IInv, \A c \in Call : Spent(c), [Next]_vars
  PROVE  [Contract!CallNext]_(Contract!callVars)
<1> DEFINE Goal == [Contract!CallNext]_(Contract!callVars)
<1> SUFFICES Goal
  OBVIOUS
<1>0. TypeOK
  BY DEF IInv
<1> USE DEF loopVars, respVars, sideVars
<1>1. ASSUME NEW c \in Call, Start(c) PROVE Goal
  <2>1. Goto(c, "idle", "top") /\ Others(c)
    BY <1>1 DEF Start, Others
  <2>2. /\ Contract!Move(c, PhaseOf("idle"), PhaseOf("top"))
        /\ Reached' = [Reached EXCEPT ![c] = None]
    BY <1>0, <2>1, MapsTo DEF Tried
  <2>3. Reached' = Reached
    BY <2>1, <2>2 DEF Reached, Goto
  <2>4. Contract!Begin(c)
    BY <1>1, <2>2, <2>3 DEF Start, PhaseOf, Ended, Done, Contract!Begin
  <2> QED  BY <2>4 DEF Contract!CallNext
<1>2. ASSUME NEW c \in Call, StartInvalid(c) PROVE Goal
  <2>1. Goto(c, "idle", "done") /\ Others(c)
    BY <1>2 DEF StartInvalid, Others
  <2>2. /\ Contract!Move(c, PhaseOf("idle"), PhaseOf("done"))
        /\ Reached' = [Reached EXCEPT ![c] = None]
    BY <1>0, <2>1, MapsTo DEF Tried
  <2>3. Reached' = Reached
    BY <2>1, <2>2 DEF Reached, Goto
  <2>4. Contract!Refuse(c)
    BY <1>2, <2>2, <2>3 DEF StartInvalid, Return, PhaseOf, Ended, Done, Contract!Refuse
  <2> QED  BY <2>4 DEF Contract!CallNext
<1>3. ASSUME NEW c \in Call, Context(c) PROVE Goal
  <2>1. pc[c] # "done" /\ ~Done(c) /\ UNCHANGED <<pc, query, resp, err, result, hooks>>
    BY <1>3 DEF Context, Cancel, Expire
  <2>2. ctx' \in {[ctx EXCEPT ![c] = "cancelled"], [ctx EXCEPT ![c] = "expired"]}
    BY <1>3 DEF Context, Cancel, Expire
  <2>3. Ended' = [Ended EXCEPT ![c] = TRUE]
    BY <1>0, <2>2 DEF TypeOK, Ended, Done
  <2>4. Phase[c] # "returned" /\ ~Ended[c]
    BY <1>0, <2>1 DEF TypeOK, Pc, Phase, PhaseOf, Ended
  <2>5. Phase' = Phase /\ Reached' = Reached
    BY <2>1 DEF Phase, Reached
  <2>6. Contract!End(c)
    BY <2>1, <2>3, <2>4, <2>5 DEF Contract!End
  <2> QED  BY <2>6 DEF Contract!CallNext
<1>4. ASSUME NEW c \in Call, NEW from \in Ready, Goto(c, from, "done"), Done(c),
             Return(c, "ctx"), UNCHANGED <<ctx, query, resp, err, hooks>>
      PROVE  Goal
  <2>1. Others(c)
    BY <1>4 DEF Others
  <2>2. /\ Contract!Move(c, PhaseOf(from), PhaseOf("done"))
        /\ Reached' = [Reached EXCEPT ![c] = None]
    BY <1>0, <1>4, <2>1, MapsTo DEF Tried
  <2>3. Reached' = Reached
    BY <1>4, <2>2 DEF Reached, Goto, Ready, Between
  <2>4. PhaseOf(from) = "ready" /\ PhaseOf("done") = "returned"
    BY <1>4 DEF PhaseOf, Ready, Between
  <2>5. Contract!Abandon(c)
    BY <1>4, <2>2, <2>3, <2>4 DEF Return, Ended, Done, Contract!Abandon
  <2> QED  BY <2>5 DEF Contract!CallNext
<1>5. ASSUME NEW c \in Call, LoopTopDone(c) PROVE Goal
  BY <1>4, <1>5 DEF LoopTopDone, Ready
<1>6. ASSUME NEW c \in Call, Dispatch(c) PROVE Goal
  <2>1. PICK to \in {"cacheGet", "net"} : Goto(c, "top", to)
    BY <1>6 DEF Dispatch
  <2>2. Others(c)
    BY <1>6 DEF Dispatch, Others
  <2>3. /\ Contract!Move(c, PhaseOf("top"), PhaseOf(to))
        /\ Reached' = [Reached EXCEPT ![c] = None]
    BY <1>0, <2>1, <2>2, MapsTo DEF Tried
  <2>4. Reached' = Reached
    BY <2>1, <2>3 DEF Reached, Goto
  <2>5. PhaseOf("top") = "ready" /\ PhaseOf(to) = "trying"
    BY <2>1 DEF PhaseOf
  <2>6. Contract!Try(c)
    BY <1>6, <2>3, <2>4, <2>5 DEF Dispatch, Ended, Done, Contract!Try
  <2> QED  BY <2>6 DEF Contract!CallNext
<1>7. ASSUME NEW c \in Call, CacheGet(c) \/ Network(c) \/ Fill(c) \/ CachePut(c) PROVE Goal
  <2>1. PICK from \in Trying, to \in Trying : Goto(c, from, to)
    BY <1>7 DEF CacheGet, Network, Fill, CacheHit, CacheMiss, NetAnswer, NetError, NetRedirectRefused,
       NetAbort, FillWhole, FillTooLarge, FillCut, FillAbort, CachePut, Trying
  <2>2. UNCHANGED <<ctx, query, result, hooks>>
    BY <1>7 DEF CacheGet, Network, Fill, CacheHit, CacheMiss, NetAnswer, NetError, NetRedirectRefused,
       NetAbort, FillWhole, FillTooLarge, FillCut, FillAbort, CachePut
  <2>3. (\E r, e, o : Outcome(c, r, e, o)) \/ UNCHANGED <<resp, err>>
    BY <1>7 DEF CacheGet, Network, Fill, CacheHit, CacheMiss, NetAnswer, NetError, NetRedirectRefused,
       NetAbort, FillWhole, FillTooLarge, FillCut, FillAbort, CachePut
  <2>4. Others(c)
    <3>1. CASE \E r, e, o : Outcome(c, r, e, o)
      BY <1>0, <2>2, <3>1, OutcomeOthers
    <3>2. CASE UNCHANGED <<resp, err>>
      BY <2>2, <3>2 DEF Others
    <3> QED  BY <2>3, <3>1, <3>2
  <2>5. UNCHANGED Contract!callVars
    BY <1>0, <2>1, <2>2, <2>4, Hidden
  <2> QED  BY <2>5
<1>8. ASSUME NEW c \in Call, Hook(c) PROVE Goal
  <2>1. Goto(c, "hook", "judge") /\ Others(c) /\ pc[c] = "hook"
    BY <1>8 DEF Hook, Others, Goto
  <2> DEFINE v == VerdictOf(query[c], resp[c], err[c])
  <2>2. /\ Contract!Move(c, PhaseOf("hook"), PhaseOf("judge"))
        /\ Reached' = [Reached EXCEPT ![c] = VerdictOf(query[c], resp'[c], err'[c])]
    BY <1>0, <2>1, MapsTo DEF Tried
  <2>3. Reached' = [Reached EXCEPT ![c] = v] /\ Contract!Move(c, "trying", "tried")
    BY <1>8, <2>2 DEF Hook, PhaseOf
  <2>4. v \in Contract!Verdict /\ v.of = query[c] /\ (v.how = "answer" => ~v.transient)
    BY <2>1, VerdictFits
  <2>5. hooks' = [hooks EXCEPT ![c] = @ + 1] /\ UNCHANGED <<Ended, query, result>>
    BY <1>8 DEF Hook, Ended, Done
  <2> HIDE DEF v
  <2>6. Contract!Conclude(c)
    BY <2>3, <2>4, <2>5 DEF Contract!Conclude
  <2> QED  BY <2>6 DEF Contract!CallNext
<1>9. ASSUME NEW c \in Call, JudgeFinal(c) PROVE Goal
  <2>1. Goto(c, "judge", "post") /\ Others(c)
    BY <1>9 DEF JudgeFinal, Others
  <2>2. /\ Contract!Move(c, PhaseOf("judge"), PhaseOf("post"))
        /\ Reached' = [Reached EXCEPT ![c] = VerdictOf(query[c], resp'[c], err'[c])]
    BY <1>0, <2>1, MapsTo DEF Tried
  <2>3. Reached' = Reached
    BY <1>9, <2>1, <2>2 DEF JudgeFinal, Reached, Goto
  <2>4. Phase' = Phase
    BY <2>2 DEF PhaseOf, Phase, Contract!Move
  <2>5. UNCHANGED <<Ended, query, result, hooks>>
    BY <1>9 DEF JudgeFinal, Ended, Done
  <2> QED  BY <2>3, <2>4, <2>5 DEF Contract!callVars
<1>10. ASSUME NEW c \in Call, JudgeRetry(c) PROVE Goal
  <2>1. Goto(c, "judge", "randLock") /\ Others(c) /\ pc[c] = "judge"
    BY <1>0, <1>10, OutcomeOthers DEF JudgeRetry, Goto
  <2>2. /\ Contract!Move(c, PhaseOf("judge"), PhaseOf("randLock"))
        /\ Reached' = [Reached EXCEPT ![c] = None]
    BY <1>0, <2>1, MapsTo DEF Tried
  <2>3. Reached[c] = VerdictOf(query[c], resp[c], err[c])
    BY <2>1 DEF Reached
  <2>4. Reached[c].transient /\ attempt[c] # Attempts - 1
    BY <1>10, <2>3 DEF JudgeRetry, RetryWanted, LastAttempt, VerdictOf
  <2>5. hooks[c] < Attempts
    BY <2>1, <2>4, AttemptsType DEF IInv, TypeOK, Counted
  <2>6. Contract!Move(c, "tried", "ready") /\ UNCHANGED <<Ended, query, result, hooks>>
    BY <1>10, <2>2 DEF JudgeRetry, Ended, Done, PhaseOf
  <2>7. Contract!Again(c)
    BY <2>2, <2>4, <2>5, <2>6 DEF Contract!Again
  <2> QED  BY <2>7 DEF Contract!CallNext
<1>11. ASSUME NEW c \in Call, RandLock(c) \/ Backoff(c) PROVE Goal
  <2>1. PICK from \in Ready, to \in Ready : Goto(c, from, to)
    BY <1>11 DEF RandLock, Backoff, Ready, Between
  <2>2. Others(c) /\ UNCHANGED <<ctx, result, hooks>>
    BY <1>11 DEF RandLock, Backoff, Others
  <2>3. UNCHANGED Contract!callVars
    BY <1>0, <2>1, <2>2, Hidden
  <2> QED  BY <2>3
<1>12. ASSUME NEW c \in Call, SleepZero(c) \/ SleepBegin(c) \/ SleepEnd(c) PROVE Goal
  <2>1. PICK from \in Ready, to \in Ready : Goto(c, from, to)
    BY <1>12 DEF SleepZero, SleepBegin, SleepEnd, NextAttempt, Ready, Between
  <2>2. Others(c) /\ UNCHANGED <<ctx, result, hooks>>
    BY <1>12 DEF SleepZero, SleepBegin, SleepEnd, NextAttempt, Others
  <2>3. UNCHANGED Contract!callVars
    BY <1>0, <2>1, <2>2, Hidden
  <2> QED  BY <2>3
<1>13. ASSUME NEW c \in Call, SleepCancelled(c) PROVE Goal
  <2>1. PICK from \in Ready : Goto(c, from, "done")
    BY <1>13 DEF SleepCancelled, Ready, Between
  <2>2. Done(c) /\ Return(c, "ctx") /\ UNCHANGED <<ctx, query, resp, err, hooks>>
    BY <1>13 DEF SleepCancelled
  <2> QED  BY <1>4, <2>1, <2>2
<1>14. ASSUME NEW c \in Call, PostError(c) PROVE Goal
  <2> DEFINE r == IF ran[c] > 1 THEN "exhausted" ELSE "failed"
  <2>1. /\ Goto(c, "post", "done") /\ pc[c] = "post" /\ err[c] # None /\ Return(c, r)
        /\ UNCHANGED <<ctx, query, resp, err, hooks>>
    BY <1>14 DEF PostError, Goto
  <2>2. VerdictOf(query[c], resp[c], err[c]).how = "failure"
    BY <2>1 DEF VerdictOf
  <2>3. r \in Contract!Reports(VerdictOf(query[c], resp[c], err[c]), ran[c])
    BY <2>2 DEF Contract!Reports
  <2>4. Contract!Report(c)
    BY <2>1, <2>3, Reporting
  <2> QED  BY <2>4 DEF Contract!CallNext
<1>15. ASSUME NEW c \in Call, PostStatus(c) PROVE Goal
  <2> DEFINE r == IF ran[c] > 1 /\ ShouldRetry(resp[c], None) THEN "apiExhausted" ELSE "api"
  <2>1. /\ Goto(c, "post", "done") /\ pc[c] = "post" /\ Return(c, r)
        /\ err[c] = None /\ resp[c].status >= 400
        /\ UNCHANGED <<ctx, query, resp, err, hooks>>
    BY <1>15 DEF PostStatus, Finish, Goto
  <2>2. /\ VerdictOf(query[c], resp[c], err[c]).how = "status"
        /\ VerdictOf(query[c], resp[c], err[c]).transient = ShouldRetry(resp[c], None)
    BY <2>1 DEF VerdictOf
  <2>3. r \in Contract!Reports(VerdictOf(query[c], resp[c], err[c]), ran[c])
    BY <2>2 DEF Contract!Reports
  <2>4. Contract!Report(c)
    BY <2>1, <2>3, Reporting
  <2> QED  BY <2>4 DEF Contract!CallNext
<1>16. ASSUME NEW c \in Call, PostDecode(c) \/ PostDecodeAbort(c) PROVE Goal
  <2>1. pc[c] = "post" /\ err[c] = None /\ resp[c].status < 400
    BY <1>16 DEF PostDecode, PostDecodeAbort
  <2>2. resp[c] \in Response
    BY <1>0, <2>1 DEF IInv, TypeOK, Bodies
  <2>3. resp[c].body.kind \in Kind /\ resp[c].status \in Nat
    BY <2>2 DEF Response, Body
  <2>4. PICK r \in {"data", "empty", "malformed", "tooLarge"} : Finish(c, r)
    BY <1>16, <2>3 DEF PostDecode, PostDecodeAbort, Kind
  <2>5. /\ Goto(c, "post", "done") /\ Return(c, r)
        /\ UNCHANGED <<ctx, query, resp, err, hooks>>
    <3>1. UNCHANGED <<ctx, query, resp, err, hooks>>
      BY <2>4 DEF Finish
    <3> QED  BY <2>4, <3>1 DEF Finish
  <2>6. VerdictOf(query[c], resp[c], err[c]).how = "answer"
    BY <2>1, <2>3 DEF VerdictOf
  <2>7. r \in Contract!Reports(VerdictOf(query[c], resp[c], err[c]), ran[c])
    BY <2>6 DEF Contract!Reports
  <2>8. Contract!Report(c)
    BY <2>1, <2>5, <2>7, Reporting
  <2> QED  BY <2>8 DEF Contract!CallNext
<1>17. ASSUME NEW q \in Query, CacheForget(q) PROVE Goal
  <2>1. UNCHANGED <<pc, ctx, query, resp, err, result, hooks>>
    BY <1>17 DEF CacheForget
  <2> QED  BY <2>1 DEF Phase, Ended, Done, Reached, Contract!callVars
<1>18. CASE UNCHANGED vars
  BY <1>18 DEF vars, Phase, Ended, Done, Reached, Contract!callVars
<1> HIDE DEF Goal
<1> QED
  BY <1>1, <1>2, <1>3, <1>5, <1>6, <1>7, <1>8, <1>9, <1>10, <1>11, <1>12, <1>13, <1>14, <1>15,
     <1>16, <1>17, <1>18 DEF Next, Begin, LoopTop, Judge, Sleep, Post

\* For any number of calls that share a Client: each of them looks to its caller
\* like a call alone that keeps the contract (request.go:63-282).
THEOREM CallsKeepContract == Spec => ImplementsCallContract
<1>1. Init => Contract!CallInit
  BY DEF Init, Contract!CallInit, Phase, PhaseOf, Ended, Done, Reached
<1>2. IInv /\ (\A c \in Call : Spent(c)) /\ [Next]_vars
        => [Contract!CallNext]_(Contract!callVars)
  BY StepKeepsContract
<1> QED
  BY <1>1, <1>2, PipelineInvariance, SpentInvariance, PTL
     DEF Spec, ImplementsCallContract, Contract!CallSpec
-----------------------------------------------------------------------------
(* A call takes a bounded number of steps.                                 *)

\* The steps that may be left in an attempt, and in a call.
Rank(p) ==
    CASE p = "idle" -> 13      [] p = "top" -> 12      [] p = "cacheGet" -> 11
      [] p = "net" -> 10       [] p = "fill" -> 9      [] p = "cachePut" -> 8
      [] p = "hook" -> 7       [] p = "judge" -> 6     [] p = "randLock" -> 5
      [] p = "backoff" -> 4    [] p = "sleepEnter" -> 3 [] p = "sleep" -> 2
      [] p = "post" -> 1       [] p = "done" -> 0

StepsLeft(p, a) == 14 * (Attempts - a) + Rank(p)

Moved(c) == pc'[c] # pc[c] \/ attempt'[c] # attempt[c]
Shrinks(c) == StepsLeft(pc'[c], attempt'[c]) < StepsLeft(pc[c], attempt[c])

\* A step to a lower place, or to the next attempt, leaves fewer steps.
LEMMA StepsShrink ==
  ASSUME TypeOK, NEW c \in Call, NEW from \in Pc, NEW to \in Pc, Goto(c, from, to),
         \/ attempt' = attempt /\ Rank(to) < Rank(from)
         \/ attempt' = [attempt EXCEPT ![c] = @ + 1]
  PROVE  \A d \in Call : Moved(d) => Shrinks(d)
<1> SUFFICES ASSUME NEW d \in Call, Moved(d) PROVE Shrinks(d)
  OBVIOUS
<1>1. d = c /\ pc[c] = from /\ pc'[c] = to
  BY DEF TypeOK, Moved, Goto
<1>2. attempt[c] \in Int /\ Attempts \in Int
  BY AttemptsType DEF TypeOK
<1>3. Rank(from) \in 0..13 /\ Rank(to) \in 0..13
  BY DEF Rank, Pc
<1>4. CASE attempt' = attempt /\ Rank(to) < Rank(from)
  BY <1>1, <1>2, <1>3, <1>4 DEF Shrinks, StepsLeft
<1>5. CASE attempt' = [attempt EXCEPT ![c] = @ + 1]
  <2>1. attempt'[c] = attempt[c] + 1
    BY <1>5 DEF TypeOK
  <2> QED  BY <1>1, <1>2, <1>3, <2>1 DEF Shrinks, StepsLeft
<1> QED  BY <1>4, <1>5

\* Every way a call can go shrinks what is left; nothing else touches it.
LEMMA NextShrinks == ASSUME TypeOK, [Next]_vars PROVE \A d \in Call : Moved(d) => Shrinks(d)
<1> DEFINE Goal == \A d \in Call : Moved(d) => Shrinks(d)
<1> SUFFICES Goal
  OBVIOUS
<1> USE DEF loopVars, respVars, sideVars
<1>1. ASSUME NEW c \in Call,
             \/ Begin(c) \/ LoopTop(c) \/ CacheGet(c) \/ Network(c) \/ Fill(c)
             \/ CachePut(c) \/ Hook(c) \/ Judge(c) \/ RandLock(c) \/ Backoff(c)
             \/ SleepBegin(c) \/ SleepCancelled(c) \/ Post(c)
      PROVE  Goal
  <2>1. attempt' = attempt
    BY <1>1 DEF Begin, Start, StartInvalid, LoopTop, LoopTopDone, Dispatch, CacheGet, CacheHit, CacheMiss,
       Network, NetAnswer, NetError, NetRedirectRefused, NetAbort, Fill, FillWhole, FillTooLarge,
       FillCut, FillAbort, CachePut, Hook, Judge, JudgeFinal, JudgeRetry, RandLock, Backoff,
       SleepBegin, SleepCancelled, Post, PostError, PostStatus, PostDecode, PostDecodeAbort, Finish
  <2>2. PICK from \in Pc, to \in Pc : Goto(c, from, to) /\ Rank(to) < Rank(from)
    <3>1. CASE Begin(c) \/ LoopTop(c)
      BY <3>1 DEF Begin, Start, StartInvalid, LoopTop, LoopTopDone, Dispatch, Rank, Pc
    <3>2. CASE CacheGet(c)
      BY <3>2 DEF CacheGet, CacheHit, CacheMiss, Rank, Pc
    <3>3. CASE Network(c)
      <4>1. \/ Goto(c, "net", "hook") \/ Goto(c, "net", "fill")
        BY <3>3 DEF Network, NetAnswer, NetError, NetRedirectRefused, NetAbort
      <4> QED  BY <4>1 DEF Rank, Pc
    <3>4. CASE Fill(c)
      BY <3>4 DEF Fill, FillWhole, FillTooLarge, FillCut, FillAbort, Rank, Pc
    <3>5. CASE CachePut(c) \/ Hook(c)
      BY <3>5 DEF CachePut, Hook, Rank, Pc
    <3>6. CASE Judge(c)
      BY <3>6 DEF Judge, JudgeFinal, JudgeRetry, Rank, Pc
    <3>7. CASE RandLock(c) \/ Backoff(c) \/ SleepBegin(c) \/ SleepCancelled(c)
      BY <3>7 DEF RandLock, Backoff, SleepBegin, SleepCancelled, Rank, Pc
    <3>8. CASE Post(c)
      <4>1. Goto(c, "post", "done")
        BY <3>8 DEF Post, PostError, PostStatus, PostDecode, PostDecodeAbort, Finish
      <4> QED  BY <4>1 DEF Rank, Pc
    <3> QED  BY <1>1, <3>1, <3>2, <3>3, <3>4, <3>5, <3>6, <3>7, <3>8
  <2> QED  BY <2>1, <2>2, StepsShrink
<1>2. ASSUME NEW c \in Call, SleepZero(c) \/ SleepEnd(c) PROVE Goal
  <2>1. PICK from \in Pc : NextAttempt(c, from)
    BY <1>2 DEF SleepZero, SleepEnd, Pc
  <2>2. Goto(c, from, "top") /\ attempt' = [attempt EXCEPT ![c] = @ + 1] /\ "top" \in Pc
    BY <2>1 DEF NextAttempt, Pc
  <2> QED  BY <2>2, StepsShrink
<1>3. ASSUME UNCHANGED <<pc, attempt>> PROVE Goal
  BY <1>3 DEF Moved
<1>4. ASSUME NEW c \in Call, Context(c) PROVE Goal
  BY <1>3, <1>4 DEF Context, Cancel, Expire
<1>5. ASSUME NEW q \in Query, CacheForget(q) PROVE Goal
  BY <1>3, <1>5 DEF CacheForget
<1>6. CASE UNCHANGED vars
  BY <1>3, <1>6 DEF vars
<1> HIDE DEF Goal
<1> QED  BY <1>1, <1>2, <1>4, <1>5, <1>6 DEF Next, Sleep

\* Whatever the network, the cache and the siblings do, a call ends after at most
\* 14 * Attempts + 13 steps of its own: the loop cannot run for ever, so that a call
\* which does not return waits for somebody (request.go:104).
THEOREM CallsAreBounded ==
  Spec => /\ [](\A c \in Call : StepsLeft(pc[c], attempt[c]) \in 0..(14 * Attempts + 13))
          /\ [][\A c \in Call : Moved(c) => Shrinks(c)]_vars
<1>1. ASSUME TypeOK, NEW c \in Call
      PROVE  StepsLeft(pc[c], attempt[c]) \in 0..(14 * Attempts + 13)
  <2>1. Rank(pc[c]) \in 0..13
    BY <1>1 DEF TypeOK, Rank, Pc
  <2>2. attempt[c] \in Int /\ 0 <= attempt[c] /\ attempt[c] <= Attempts - 1 /\ Attempts \in Int
    BY <1>1, AttemptsType DEF TypeOK
  <2> QED  BY <2>1, <2>2 DEF StepsLeft
<1>2. TypeOK => \A c \in Call : StepsLeft(pc[c], attempt[c]) \in 0..(14 * Attempts + 13)
  BY <1>1
<1>3. TypeOK /\ [Next]_vars => [\A c \in Call : Moved(c) => Shrinks(c)]_vars
  BY NextShrinks
<1> QED  BY <1>2, <1>3, TypeCorrect, PTL DEF Spec
=============================================================================
