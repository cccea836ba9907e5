------------------------------ MODULE Request ------------------------------
(***************************************************************************)
(* The request pipeline: doJSONGet's retry loop (request.go) over the      *)
(* round-tripper chain hook -> cache -> network (transport_hook.go,        *)
(* transport_cache.go), for several calls that share one Client.           *)
(*                                                                         *)
(* Every call runs doJSONGet once.  Its context may be cancelled by the    *)
(* caller, or by the Client's timeout, between any two steps.  The network *)
(* is external: it may answer anything, late, or never.  The cache is what *)
(* TTLMap promises, seen from one reader: a key holds what was last Put    *)
(* until it vanishes.                                                      *)
(***************************************************************************)
EXTENDS Integers, FiniteSets

CONSTANTS
    Call,           \* calls of endpoint methods, one goroutine each
    Query,          \* requests that cacheKey tells apart: path and parameters
    Cacheable,      \* those whose path isCacheablePath admits
    MaxAttempts,    \* c.retry.maxAttempts; not positive: no retry
    Timeout,        \* c.timeout > 0
    CacheOn,        \* a cache backend is configured
    Status,         \* statuses the upstream answers with
    None            \* no response, no error, no body

ASSUME QueryAssumption   == Cacheable \subseteq Query
ASSUME AttemptAssumption == MaxAttempts \in Int
ASSUME SwitchAssumption  == Timeout \in BOOLEAN /\ CacheOn \in BOOLEAN
ASSUME StatusAssumption  == Status \subseteq Nat

\* A body belongs to the request and the status it answered.  What it turns
\* out to be when it is read: a document, nothing, bytes
\* that are not the document, more than maxResponseBytes, or a broken read.
Kind == {"data", "empty", "malformed", "large", "cut"}
Body == [of : Query, status : Nat, kind : Kind]

\* What c.http.Do fails with.  "timeout" is a net.Error that is no context
\* error, "deadline" one that also matches context.DeadlineExceeded although
\* the call's own context is alive (a dial or response-header timeout, or the
\* Timeout of the caller's http.Client, which bounds reading a body, too).
Error == {"ctx", "deadline", "timeout", "reset", "tooLarge", "other"}

Attempts == IF MaxAttempts > 0 THEN MaxAttempts ELSE 1

\* A response: its body is buffered in memory (cache hit, cache fill) or is the
\* network body of attempt n.
Response == [status : Nat, body : Body, buffered : BOOLEAN, n : 1..Attempts]

Result == {"none", "invalid", "ctx", "failed", "exhausted", "api",
           "apiExhausted", "data", "empty", "malformed", "tooLarge"}

ASSUME NoneAssumption == /\ None \notin Response /\ None \notin Body
                         /\ None \notin Error

VARIABLES
    pc,         \* where each call is
    ctx,        \* its context: "live", or why it is done
    query,      \* what it asks for
    attempt,    \* loop variable of the retry loop
    ran,        \* attemptsRan
    resp, err,  \* resp, httpErr
    open,       \* attempts whose network body is not closed yet
    result,     \* how it returned
    hooks,      \* how often its request hook has fired
    randMu,     \* calls that hold c.randMu (a set, at most a singleton)
    cache       \* the cache backend's content

vars == <<pc, ctx, query, attempt, ran, resp, err, open, result, hooks, randMu, cache>>

loopVars == <<attempt, ran>>
respVars == <<resp, err, open>>
sideVars == <<result, hooks, randMu, cache>>

Pc == {"idle", "top", "cacheGet", "net", "fill", "cachePut", "hook", "judge",
       "randLock", "backoff", "sleepEnter", "sleep", "post", "done"}

Done(c) == ctx[c] # "live"

TypeOK ==
    /\ pc \in [Call -> Pc]
    /\ ctx \in [Call -> {"live", "cancelled", "expired"}]
    /\ query \in [Call -> Query]
    /\ attempt \in [Call -> 0..(Attempts - 1)]
    /\ ran \in [Call -> 0..Attempts]
    /\ resp \in [Call -> Response \union {None}]
    /\ err \in [Call -> Error \union {None}]
    /\ open \in [Call -> SUBSET (1..Attempts)]
    /\ result \in [Call -> Result]
    /\ hooks \in [Call -> 0..Attempts]
    /\ randMu \subseteq Call
    /\ cache \in [Query -> Body \union {None}]

Init ==
    /\ pc = [c \in Call |-> "idle"]
    /\ ctx = [c \in Call |-> "live"]
    /\ query \in [Call -> Query]
    /\ attempt = [c \in Call |-> 0]
    /\ ran = [c \in Call |-> 0]
    /\ resp = [c \in Call |-> None]
    /\ err = [c \in Call |-> None]
    /\ open = [c \in Call |-> {}]
    /\ result = [c \in Call |-> "none"]
    /\ hooks = [c \in Call |-> 0]
    /\ randMu = {}
    /\ cache = [q \in Query |-> None]

Goto(c, from, to) == pc[c] = from /\ pc' = [pc EXCEPT ![c] = to]

Return(c, r) == result' = [result EXCEPT ![c] = r]

-----------------------------------------------------------------------------
(* retry.go: what deserves another attempt.                                *)

RetryableStatus == {408, 429, 500, 502, 503, 504}

IsCtxError(e) == e \in {"ctx", "deadline"}
IsNetTimeout(e) == e \in {"timeout", "deadline"}

ShouldRetry(r, e) ==
    \/ /\ e # None
       /\ ~IsCtxError(e)
       /\ IsNetTimeout(e) \/ e = "reset"
    \/ /\ e = None /\ r # None
       /\ r.status \in RetryableStatus

-----------------------------------------------------------------------------
(* The context of a call: the caller's, under the Client's timeout.        *)

Cancel(c) ==
    /\ pc[c] # "done" /\ ~Done(c)
    /\ ctx' = [ctx EXCEPT ![c] = "cancelled"]
    /\ UNCHANGED <<pc, query, loopVars, respVars, sideVars>>

Expire_Never(c) == FALSE /\ UNCHANGED vars
Expire(c) ==
    /\ Timeout
    /\ pc[c] \notin {"idle", "done"} /\ ~Done(c)
    /\ ctx' = [ctx EXCEPT ![c] = "expired"]
    /\ UNCHANGED <<pc, query, loopVars, respVars, sideVars>>

-----------------------------------------------------------------------------
(* doJSONGet up to the dispatch.                                           *)

Start(c) ==
    /\ Goto(c, "idle", "top")
    /\ UNCHANGED <<ctx, query, loopVars, respVars, sideVars>>

\* A nil context, or a base URL that http.NewRequest rejects.
StartInvalid(c) ==
    /\ Goto(c, "idle", "done")
    /\ Return(c, "invalid")
    /\ UNCHANGED <<ctx, query, loopVars, respVars, hooks, randMu, cache>>

LoopTopDone(c) ==
    /\ Goto(c, "top", "done")
    /\ Done(c)
    /\ Return(c, "ctx")
    /\ UNCHANGED <<ctx, query, loopVars, respVars, hooks, randMu, cache>>

CacheConsulted(c) == CacheOn /\ query[c] \in Cacheable
Dispatch_Unchecked(c) ==
    /\ Goto(c, "top", IF CacheConsulted(c) THEN "cacheGet" ELSE "net")
    /\ UNCHANGED <<ctx, query, loopVars, respVars, sideVars>>
Dispatch(c) ==
    /\ ~Done(c)
    /\ Goto(c, "top", IF CacheConsulted(c) THEN "cacheGet" ELSE "net")
    /\ UNCHANGED <<ctx, query, loopVars, respVars, sideVars>>

-----------------------------------------------------------------------------
(* The chain below c.http.Do.                                              *)

cacheKey_PathOnly(q) == CHOOSE x \in Cacheable : TRUE
cacheKey(q) == q

\* The outcome of a round trip: (resp, err), and which bodies stay open.
Outcome(c, r, e, o) ==
    /\ resp' = [resp EXCEPT ![c] = r]
    /\ err'  = [err EXCEPT ![c] = e]
    /\ open' = [open EXCEPT ![c] = o]

ThisBody(c) == attempt[c] + 1

CacheHit(c) ==
    /\ Goto(c, "cacheGet", "hook")
    /\ cache[cacheKey(query[c])] # None
    /\ Outcome(c, [status |-> 200, body |-> cache[cacheKey(query[c])],
                   buffered |-> TRUE, n |-> ThisBody(c)], None, open[c])
    /\ UNCHANGED <<ctx, query, loopVars, sideVars>>

CacheMiss(c) ==
    /\ Goto(c, "cacheGet", "net")
    /\ cache[cacheKey(query[c])] = None
    /\ UNCHANGED <<ctx, query, loopVars, respVars, sideVars>>

\* Only a 200 is read ahead and stored.
MayFill_AnyStatus(c, s) == CacheConsulted(c)
MayFill(c, s) == CacheConsulted(c) /\ s = 200

\* External: the upstream answers, with a body that is still to be read.
NetAnswer(c) ==
    /\ \E s \in Status, k \in Kind :
          /\ Goto(c, "net", IF MayFill(c, s) THEN "fill" ELSE "hook")
          /\ Outcome(c, [status |-> s, body |-> [of |-> query[c], status |-> s, kind |-> k],
                         buffered |-> FALSE, n |-> ThisBody(c)],
                     None, open[c] \union {ThisBody(c)})
    /\ UNCHANGED <<ctx, query, loopVars, sideVars>>

\* External: the transport fails although the context is alive.
NetError(c) ==
    /\ Goto(c, "net", "hook")
    /\ \E e \in Error \ {"ctx", "tooLarge"} : Outcome(c, None, e, open[c])
    /\ UNCHANGED <<ctx, query, loopVars, sideVars>>

\* External: CheckRedirect refuses; c.http.Do returns the response, its body
\* already closed, together with an error.
NetRedirectRefused(c) ==
    /\ Goto(c, "net", "hook")
    /\ Outcome(c, [status |-> 302, body |-> [of |-> query[c], status |-> 302, kind |-> "empty"],
                   buffered |-> FALSE, n |-> ThisBody(c)], "other", open[c])
    /\ UNCHANGED <<ctx, query, loopVars, sideVars>>

\* External: the transport gives up because the context is done.
NetAbort(c) ==
    /\ Goto(c, "net", "hook")
    /\ Done(c)
    /\ Outcome(c, None, "ctx", open[c])
    /\ UNCHANGED <<ctx, query, loopVars, sideVars>>

\* cacheTransport reads the body through the cap, then drains and closes it.
FillWhole_NotReplaced(c) ==
    /\ Goto(c, "fill", "cachePut")
    /\ resp[c].body.kind \in {"data", "empty", "malformed"}
    /\ Outcome(c, resp[c], None, open[c] \ {ThisBody(c)})
    /\ UNCHANGED <<ctx, query, loopVars, sideVars>>
FillWhole(c) ==
    /\ Goto(c, "fill", "cachePut")
    /\ resp[c].body.kind \in {"data", "empty", "malformed"}
    /\ Outcome(c, [resp[c] EXCEPT !.buffered = TRUE], None, open[c] \ {ThisBody(c)})
    /\ UNCHANGED <<ctx, query, loopVars, sideVars>>

FillTooLarge(c) ==
    /\ Goto(c, "fill", "hook")
    /\ resp[c].body.kind = "large"
    /\ Outcome(c, None, "tooLarge", open[c] \ {ThisBody(c)})
    /\ UNCHANGED <<ctx, query, loopVars, sideVars>>

FillCut(c) ==
    /\ Goto(c, "fill", "hook")
    /\ resp[c].body.kind = "cut"
    /\ \E e \in Error \ {"ctx", "tooLarge"} :
          Outcome(c, None, e, open[c] \ {ThisBody(c)})
    /\ UNCHANGED <<ctx, query, loopVars, sideVars>>

FillAbort(c) ==
    /\ Goto(c, "fill", "hook")
    /\ Done(c)
    /\ Outcome(c, None, "ctx", open[c] \ {ThisBody(c)})
    /\ UNCHANGED <<ctx, query, loopVars, sideVars>>

CachePut(c) ==
    /\ Goto(c, "cachePut", "hook")
    /\ cache' = [cache EXCEPT ![cacheKey(query[c])] = resp[c].body]
    /\ UNCHANGED <<ctx, query, loopVars, respVars, result, hooks, randMu>>

\* hookTransport is outermost: it fires once per round trip, hit or not.
Hook(c) ==
    /\ Goto(c, "hook", "judge")
    /\ hooks' = [hooks EXCEPT ![c] = @ + 1]
    /\ UNCHANGED <<ctx, query, loopVars, respVars, result, randMu, cache>>

-----------------------------------------------------------------------------
(* The rest of the retry loop.                                             *)

LastAttempt(c) == attempt[c] = Attempts - 1

RetryWanted_OneTooMany(c) ==
    ShouldRetry(resp[c], err[c]) /\ attempt[c] < Attempts
RetryWanted_GivesUpEarly(c) ==
    ShouldRetry(resp[c], err[c]) /\ attempt[c] < Attempts - 2
RetryWanted(c) == ShouldRetry(resp[c], err[c]) /\ ~LastAttempt(c)

JudgeFinal(c) ==
    /\ Goto(c, "judge", "post")
    /\ ~RetryWanted(c)
    /\ ran' = [ran EXCEPT ![c] = attempt[c] + 1]
    /\ UNCHANGED <<ctx, query, attempt, respVars, sideVars>>

\* A response that will be retried is drained, closed and forgotten.
JudgeRetry_Undrained(c) ==
    /\ Goto(c, "judge", "randLock")
    /\ RetryWanted(c)
    /\ ran' = [ran EXCEPT ![c] = attempt[c] + 1]
    /\ Outcome(c, None, err[c], open[c])
    /\ UNCHANGED <<ctx, query, attempt, sideVars>>
JudgeRetry(c) ==
    /\ Goto(c, "judge", "randLock")
    /\ RetryWanted(c)
    /\ ran' = [ran EXCEPT ![c] = attempt[c] + 1]
    /\ Outcome(c, None, err[c],
               IF resp[c] # None THEN open[c] \ {resp[c].n} ELSE open[c])
    /\ UNCHANGED <<ctx, query, attempt, sideVars>>

RandLock(c) ==
    /\ Goto(c, "randLock", "backoff")
    /\ randMu = {} /\ randMu' = {c}
    /\ UNCHANGED <<ctx, query, loopVars, respVars, result, hooks, cache>>

Backoff(c) ==
    /\ Goto(c, "backoff", "sleepEnter")
    /\ randMu' = randMu \ {c}
    /\ UNCHANGED <<ctx, query, loopVars, respVars, result, hooks, cache>>

NextAttempt(c, from) ==
    /\ Goto(c, from, "top")
    /\ attempt' = [attempt EXCEPT ![c] = @ + 1]
    /\ UNCHANGED <<ctx, query, ran, respVars, sideVars>>

\* ctxSleep looks at the context before it looks at the delay.
SleepZero(c) == ~Done(c) /\ NextAttempt(c, "sleepEnter")

SleepBegin(c) ==
    /\ Goto(c, "sleepEnter", "sleep")
    /\ ~Done(c)
    /\ UNCHANGED <<ctx, query, loopVars, respVars, sideVars>>

SleepEnd(c) == NextAttempt(c, "sleep")

SleepCancelled(c) ==
    /\ \/ Goto(c, "sleepEnter", "done")
       \/ Goto(c, "sleep", "done")
    /\ Done(c)
    /\ Return(c, "ctx")
    /\ UNCHANGED <<ctx, query, loopVars, respVars, hooks, randMu, cache>>

-----------------------------------------------------------------------------
(* After the loop: one result, and the body closed on every way out.       *)

\* Reading this body can still go wrong in the network.
Unread(c) == resp[c] # None /\ ~resp[c].buffered

Finish(c, r) ==
    /\ Goto(c, "post", "done")
    /\ Return(c, r)
    /\ open' = [open EXCEPT ![c] = @ \ {resp[c].n}]
    /\ UNCHANGED <<ctx, query, loopVars, resp, err, hooks, randMu, cache>>

PostError(c) ==
    /\ Goto(c, "post", "done")
    /\ err[c] # None
    /\ Return(c, IF ran[c] > 1 THEN "exhausted" ELSE "failed")
    /\ open' = IF resp[c] = None THEN open
               ELSE [open EXCEPT ![c] = @ \ {resp[c].n}]
    /\ UNCHANGED <<ctx, query, loopVars, resp, err, hooks, randMu, cache>>

PostStatus(c) ==
    /\ pc[c] = "post" /\ err[c] = None /\ resp[c].status >= 400
    /\ Finish(c, IF ran[c] > 1 /\ ShouldRetry(resp[c], None)
                 THEN "apiExhausted" ELSE "api")

PostDecode(c) ==
    /\ pc[c] = "post" /\ err[c] = None /\ resp[c].status < 400
    /\ Finish(c, CASE resp[c].body.kind \in {"malformed", "cut"} -> "malformed"
                   [] resp[c].body.kind = "large" -> "tooLarge"
                   [] OTHER -> resp[c].body.kind)

\* The context ends while the decoder reads: a decode error like any other.
PostDecodeAbort(c) ==
    /\ pc[c] = "post" /\ err[c] = None /\ resp[c].status < 400
    /\ Unread(c) /\ Done(c)
    /\ Finish(c, "malformed")

-----------------------------------------------------------------------------
\* An entry's time is over (see TTLMap).
CacheForget(q) ==
    /\ cache[q] # None
    /\ cache' = [cache EXCEPT ![q] = None]
    /\ UNCHANGED <<pc, ctx, query, loopVars, respVars, result, hooks, randMu>>

Begin(c)     == Start(c) \/ StartInvalid(c)
Context(c)   == Cancel(c) \/ Expire(c)
LoopTop(c)   == LoopTopDone(c) \/ Dispatch(c)
CacheGet(c)  == CacheHit(c) \/ CacheMiss(c)
Network(c)   == NetAnswer(c) \/ NetError(c) \/ NetRedirectRefused(c) \/ NetAbort(c)
Fill(c)      == FillWhole(c) \/ FillTooLarge(c) \/ FillCut(c) \/ FillAbort(c)
Judge(c)     == JudgeFinal(c) \/ JudgeRetry(c)
Sleep(c)     == SleepZero(c) \/ SleepBegin(c) \/ SleepEnd(c) \/ SleepCancelled(c)
Post(c)      == PostError(c) \/ PostStatus(c) \/ PostDecode(c) \/ PostDecodeAbort(c)

Next ==
    \/ \E c \in Call :
          \/ Begin(c) \/ Context(c) \/ LoopTop(c) \/ CacheGet(c) \/ Network(c)
          \/ Fill(c) \/ CachePut(c) \/ Hook(c) \/ Judge(c) \/ RandLock(c)
          \/ Backoff(c) \/ Sleep(c) \/ Post(c)
    \/ \E q \in Query : CacheForget(q)

Spec == Init /\ [][Next]_vars

\* Goroutines run, timers fire, a mutex starves nobody, and net/http gives up
\* on a done context.  The upstream owes nothing, nor does the caller.
Fairness ==
    \A c \in Call :
        /\ WF_vars(Expire(c)) /\ WF_vars(LoopTop(c)) /\ WF_vars(CacheGet(c))
        /\ WF_vars(NetAbort(c)) /\ WF_vars(FillAbort(c)) /\ WF_vars(CachePut(c))
        /\ WF_vars(Hook(c)) /\ WF_vars(Judge(c)) /\ SF_vars(RandLock(c))
        /\ WF_vars(Backoff(c)) /\ WF_vars(Sleep(c)) /\ WF_vars(PostError(c))
        /\ WF_vars(~Unread(c) /\ Post(c)) /\ WF_vars(Done(c) /\ Post(c))

FairSpec == Spec /\ Fairness

-----------------------------------------------------------------------------
(* What must be true of it.                                                *)

\* When doJSONGet returns, by whichever of its ways out, it has closed every
\* network body it was given, those of abandoned attempts and those the cache
\* layer swallowed included (request.go:141-219, transport_cache.go:181-182).
NoBodyLeaks == \A c \in Call : pc[c] = "done" => open[c] = {}

\* After the loop without an error there is a response, and its body has not
\* been closed under the decoder's feet: resp = nil in the loop is always
\* overwritten before resp.StatusCode is looked at (request.go:154, 220).
DecodedBodyIsOpen ==
    \A c \in Call : pc[c] = "post" /\ err[c] = None =>
        resp[c] # None /\ (resp[c].buffered \/ resp[c].n \in open[c])

\* The cache holds whole 200 bodies of cacheable requests, each under its own
\* request's key, whatever fills, failures and cancellations raced
\* (transport_cache.go:165, 183-204; the holiday endpoints never get in).
CacheHoldsWholeAnswers ==
    \A q \in Query : cache[q] # None =>
        /\ q \in Cacheable
        /\ cache[q].of = q /\ cache[q].status = 200
        /\ cache[q].kind \in {"data", "empty", "malformed"}

\* No call is ever answered with the body of another request.
AnswersOwnRequest ==
    \A c \in Call : resp[c] # None => resp[c].body.of = query[c]

\* A call that ends on a retryable outcome has used every attempt, and only
\* then is it called exhausted (comment at request.go:232-238).
GivesUpOnlyWhenSpent ==
    \A c \in Call : pc[c] = "done" =>
        /\ result[c] = "apiExhausted" => ran[c] = Attempts
        /\ result[c] \in {"api", "failed", "exhausted"} /\ ShouldRetry(resp[c], err[c])
              => ran[c] = Attempts

\* The hook fires once for every round trip that ran, served by the network or
\* by the cache (transport_hook.go:85-88).
HookPerRoundTrip ==
    \A c \in Call : hooks[c] = ran[c] + (IF pc[c] = "judge" THEN 1 ELSE 0)

\* rand.Rand is not safe for concurrent use: no two calls compute a delay at
\* the same time (request.go:156-165).
RandIsExclusive ==
    \A c1, c2 \in Call : pc[c1] = "backoff" /\ pc[c2] = "backoff" => c1 = c2

\* A context that ends while the call is between two attempts, even in the same
\* instant as the back-off timer, ends the call with the context's error and no
\* further dispatch (request.go:105-121, 171-173).
CancelBetweenAttemptsWins ==
    \A c \in Call :
        (pc[c] \in {"top", "randLock", "backoff", "sleepEnter", "sleep"} /\ Done(c))
            ~> (pc[c] = "done" /\ result[c] = "ctx")

\* With a Client timeout every call returns, even if the upstream never does.
EveryCallReturns == \A c \in Call : pc[c] # "idle" ~> pc[c] = "done"

\* What options.go:195 says: a net.Error with Timeout() == true is retried;
\* asked of a call whose own context is alive.
TimeoutsAreRetried ==
    \A c \in Call : pc[c] = "post" /\ err[c] # None /\ IsNetTimeout(err[c]) /\ ~Done(c)
        => ran[c] = Attempts
=============================================================================
