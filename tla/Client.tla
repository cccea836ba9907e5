------------------------------- MODULE Client -------------------------------
(***************************************************************************)
(* Clients over their whole life: NewClient runs the caller's options and  *)
(* composes the chain of round trippers (client.go, config.go, options.go),*)
(* calls travel down and up that chain (transport*.go), Close shuts the    *)
(* cache down.  Several Clients may be given the same *http.Client and the *)
(* same cache backend, and several goroutines use them at once.            *)
(*                                                                         *)
(* A cache is what TTLMap promises together with the life of its sweeper,  *)
(* both of which MemoryCache details.  Options whose value no other part   *)
(* here depends on (timeout, retry, strictness, logger, user agent) are    *)
(* left out.                                                               *)
(***************************************************************************)
EXTENDS Integers, Sequences, FiniteSets

CONSTANTS
    ClientId,       \* the Clients that callers construct
    Proc,           \* goroutines that use them
    HTTPClient,     \* *http.Client values that callers own
    RoundTripper,   \* transports that callers install in those
    Host,           \* base URLs
    Backend,        \* caches that callers construct for WithCacheBackend
    Hook,           \* request hooks
    Query,          \* requests that cacheKey tells apart
    Cacheable,      \* those whose path isCacheablePath admits
    MaxOptions,     \* bound: options of one NewClient
    defaultBaseURL, DefaultTransport,
    None            \* nil

ASSUME OptionAssumption == MaxOptions \in Nat
ASSUME QueryAssumption  == Cacheable \subseteq Query
ASSUME HostAssumption   == defaultBaseURL \in Host

\* MemoryCache values that WithCache makes: the n-th of Client c.
Private == ClientId \X (1..MaxOptions)
Cache   == Backend \union Private

ASSUME NoneAssumption ==
    None \notin ClientId \union Query \union Cache \union Hook \union HTTPClient \union Host
ASSUME BackendAssumption == Backend \intersect Private = {}

\* Layers of a chain, outermost first; a nil Transport is the empty chain.
Layer ==      [kind : {"hook"}, of : Hook] \union [kind : {"cache"}, of : Cache]
       \union [kind : {"logging", "header"}, of : {None}]
       \union [kind : {"net"}, of : RoundTripper \union {DefaultTransport}]
Chain == Seq(Layer)

\* Every *http.Client there can be: the caller's, the one of defaultConfig and
\* the copy of composeHTTPClient.
DefaultHTTP(c) == <<c, "default">>
CopyHTTP(c)    == <<c, "copy">>
HTTPObject == HTTPClient \union (ClientId \X {"default", "copy"})

ASSUME HTTPAssumption == HTTPClient \intersect (ClientId \X {"default", "copy"}) = {}

Config == [http : HTTPObject, base : Host, cache : Cache \union {None},
           hook : Hook \union {None}, made : 0..MaxOptions]

VARIABLES
    phase,      \* each Client: "new", "options" (NewClient runs), "ready"
    applied,    \* options applied so far, while NewClient runs
    cfg,        \* its clientConfig, which a ready Client only reads; and how many
                \* caches WithCache has made for it
    http,       \* Client.http
    transport,  \* the Transport field of every *http.Client
    closeOnce,  \* Client.closeOnce
    closed,     \* some Close of the Client has returned
    entries,    \* what each cache holds: the host that answered, or None
    sweeper,    \* its sweeper: "none", "running", "exited"
    sweepCtx,   \* its context is cancelled
    cacheOnce,  \* its own closeOnce
    pc,         \* where each goroutine is
    on,         \* the Client it uses
    query,      \* what it asks for
    chain,      \* the Transport its http.Client.Do has read
    at,         \* the layer of it that its request or response is at
    answer,     \* the host whose body it holds
    fired       \* the hooks its round trip has fired

vars == <<phase, applied, cfg, http, transport, closeOnce, closed, entries, sweeper,
          sweepCtx, cacheOnce, pc, on, query, chain, at, answer, fired>>

buildVars == <<phase, applied, cfg, http, transport>>
cacheVars == <<entries, sweeper, sweepCtx, cacheOnce>>
closeVars == <<closeOnce, closed>>
tripVars  == <<on, query, chain, at, answer, fired>>
procVars  == <<pc, tripVars>>

Pc == {"idle", "down", "up", "start", "closeClient", "closeCache", "wait", "closeDone"}

TypeOK ==
    /\ phase \in [ClientId -> {"new", "options", "ready"}]
    /\ applied \in [ClientId -> 0..MaxOptions]
    /\ cfg \in [ClientId -> Config]
    /\ http \in [ClientId -> HTTPObject]
    /\ transport \in [HTTPObject -> Chain]
    /\ closeOnce \in [ClientId -> {"new", "running", "done"}]
    /\ closed \in [ClientId -> BOOLEAN]
    /\ entries \in [Cache -> [Cacheable -> Host \union {None}]]
    /\ sweeper \in [Cache -> {"none", "running", "exited"}]
    /\ sweepCtx \in [Cache -> BOOLEAN]
    /\ cacheOnce \in [Cache -> {"new", "running", "done"}]
    /\ pc \in [Proc -> Pc]
    /\ on \in [Proc -> ClientId \union {None}]
    /\ query \in [Proc -> Query \union {None}]
    /\ chain \in [Proc -> Chain]
    /\ at \in [Proc -> Nat]
    /\ answer \in [Proc -> Host \union {None}]
    /\ fired \in [Proc -> Seq(Hook)]

defaultConfig(c) == [http |-> DefaultHTTP(c), base |-> defaultBaseURL,
                     cache |-> None, hook |-> None, made |-> 0]

Init ==
    /\ phase = [c \in ClientId |-> "new"]
    /\ applied = [c \in ClientId |-> 0]
    /\ cfg = [c \in ClientId |-> defaultConfig(c)]
    /\ http = [c \in ClientId |-> DefaultHTTP(c)]
    /\ transport = [o \in HTTPObject |-> <<>>]
    /\ closeOnce = [c \in ClientId |-> "new"]
    /\ closed = [c \in ClientId |-> FALSE]
    /\ entries = [x \in Cache |-> [q \in Cacheable |-> None]]
    /\ sweeper = [x \in Cache |-> "none"]
    /\ sweepCtx = [x \in Cache |-> FALSE]
    /\ cacheOnce = [x \in Cache |-> "new"]
    /\ pc = [g \in Proc |-> "idle"]
    /\ on = [g \in Proc |-> None]
    /\ query = [g \in Proc |-> None]
    /\ chain = [g \in Proc |-> <<>>]
    /\ at = [g \in Proc |-> 0]
    /\ answer = [g \in Proc |-> None]
    /\ fired = [g \in Proc |-> <<>>]

-----------------------------------------------------------------------------
(* NewClient: the options in the order given, then composeHTTPClient.      *)

NewClient(c) ==
    /\ phase[c] = "new"
    /\ phase' = [phase EXCEPT ![c] = "options"]
    /\ cfg' = [cfg EXCEPT ![c] = defaultConfig(c)]
    /\ UNCHANGED <<applied, http, transport, closeVars, cacheVars, procVars>>

\* One more option: it changes the configuration and nothing else.
Option(c, new) ==
    /\ phase[c] = "options" /\ applied[c] < MaxOptions
    /\ applied' = [applied EXCEPT ![c] = @ + 1]
    /\ cfg' = [cfg EXCEPT ![c] = new]
    /\ UNCHANGED <<phase, http, transport, closeVars, entries, sweepCtx, cacheOnce, procVars>>

WithHTTPClient(c, h) == Option(c, [cfg[c] EXCEPT !.http = h]) /\ UNCHANGED sweeper
WithBaseURL(c, u)    == Option(c, [cfg[c] EXCEPT !.base = u]) /\ UNCHANGED sweeper
WithRequestHook(c, f) == Option(c, [cfg[c] EXCEPT !.hook = f]) /\ UNCHANGED sweeper
WithCacheBackend(c, b) == Option(c, [cfg[c] EXCEPT !.cache = b]) /\ UNCHANGED sweeper

\* A nil client, hook or backend, an empty URL or one of slashes, and a ttl that
\* is not positive: the option returns and leaves what was there.
WithNothing(c) == phase[c] = "options" /\ UNCHANGED vars

\* A positive ttl: the closure makes a cache of its own each time it runs, even
\* if the Option value is given to several NewClient calls.  No goroutine yet.
WithCache_Shared(c) ==
    /\ Option(c, [cfg[c] EXCEPT !.cache = <<CHOOSE d \in ClientId : TRUE, 1>>, !.made = 1])
    /\ UNCHANGED sweeper
WithCache_Eager(c) ==
    LET x == <<c, cfg[c].made + 1>>
    IN  /\ Option(c, [cfg[c] EXCEPT !.cache = x, !.made = @ + 1])
        /\ sweeper' = [sweeper EXCEPT ![x] = "running"]
WithCache(c) ==
    /\ Option(c, [cfg[c] EXCEPT !.cache = <<c, cfg[c].made + 1>>, !.made = @ + 1])
    /\ UNCHANGED sweeper

\* What a nil Transport stands for, here and in http.Client.Do.
Underlying(tr) == IF tr = <<>> THEN <<[kind |-> "net", of |-> DefaultTransport]>> ELSE tr

Layers_NilToo(k, x) == <<[kind |-> k, of |-> x]>>
Layers(k, x) == IF x = None THEN <<>> ELSE <<[kind |-> k, of |-> x]>>

buildTransport_HookInside(k, tr) ==
    Layers("cache", k.cache) \o Layers("hook", k.hook)
        \o <<[kind |-> "logging", of |-> None], [kind |-> "header", of |-> None]>>
        \o Underlying(tr)
buildTransport(k, tr) ==
    Layers("hook", k.hook) \o Layers("cache", k.cache)
        \o <<[kind |-> "logging", of |-> None], [kind |-> "header", of |-> None]>>
        \o Underlying(tr)

\* The chain goes into a copy, so that neither another Client nor the caller
\* sees it.
composeHTTPClient_InPlace(c) ==
    /\ transport' = [transport EXCEPT ![cfg[c].http] = buildTransport(cfg[c], @)]
    /\ http' = [http EXCEPT ![c] = cfg[c].http]
composeHTTPClient(c) ==
    /\ transport' = [transport EXCEPT ![CopyHTTP(c)] =
                       buildTransport(cfg[c], transport[cfg[c].http])]
    /\ http' = [http EXCEPT ![c] = CopyHTTP(c)]

Compose(c) ==
    /\ phase[c] = "options"
    /\ phase' = [phase EXCEPT ![c] = "ready"]
    /\ applied' = [applied EXCEPT ![c] = 0]
    /\ composeHTTPClient(c)
    /\ UNCHANGED <<cfg, closeVars, cacheVars, procVars>>

\* External: the caller gives its *http.Client another Transport (or none),
\* though not while a NewClient is reading it.
SetTransport(h, tr) ==
    /\ \A c \in ClientId : phase[c] # "options"
    /\ transport' = [transport EXCEPT ![h] =
                       IF tr = None THEN <<>> ELSE <<[kind |-> "net", of |-> tr]>>]
    /\ UNCHANGED <<phase, applied, cfg, http, closeVars, cacheVars, procVars>>

-----------------------------------------------------------------------------
(* A round trip: down the chain to the network or to a cache that answers, *)
(* then up again.  Nothing asks whether the Client has been closed.        *)

Goto(g, from, to) == pc[g] = from /\ pc' = [pc EXCEPT ![g] = to]

Here(g) == chain[g][at[g]]

\* The next layer inward that may answer, and the next one outward that does
\* something with a response; the others hand on what they get.
Next_In(ch, i) == CHOOSE n \in (i + 1)..Len(ch) :
    /\ ch[n].kind \in {"cache", "net"}
    /\ \A m \in (i + 1)..(n - 1) : ch[m].kind \notin {"cache", "net"}
Next_Out(ch, i) == CHOOSE n \in 0..(i - 1) :
    /\ n > 0 => ch[n].kind \in {"cache", "hook"}
    /\ \A m \in (n + 1)..(i - 1) : ch[m].kind \notin {"cache", "hook"}

Inner(g) == at' = [at EXCEPT ![g] = Next_In(chain[g], @)]
Outer(g) == at' = [at EXCEPT ![g] = Next_Out(chain[g], @)]

Call(g) ==
    /\ Goto(g, "idle", "down")
    /\ \E c \in ClientId, q \in Query :
          /\ phase[c] = "ready"
          /\ on' = [on EXCEPT ![g] = c]
          /\ query' = [query EXCEPT ![g] = q]
          /\ chain' = [chain EXCEPT ![g] = Underlying(transport[http[c]])]
          /\ at' = [at EXCEPT ![g] = Next_In(chain'[g], 0)]
    /\ UNCHANGED <<buildVars, closeVars, cacheVars, answer, fired>>

\* The layer is a cache and the request is one of those it keeps.
Consulted(g) ==
    at[g] \in DOMAIN chain[g] /\ Here(g).kind = "cache" /\ query[g] \in Cacheable

\* A cache that does not keep such requests, or misses.
Down(g) ==
    /\ pc[g] = "down" /\ Here(g).kind = "cache"
    /\ Consulted(g) => entries[Here(g).of][query[g]] = None
    /\ Inner(g)
    /\ UNCHANGED <<buildVars, closeVars, cacheVars, pc, on, query, chain, answer, fired>>

CacheHit(g) ==
    /\ Goto(g, "down", "up")
    /\ Consulted(g) /\ entries[Here(g).of][query[g]] # None
    /\ answer' = [answer EXCEPT ![g] = entries[Here(g).of][query[g]]]
    /\ Outer(g)
    /\ UNCHANGED <<buildVars, closeVars, cacheVars, on, query, chain, fired>>

\* External: the host of the Client's base URL answers 200; or the transport
\* fails, or the status is another one (no answer that a cache would keep).
Network(g) ==
    /\ Goto(g, "down", "up")
    /\ Here(g).kind = "net"
    /\ answer' \in {[answer EXCEPT ![g] = u] : u \in {cfg[on[g]].base, None}}
    /\ Outer(g)
    /\ UNCHANGED <<buildVars, closeVars, cacheVars, on, query, chain, fired>>

UpHook(g) ==
    /\ pc[g] = "up" /\ at[g] > 0 /\ Here(g).kind = "hook"
    /\ fired' = [fired EXCEPT ![g] = Append(@, Here(g).of)]
    /\ Outer(g)
    /\ UNCHANGED <<buildVars, closeVars, cacheVars, pc, on, query, chain, answer>>

\* The cache stores what its miss has fetched, and then starts the sweeper.
UpCache(g) ==
    /\ Goto(g, "up", "start")
    /\ Consulted(g) /\ answer[g] # None
    /\ entries' = [entries EXCEPT ![Here(g).of][query[g]] = answer[g]]
    /\ UNCHANGED <<buildVars, closeVars, sweeper, sweepCtx, cacheOnce, tripVars>>

StartSweeper(g) ==
    /\ Goto(g, "start", "up")
    /\ sweeper' = [sweeper EXCEPT ![Here(g).of] = IF @ = "none" THEN "running" ELSE @]
    /\ Outer(g)
    /\ UNCHANGED <<buildVars, closeVars, entries, sweepCtx, cacheOnce,
                   on, query, chain, answer, fired>>

UpPass(g) ==
    /\ pc[g] = "up" /\ at[g] > 0 /\ Here(g).kind = "cache"
    /\ ~(Consulted(g) /\ answer[g] # None)
    /\ Outer(g)
    /\ UNCHANGED <<buildVars, closeVars, cacheVars, pc, on, query, chain, answer, fired>>

Forget(g) ==
    /\ on' = [on EXCEPT ![g] = None]
    /\ query' = [query EXCEPT ![g] = None]
    /\ chain' = [chain EXCEPT ![g] = <<>>]
    /\ answer' = [answer EXCEPT ![g] = None]
    /\ fired' = [fired EXCEPT ![g] = <<>>]

Return(g) ==
    /\ Goto(g, "up", "idle")
    /\ at[g] = 0
    /\ Forget(g)
    /\ UNCHANGED <<buildVars, closeVars, cacheVars, at>>

-----------------------------------------------------------------------------
(* Client.Close, and the Close of its cache.  Either is a sync.Once: who   *)
(* comes first runs it, the others wait.                                   *)

CloseCall(g) ==
    /\ Goto(g, "idle", "closeClient")
    /\ \E c \in ClientId : phase[c] = "ready" /\ on' = [on EXCEPT ![g] = c]
    /\ UNCHANGED <<buildVars, closeVars, cacheVars, query, chain, at, answer, fired>>

TheCache(g) == cfg[on[g]].cache

CloseFirst(g) ==
    /\ Goto(g, "closeClient", IF TheCache(g) = None THEN "closeDone" ELSE "closeCache")
    /\ closeOnce[on[g]] = "new"
    /\ closeOnce' = [closeOnce EXCEPT ![on[g]] = "running"]
    /\ UNCHANGED <<buildVars, closed, cacheVars, tripVars>>

CloseReturn(g, from) ==
    /\ Goto(g, from, "idle")
    /\ closed' = [closed EXCEPT ![on[g]] = TRUE]
    /\ Forget(g)
    /\ UNCHANGED <<buildVars, cacheVars, at>>

CloseAgain_NoWait(g) ==
    /\ CloseReturn(g, "closeClient")
    /\ closeOnce[on[g]] # "new"
    /\ UNCHANGED closeOnce
CloseAgain(g) ==
    /\ CloseReturn(g, "closeClient")
    /\ closeOnce[on[g]] = "done"
    /\ UNCHANGED closeOnce

\* Cancels and waits, until the sweeper has exited or the millisecond is over.
CacheCloseFirst(g) ==
    /\ Goto(g, "closeCache", "wait")
    /\ cacheOnce[TheCache(g)] = "new"
    /\ cacheOnce' = [cacheOnce EXCEPT ![TheCache(g)] = "running"]
    /\ sweepCtx' = [sweepCtx EXCEPT ![TheCache(g)] = TRUE]
    /\ UNCHANGED <<buildVars, closeVars, entries, sweeper, tripVars>>

CacheCloseAgain(g) ==
    /\ Goto(g, "closeCache", "closeDone")
    /\ cacheOnce[TheCache(g)] = "done"
    /\ UNCHANGED <<buildVars, closeVars, cacheVars, tripVars>>

CacheClosed(g) ==
    /\ Goto(g, "wait", "closeDone")
    /\ cacheOnce' = [cacheOnce EXCEPT ![TheCache(g)] = "done"]
    /\ UNCHANGED <<buildVars, closeVars, entries, sweeper, sweepCtx, tripVars>>

CloseEnd(g) ==
    /\ CloseReturn(g, "closeDone")
    /\ closeOnce' = [closeOnce EXCEPT ![on[g]] = "done"]

-----------------------------------------------------------------------------
(* What the caches do on their own.                                        *)

SweeperExit(x) ==
    /\ sweeper[x] = "running" /\ sweepCtx[x]
    /\ sweeper' = [sweeper EXCEPT ![x] = "exited"]
    /\ UNCHANGED <<buildVars, closeVars, entries, sweepCtx, cacheOnce, procVars>>

\* An entry's time is over (see TTLMap).
Expire(x, q) ==
    /\ entries[x][q] # None
    /\ entries' = [entries EXCEPT ![x][q] = None]
    /\ UNCHANGED <<buildVars, closeVars, sweeper, sweepCtx, cacheOnce, procVars>>

Build(c) ==
    \/ NewClient(c) \/ WithNothing(c) \/ WithCache(c) \/ Compose(c)
    \/ \E h \in HTTPClient : WithHTTPClient(c, h)
    \/ \E u \in Host : WithBaseURL(c, u)
    \/ \E f \in Hook : WithRequestHook(c, f)
    \/ \E b \in Backend : WithCacheBackend(c, b)

RoundTrip(g) ==
    \/ Call(g) \/ Down(g) \/ CacheHit(g) \/ Network(g) \/ UpHook(g) \/ UpCache(g)
    \/ StartSweeper(g) \/ UpPass(g) \/ Return(g)

Close(g) ==
    \/ CloseCall(g) \/ CloseFirst(g) \/ CloseAgain(g) \/ CacheCloseFirst(g)
    \/ CacheCloseAgain(g) \/ CacheClosed(g) \/ CloseEnd(g)

Next ==
    \/ \E c \in ClientId : Build(c)
    \/ \E h \in HTTPClient, tr \in RoundTripper \union {None} : SetTransport(h, tr)
    \/ \E g \in Proc : RoundTrip(g) \/ Close(g)
    \/ \E x \in Cache : SweeperExit(x)
    \/ \E x \in Cache, q \in Cacheable : Expire(x, q)

Spec == Init /\ [][Next]_vars

-----------------------------------------------------------------------------
(* What must be true of it.                                                *)

Ready(c) == phase[c] = "ready"

\* The body a call holds came from the Client's own base URL, or through a cache
\* that both the Client and the one which fetched it were given; never through
\* the chain of an unrelated Client, not even one that was built from the same
\* *http.Client (config.go:140-144).
AnswersComeThroughOwnCache ==
    \A g \in Proc : answer[g] # None =>
        \E c \in ClientId :
            /\ Ready(c) /\ cfg[c].base = answer[g]
            /\ c = on[g] \/ (query[g] \in Cacheable /\ cfg[c].cache = TheCache(g))

\* A round trip, cached or not, has fired the Client's own hook once and no other
\* hook, however many Clients share an *http.Client (config.go:197-207,
\* transport_hook.go:94-110).
HookFiresOnce ==
    \A g \in Proc : pc[g] = "up" /\ at[g] = 0 =>
        fired[g] = IF cfg[on[g]].hook = None THEN <<>> ELSE <<cfg[on[g]].hook>>

\* A sweeper that runs has been told to stop, or belongs to the cache of a Client
\* whose Close has not returned: closing every Client leaves no goroutine behind,
\* whichever caches were made and superseded while options ran, and whichever
\* call of Close came first (options.go:328-342, client.go:138-145).
NoOrphanSweeper ==
    \A x \in Cache : sweeper[x] = "running" =>
        sweepCtx[x] \/ \E c \in ClientId : Ready(c) /\ cfg[c].cache = x /\ ~closed[c]

\* The sweeper of a cache that WithCache made stops for its own Client's Close
\* only, even if Clients were built from the same Option values
\* (options.go:337-342, client.go:138-145).
CloseDisturbsNobodyElse ==
    \A c \in ClientId :
        Ready(c) /\ cfg[c].cache \in Private /\ sweepCtx[cfg[c].cache]
            => closeOnce[c] # "new"

\* What transport_cache.go:26-28 says of a key without the host, and PITFALLS.md
\* of the cache: a Client answers from its own base URL only.
AnswersFromOwnHost ==
    \A g \in Proc : answer[g] # None => answer[g] = cfg[on[g]].base
=============================================================================
