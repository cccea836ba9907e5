# A TLA+ model of go-openholidays

`go-openholidays` is a Go client library for the OpenHolidays HTTP API, with a
demo CLI. This directory holds specifications of its core, the configurations
that check them with TLC, and theorems about them that TLAPS checks.
`PROJECT.json` lists components, runs, mutants, source lines, hazards, findings
and theorems; this file explains them. Source paths below are relative to `src/`.

## 1. The system

| Component | State | Operations | Talks to |
|---|---|---|---|
| Memory cache (`cache.go`) | map under a RWMutex, two `sync.Once`, sweeper goroutine, its context and done channel | `Get`, `Put`, `Close`; ticker, `evict` | called by the cache transport and by `Client.Close` |
| Request pipeline (`request.go`, `client.go`) | per call: context, attempt counter, response, error; shared: jitter source under `randMu` | `doJSONGet`, `ctxSleep` | every endpoint method above it; `http.Client` below |
| Round-tripper chain (`config.go`, `transport*.go`) | the cache behind `cacheTransport`; nothing else | hook → cache → logging → header → network | wraps `http.Client`'s transport |
| Retry policy (`retry.go`, `options.go`) | `retryConfig`, written by options, then constant | `shouldRetry`, `parseRetryAfter`, `computeBackoff` | the retry loop |
| Response decoding (`request.go`) | a reader limited to 10 MiB and a JSON decoder that reads ahead | decode, three gates, `decoder.More` | last part of `doJSONGet` |
| Holiday endpoints (`public_holidays.go`, `school_holidays.go`, `validate.go`) | none | check, dispatch, `validateHolidays` | the pipeline |
| Dates and holidays (`date.go`, `holiday.go`) | none | `Days`, `Range`, `DaysUntil`, ... | callers |
| Region matching (`client_isinregion.go`, `holiday.go`) | per call: index and loop variables | `Holiday.IsInRegion`, `Client.IsInRegion` | `Client.Subdivisions`, so the pipeline |
| Client construction and lifecycle (`client.go`, `config.go`, `options.go`) | the configuration while options run; the caller's `http.Client` and its copy; `closeOnce` | options, `NewClient`, `composeHTTPClient`, `buildTransport`, `Close` | builds all of the above |
| List endpoints (`countries.go`, `languages.go`, `subdivisions.go`) | none | check, dispatch | the pipeline |
| API errors (`errors.go`, `request.go`) | none | `buildAPIError`, `parseAPIMessage`, `Is` | callers |
| Header and logging transports (`transport.go`) | none | `RoundTrip` | the chain |
| Demo CLI (`cmd/ohcli`) | one run: argument lists, flag values | `run`, `reorderArgs`, handlers | the library |

A call of an endpoint method validates its arguments, runs the retry loop of
`doJSONGet`, and each attempt goes through hook, cache and network. Three
things are shared by concurrent calls: the cache, the jitter source and
the hook. Several Clients may also share an `http.Client` and a cache backend. Nothing is persisted, so there are no crashes to recover from.

What is hard about it, and what must hold:

* **Concurrency in the cache.** The clock is read before, under or after the
  lock; the sweeper starts lazily; `Close` waits for one millisecond only. Live
  entries must never vanish, expiry must never move backwards, there must be at
  most one sweeper, and it must end.
* **Ways out of the retry loop.** Responses are closed in four different
  places, `resp` is set to `nil` inside the loop and dereferenced behind it, and
  the context may end between any two steps. Every body must be closed and none
  decoded after that.
* **Sharing between calls.** No call may get another request's answer; only
  whole 200s may be cached.
* **Arithmetic.** Shifts and products of durations overflow; date differences
  saturate; three years from a leap day end nowhere.
* **Foreign data.** Trees with repeated codes (hence cycles in the index),
  holidays without dates, bodies that end at the cap.
* **What Clients share.** The chain goes into a copy of the caller's
  `http.Client`; caches are made while options run and may be superseded; `Close`
  races calls in flight. Answers, hooks and sweepers must stay with their Client.
* **Order of what callers say.** Options, flags and positionals in any order.

## 2. Modules

| Module | Models | Runs |
|---|---|---|
| `TTLMap` | what a cache promises: a map whose entries vanish on their own | (abstract specification) |
| `MemoryCache` | `cache.go`, goroutine by goroutine | `cache_*` |
| `MemoryCacheRefinement` | `MemoryCache` implements `TTLMap` | `cache_safety` |
| `Request` | `doJSONGet`, `ctxSleep`, `shouldRetry`, hook and cache transports, for concurrent calls | `request_*` |
| `CallContract` | what a call promises its caller: tries, and the outcome of the last one | (abstract specification) |
| `RequestRefinement` | `Request` implements `CallContract` | `request_safety` |
| `Client` | options, `NewClient`, the chain of transports and round trips through it, `Close`, for Clients that share what callers give them | `client_*` |
| `RetryPolicy` | retry options, `parseRetryAfter`, `computeBackoff` in w-bit arithmetic | `retry_*` |
| `RegionWalk` | both `IsInRegion` functions, index and capped walk | `region_*` |
| `Calendar` | `date.go` over a model of package `time` | (used by `HolidayQuery`) |
| `HolidayQuery` | request checks of all endpoints, `validateHolidays`, `Days`, `Range` | `holiday_*` |
| `Decode` | the capped decoder and its gates, the cache's read-ahead before it, API error bodies | `decode_*` |
| `Cli` | one run of `ohcli` | `cli_*` |
| `MC*` | constants for TLC | |
| `*Proofs` | theorems and their proofs | |

`Request` sees the cache as `TTLMap` does (a key holds the last thing put until
it vanishes), which `MemoryCacheRefinement` justifies. `Request` abstracts a
delay to "the sleep ends", the subject of `RetryPolicy`; a body to one of five
kinds, the subject of `Decode`. `Client` abstracts a call to one round trip, as the
retry loop repeats it without a state of its own, and a cache to what `TTLMap`
promises plus the life of its sweeper, which `MemoryCache` details.
`Request` fixes the order of the layers that `Client` derives from the code; and `HolidayQuery`, `RegionWalk` and `Cli`
abstract the round trip to success or failure, the subject of `Request`.

Operators named `X_Something` stand before the definition `X` of which they are
a faulty variant. Every property of a passing run fails when one of them takes
`X`'s place, so none of the properties is empty. They are used by no
specification.

### MemoryCache

One step is one indivisible piece of a goroutine: a read or write under the
mutex, one clock reading, one pass through a `sync.Once`, one arm of a
`select`. `Put` is `PutLock`, `PutStamp` (the clock), `PutStore` (with the
unlock) and `PutStart` (`startOnce`); `evict` is `EvictClock`, `EvictLock`,
`EvictScan`. The variable `mu` holds the writer; a reader needs it to be empty
for its one step. The ticker's channel holds one tick. A sweeper is known by the
goroutine that started it, so that two sweepers would be visible.

*Abstractions.* Arguments are chosen in the step that uses them first. The
defensive copies of values are not modelled (values are immutable here). The
ticker's period does not matter to any property; the millisecond of `Close` is
not tied to the clock.

### Request

Each call walks through `top` (the context check), `cacheGet`, `net`, `fill`
and `cachePut` (the cache transport reads ahead), `hook`, `judge` (`shouldRetry`
and the last-attempt test), `randLock`, `backoff`, the sleep, and `post` (the
part behind the loop). `Cancel` and `Expire` may strike between any two of
them. The network is external and answers with any status and any kind of body,
fails, refuses a redirect (a response together with an error), or stays silent.
`open` holds the attempts whose body is still to be closed.

`CallContract` is that call as its caller sees it, alone: a try, its outcome, then
another try or a report. `RequestRefinement` maps the points of the loop to its
phases, the hook's count to the tries, and response and error to the outcome while
they are being judged (`PhaseOf`, `VerdictOf`). `Dispatch` (the live
context at the loop's top) is the abstract `Try`, `Hook` is `Conclude`, `JudgeRetry` is
`Again`, and every `Post*` is `Report`; a context found done at the top or in the sleep
is `Abandon`. Network, cache, reading ahead, `randMu` and the sleep are invisible. What is not: a refused retry while tries
are left, a retry of what is final, a report of anything but the last outcome, a try after
the context ended, or another query's body.

*Abstractions.* A redirect that `http.Client` follows counts as one round trip
(the hook transport really fires for every hop). The error "other" stands for
all that is not retried. Panicking hooks and custom round trippers that break
the `RoundTripper` contract are left out. Queries are compared by what
`cacheKey` builds from them.

### Client

`NewClient` is `NewClient`, one action per option, and `Compose`
(`composeHTTPClient` with `buildTransport`). `transport` is the field of every
`*http.Client` there is, the caller's as well as the copies; a chain is a sequence
of layers, outermost first. A call reads the chain (`http.Client.Do`) and
travels: `Down` through caches that miss to `Network`, or to a `CacheHit`, and
back `Up` through caches that store and hooks that fire. A Put is `UpCache` and
`StartSweeper`, as in `MemoryCache`. `Client.Close` and the cache's `Close` are
two nested `sync.Once`, so they have four and three steps. The caller may install
a Transport in its `http.Client` whenever no `NewClient` is reading it (`SetTransport`).

*Abstractions.* Header and logging layers stand in the chain, but a step that
only hands on is not taken. A cached value is the host it came from. Options
that nothing else here depends on are left out (timeout, retry, strictness, user
agent, logger). Custom backends behave as `MemoryCache` does.

### RetryPolicy

`Width` is 64 in Go; here it is a parameter, with `Second` and `Millisecond`
scaled to it, so that six bits reach the same boundaries. Options are applied
in any order and number up to `MaxOptions`. `ShiftLeft` and `Wrap` are Go's
integer arithmetic.

### RegionWalk

A tree is a sequence of nodes in depth-first order that name their parent's
place. Codes are pairs of a name and a spelling; `EqualFold` and `ToUpper`
compare names. (They differ for a few non-ASCII letters, which no
code of the API has.) The walk's loop is one step per round.

The code answers the flat question twice: in `Holiday.IsInRegion`, here
`FlatIsInRegion`, and by hand in the first lines of `Client.IsInRegion`, here
`Nationwide`, `EmptyCode`, `FlatMatch`, `NoSubdivisions` and `NoPrefix`, each with
the way past those before it. `FlatAgrees` compares the two.

### HolidayQuery, Calendar

`Calendar` counts days from 0001-01-01. `NewDate`, `AddYears` and `AddDays`
normalise like `time.Date`; `Sub` saturates where a `Duration` ends. One
action stands for both holiday endpoints, which differ only in the query they build;
`Countries` and `Languages` share one kind of request, `Subdivisions` has
another, and nothing is checked in the lists they return.
The request is chosen when the call is made and forgotten once it is on
its way. A window of two zero dates passes the check in the code and in the model.
Holidays may be returned by an endpoint or built by hand.

### Decode

A body is a sequence of bytes of four classes. The decoder refills in chunks of
its own choice through a reader that stops at `Cap`. A transfer ends regularly
or is cut. `route` says who reads it: the decoder, the cache transport (which
reads all of it first and has verdicts of its own) and then the decoder, or
`buildAPIError` up to `ErrorCap`. `encoding/json` is modelled as far as `doJSONGet` can see it: when it
asks for more, and what it reports.

### Cli

A token is a word, `-name`, or `-name=text`. The loop of `reorderArgs` takes one
step per round, then `flag.Parse` (external) one per flag. The library answers
with each of its errors.

## 3. Runs

Passing runs, their bounds, and why those are enough:

| Run | Shows | Bounds |
|---|---|---|
| `cache_safety` | live entries stay, expiry never regresses, one sweeper; `MemoryCache` implements `TTLMap` | 3 callers (a Put, a second Put or Close, and a reader race a sweeper), 1 key (keys do not interact), 2 values (to tell an old answer from a new one), TTL 1, 4 instants: before, at and after expiry, and a refresh |
| `cache_liveness` | calls return, the sweeper ends, expired entries go | 2 callers, TTL 0 so that both instants matter; no symmetry |
| `request_safety` | bodies are closed, none is decoded when closed, attempts are spent, the cache under sharing; `Request` implements `CallContract` | 2 calls, 3 attempts (first, middle, last), 2 cacheable requests and one that is not, an answer that is cached and one that is retried |
| `request_liveness` | calls return; the context wins between attempts | 2 calls that contend for the mutex, 2 attempts; no symmetry |
| `client_lifecycle` | answers, hooks, sweepers and `Close` stay with their Client | 2 Clients and 2 goroutines (a Close against a call, two Closes, two calls), 2 hosts, an `http.Client`, a backend and a hook to share, 2 options (one supersedes another), a cacheable query; requests that bypass the cache are `Request`'s |
| `region_walk` | the walk ends and answers reachability; a yes follows edges of the tree, and with distinct codes the answer is containment; the client agrees with the flat test | trees of 3 nodes in two spellings: self-loops with a tail, a cycle of two, a chain that needs the last round; a code without prefix; no symmetry |
| `retry_delays` | bounds on every delay | 6 bits, up to 3 options, 8 attempts (more than the bits that are left), every header |
| `holiday_answers` | which windows are sent, what is returned is sound, `Range` and `Days` agree | windows: all leap-day neighbours in seven years, 2100 included; 2 holidays with dates around a leap day, a year's end and a century; years 96 and 100 stand for 2096 and 2100, as the calendar repeats every 400 years; `MaxDays` is 1154, between the spans of two of the holidays, where Go has 106751 |
| `decode_verdicts` | the verdict on every body, whoever reads it and however it arrives | cap 4, error cap 3, bodies of up to 6 bytes: shorter, equal and longer than either, every chunking |
| `cli_lines` | every command line means what it says | 5 tokens: two positionals, a flag with value, and another flag; `--` among them |

In `client_*` the action constraint `UnbrokenNewClient` runs each `NewClient` without a
break. This loses nothing: an option changes a configuration that no other
goroutine can see, and `Compose` reads what only `SetTransport`, which waits,
could change. The proofs do not assume it.

`CHECK_DEADLOCK FALSE` is set where what is modelled ends: calls return,
a client stops retrying, a program exits. `MemoryCache` never stops, and there
deadlock is checked.

### Findings

Runs that are expected to be violated. Each checks one sentence of a comment
against the code:

| Run | The comment | The code |
|---|---|---|
| `request_timeouts` | `options.go:195`: transport timeouts are retried | those that match `context.DeadlineExceeded` (dial, response header) are not, although the call's context is alive |
| `client_isolation` | `transport_cache.go:26`, `PITFALLS.md:581`: the key needs no host, as caches are private; a shared one would have it in the key | `WithCacheBackend` shares a cache between Clients with different base URLs, and each answers from the other's host |

Smaller disagreements between comments and code, which the models show too but
for which no run is kept:

* `cache.go:274`: no sweeper work after `Close` returns. `Close` returns after a
  millisecond; a `select` that then finds both a tick and the cancellation may
  begin another scan, and so may a sweeper that a later Put starts.
* `options.go:323`, `options.go:341`: `ttl <= 0` means disabled, `cfg.cache` stays nil. After
  another `WithCache` or `WithCacheBackend`, `WithCache(0)` leaves that cache in place.
* `config.go:10`: header, then logging transport. The chain has logging outside.
* `cache.go:66`: `Get` must miss at `expiresAt`; it misses only after it.
* `errors.go:65`: malformed bodies are told apart from transport failures; a
  transfer that breaks off inside the body is reported as malformed.
* `errors.go:40`: `ErrEmptyResponse` means a 2xx; a 3xx without a body yields it too.
* `retry.go:283`: `exp > 0` rejects the overflow; a product that wraps to a small
  positive number is taken (it stays below the ceiling, so `DelayWithinCap` holds).
* `holiday.go:82`: `Days` is the inclusive count; past 106752 days it stands
  still, where `Range` goes on. `RangeAgreesWithDays` fixes where it does.
* `public_holidays.go:103`, `errors.go:44`: too large means beyond the cap; only
  what the decoder has pulled is judged, and a second document in a short body is
  called too large as well.
* `main.go:188`: a trailing flag without value is an error; it takes the first
  positional as its value, and the request is sent.
* `main.go:141`, `main.go:144`: flags behind `--` take effect, and an empty value is
  not paired with its flag.

## 4. Fairness

* `MemoryCache`: steps of a runnable goroutine are weakly fair. Taking the lock
  is strongly fair, because `sync.RWMutex` starves neither readers nor writers.
  `SweepExit` is strongly fair: a `select` chooses uniformly, so a cancelled
  context that is ready in every round is chosen in the end. Clock and ticker go
  on. Nobody is obliged to call, and `Close` is never forced.
* `Request`: the goroutine's own steps, the Client's timeout, the back-off timer
  and the transport's reaction to a finished context are weakly fair;
  `randMu` is strongly fair. The network's answers and the caller's
  `Cancel` are not fair at all: without a Client timeout a silent upstream keeps
  a call for ever, and `EveryCallReturns` is only claimed with one. Reading a
  body is fair only if it is in memory or the context has ended.
* `RegionWalk`: the loop of a sequential call goes on. Nothing is assumed of the
  fetch before it: that it returns is `EveryCallReturns` of `Request`.

## 5. What is proved

TLAPS checks the theorems for all values of the constants, under the `ASSUME`s
of the modules: sizes are natural numbers, the markers for "nothing" are
none of the things, the arithmetic has at least two bits and positive
units and defaults. TLC evaluates these assumptions in every run.

* **`MemoryCacheProofs`**. The invariant `IInv` adds to the types: holders of
  the lock are exactly the goroutines between lock and unlock (`LockInv`); no
  sweeper before `startOnce`, one after (`OnceInv`); no clock reading is ahead
  of the clock, and while a Put holds a reading no entry outlives what it will
  store (`ClockInv`); who waits or has returned has cancelled (`CloseInv`). The
  action properties need it: `EvictOnlyExpired` because the sweeper's reading is
  not ahead of the clock, `ExpiryNeverRegresses` because the stamp was taken
  under the lock, where no other Put can slip in. `Refinement` proves the step
  simulation of `TTLMap` under the mapping `Live`, `View`, `Answer`: `PutStore` is
  the map's store, the locked read of a `Get` its look, the return its reply, the
  clock's step its vanishing of what expires; all else stutters. That a scan of the
  sweeper is invisible and that a stored entry is visible at once both need `ClockInv`.
* **`RequestProofs`**. For any number of calls and attempts, with or without
  cache and timeout. Per call, `Counted` ties attempts, `ran` and hooks together
  at each point; `Bodies` says which body is still open; `Answers` whose answer
  is held. `Jitter` and `CacheHoldsWholeAnswers` speak of what is shared.
  `NoBodyLeaks` and `DecodedBodyIsOpen` are not inductive alone: both need to
  know what is open in the middle of an attempt. `GivesUpOnlyWhenSpent` needs
  `Spent`: a retryable outcome leaves the loop only with the last attempt.
  `CallsKeepContract` is the step simulation of `CallContract`. A step of the others
  changes nothing of a call (`MapsTo`), not even through the cache; inside an attempt nothing shows
  (`Hidden`); the outcome that the hook has counted is of the call's own query
  (`VerdictFits`, from `Answers`); and each return reports it (`Reporting`, from
  `Counted`, `Bodies` and `Spent`).
* **`ClientProofs`**. For any number of Clients, goroutines, options and shared
  things. `IInv` says of a composed Client that its copy of the `http.Client` holds
  exactly its own layers around a bare transport (`Built`), that no chain ever
  reaches a caller's `http.Client` (`Untouched`), what a round trip has fired,
  holds and still has before it at its place in the chain (`Trips`), where each `Close` stands and what
  it has cancelled (`Closing`), and that a cache holds only what one of its
  Clients has fetched (`Fetched`). `HookFiresOnce` and
  `AnswersComeThroughOwnCache` follow from the shape of the chain, which no
  property speaks of; `NoOrphanSweeper` needs that whoever has returned from a
  `Close` has cancelled, whichever call was first.
* **`RegionWalkProofs`**. The walk keeps no record of what it visited, so the
  invariant says that there is a set `S` of visited codes: either all of it but
  the current code has been left upward, one round each, or the walk is inside a
  set closed under parents that holds no entry. When the cap is exceeded the
  first is impossible by counting, so "no" is right. On a tree whose codes are
  distinct the index is the tree's parent relation (`TidyIndex`), so that reaching
  an entry and lying below it are the same; on any tree each entry of the index is
  an edge of it (`IndexIsFromTree`), so that a yes follows edges (`AnswerFollowsTree`).
  `FlatCorrect` carries what the fast paths have settled through fetch and walk
  (`PathInv`): whoever walks an index has already had a "no" to the flat test of
  the code, and without an index a code reaches itself only.
* **`RetryPolicyProofs`**. `RInv` is the conjunction of the module's
  properties; it is inductive since an enabled policy is sane when a delay is
  computed. The heart is that `n > MaxInt \div Second` is exactly overflow.
* **`DecodeProofs`**. For bodies of any length, any caps and any chunks. `Scanned`
  relates the decoder's place, which advances byte by byte, to `Start`, `End` and
  `Rest`, which are read off the body as a whole; each verdict then follows from
  where the decoder stands when it is given.
* **`HolidayQueryProofs`**. For all dates. First the calendar: months and years
  follow each other without a gap (`NextMonth`, `NextYear`), so that counting days
  and comparing year, month and day order dates alike (`CalendarOrder`), the day
  after a date is one day later (`NextDay`), and three years before 29 February is
  1 March (`ThreeYearsBack`). The window and `Range` follow; of the endpoints the
  invariant keeps what has been checked (`Checked`). The configured dates must be
  dates of the calendar (`DateAssumption`).
* **`CliProofs`**. For any tokens and lines of any length. Nothing is sent before
  the library has accepted the request, and what fails after that is none of the
  sentinels that mean 2. `FlagsAnywhere` relates two loops to a reading of the line as
  a whole. `LineInv` says of the first that its two lists are the bound tokens and
  the free words of what it has passed, each in the order typed (`InOrder`), and
  that it never stands between a flag and its value; of `flag.Parse` that up to a
  boundary of the sorted line it has read just the flags before it; of the
  handlers that each check which was passed holds of the line as typed.

Some theorems have no run, since the proof says more than a small instance could:
`JitterExclusive` (two calls never draw jitter at once), `CloseCancels` (no `Close` of
a cache returns before the cancellation), `NoDoubleClose` (the sweeper closes its
channel once), `OneHookPerRoundTrip` (one hook for each attempt, with retries),
`OwnAnswer` (no call holds another request's body, which the contract's run shows as well)
and `RetryAfterHonoured` (jitter never undercuts `Retry-After`).

Five more say that nothing goes round for ever. Each names a number that every step
makes smaller, and bounds it, for all sizes:

| Theorem | What ends | Bound on the steps |
|---|---|---|
| `CallsAreBounded` | a call's own steps, whatever others and the context do | 14 per attempt, and 13 |
| `WalksEnd` | the walk, on every tree and cyclic index | size of the tree, and 3 |
| `DecodingEnds` | reader and decoder, on every body in every chunking | twice the cap, and 5 |
| `RunsEnd` | `reorderArgs` and `flag.Parse`, on every line | twice the length of the line, and 6 |
| `RangesEnd` | `Range`, on every holiday | later phase, or one of the days left |

They are the half of termination that needs no fairness: what has not ended can
only be waiting, for the network, the mutex or a timer. That the waiting ends is left to TLC.

Only model-checked: liveness, as fairness is beyond the prover (`EveryCallReturns`,
`SweeperStops`, `ExpiredIsReclaimed`, `CancelBetweenAttemptsWins`, `EveryWalkEnds`).

## 6. What is not modelled

* Rendering and version of the CLI, JSON tags and localisation, the headers and
  the log record of the two innermost transports: no state and no order of events.
* `APIError.Is`, the field that a message comes from, `NameFor` and the
  text forms of dates: pure functions over one value, which unit tests reach.
* Timeout, strictness, user agent and logger options: plain setters, of which the
  last wins. Their effect is in `Request` (`Timeout`) and `Decode` (`fits`).
* The seeding of the jitter source: a random draw.
* That answers of two concurrent misses may be stored in either order, and that a
  body which does not decode is cached: the code promises nothing about either.

## 7. Plan

Order of work: what calls share first (cache, pipeline), then the pure
parts where inputs are foreign (tree, durations, dates, bodies), then the edges,
then what Clients share.

1. Done: `MemoryCache` with its contract `TTLMap`, `Request`, `RegionWalk`,
   `RetryPolicy`, `Calendar` and `HolidayQuery` (holiday and list endpoints),
   `Decode` (all three readers of a body), `Cli`, `Client`; proofs about all of them.
2. Done: every safety and action property of a passing run, the refinements of
   `TTLMap` and `CallContract`, and the bounds on all loops, stated by theorems.
