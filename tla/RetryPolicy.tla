---------------------------- MODULE RetryPolicy ----------------------------
(***************************************************************************)
(* How long doJSONGet sleeps between two attempts: the options that build  *)
(* the retry policy, in any order and number (options.go), the Retry-After *)
(* header, and computeBackoff (retry.go), in the integer arithmetic of     *)
(* time.Duration: a two's complement number of Width bits.                 *)
(*                                                                         *)
(* Width is 64 in the program.  Everything else scales with it: a smaller  *)
(* Width with a smaller Second reaches the same boundaries sooner.         *)
(***************************************************************************)
EXTENDS Integers

CONSTANTS
    Width,              \* bits of time.Duration and of int
    Second,             \* time.Second, in units of a Duration
    Millisecond,        \* time.Millisecond
    DefaultBaseDelay,   \* defaultBaseDelay
    DefaultMaxRetryWait,\* defaultMaxRetryWait
    Arg,                \* durations callers pass to the options
    Attempts,           \* attempt counts callers pass to WithRetry
    MaxOptions          \* bound: options passed to NewClient

MaxInt == 2^(Width - 1) - 1
Int64  == -(MaxInt + 1)..MaxInt

ASSUME WidthAssumption    == Width \in Nat /\ Width > 1 /\ MaxInt \in Nat /\ MaxInt > 0
ASSUME UnitAssumption     == Second \in 1..MaxInt /\ Millisecond \in 1..MaxInt
ASSUME DefaultAssumption  == DefaultBaseDelay \in 1..MaxInt /\ DefaultMaxRetryWait \in 1..MaxInt
ASSUME ArgAssumption      == Arg \subseteq Int64 /\ Attempts \subseteq Int
ASSUME OptionsAssumption  == MaxOptions \in Nat

\* A value that does not fit keeps its low bits.
Wrap(x) == LET m == x % (2 * (MaxInt + 1)) IN IF m > MaxInt THEN m - 2 * (MaxInt + 1) ELSE m
\* x << n: the bits that are shifted out are lost.
ShiftLeft(x, n) == Wrap(x * 2^n)

VARIABLES
    cfg,        \* c.retry
    options,    \* options applied so far
    pc,         \* "options", "attempt", "sleep" or "done"
    attempt,    \* the loop's attempt, one that is to be retried
    header,     \* the Retry-After header of its response
    retryAfter, \* what parseRetryAfter made of it, 0 if nothing
    delay       \* what computeBackoff answered

vars == <<cfg, options, pc, attempt, header, retryAfter, delay>>

\* No header or an unusable one; delta-seconds; a date, relative to now.
Header == [form : {"none"}, n : {0}] \union [form : {"seconds"}, n : 0..MaxInt]
            \union [form : {"date"}, n : Int64]
NoHeader == [form |-> "none", n |-> 0]

Config == [maxAttempts : Int, baseDelay : 0..MaxInt, maxWait : 0..MaxInt]

TypeOK ==
    /\ cfg \in Config
    /\ options \in 0..MaxOptions
    /\ pc \in {"options", "attempt", "sleep", "done"}
    /\ attempt \in Nat
    /\ header \in Header
    /\ retryAfter \in 0..MaxInt
    /\ delay \in 0..MaxInt

Init ==
    /\ cfg = [maxAttempts |-> 0, baseDelay |-> 0, maxWait |-> 0]
    /\ options = 0
    /\ pc = "options"
    /\ attempt = 0
    /\ header = NoHeader
    /\ retryAfter = 0 /\ delay = 0

-----------------------------------------------------------------------------
(* Options are applied to one configuration, the last one wins.            *)

OrDefault(d, default) == IF d > 0 THEN d ELSE default

Apply(new) ==
    /\ pc = "options" /\ options < MaxOptions
    /\ options' = options + 1
    /\ cfg' = new
    /\ UNCHANGED <<pc, attempt, header, retryAfter, delay>>

WithRetry_KeepsZeroWait(n, base) ==
    Apply([maxAttempts |-> n,
           baseDelay   |-> OrDefault(base, DefaultBaseDelay),
           maxWait     |-> cfg.maxWait])
WithRetry(n, base) ==
    Apply([maxAttempts |-> n,
           baseDelay   |-> OrDefault(base, DefaultBaseDelay),
           maxWait     |-> OrDefault(cfg.maxWait, DefaultMaxRetryWait)])

WithMaxRetryWait(d) == Apply([cfg EXCEPT !.maxWait = OrDefault(d, DefaultMaxRetryWait)])

NewClient ==
    /\ pc = "options"
    /\ pc' = "attempt"
    /\ UNCHANGED <<cfg, options, attempt, header, retryAfter, delay>>

-----------------------------------------------------------------------------
(* retry.go                                                                *)

\* s seconds are s * time.Second, unless that does not fit.
parseRetryAfter_CheckedAfter(hd) ==
    CASE hd.form = "seconds" ->
            LET d == Wrap(hd.n * Second) IN IF d < 0 THEN 0 ELSE d
      [] hd.form = "date" -> IF hd.n > 0 THEN hd.n ELSE 0
      [] OTHER -> 0
parseRetryAfter_NegativeDate(hd) ==
    CASE hd.form = "seconds" -> IF hd.n > MaxInt \div Second THEN 0 ELSE Wrap(hd.n * Second)
      [] OTHER -> hd.n
parseRetryAfter(hd) ==
    CASE hd.form = "seconds" -> IF hd.n > MaxInt \div Second THEN 0 ELSE Wrap(hd.n * Second)
      [] hd.form = "date" -> IF hd.n > 0 THEN hd.n ELSE 0
      [] OTHER -> 0

\* The exponential ceiling of the jitter, never less than 1.
Capped(a) ==
    LET exp    == ShiftLeft(cfg.baseDelay, a)
        capped == IF /\ a < Width - 1 /\ cfg.baseDelay > 0
                     /\ exp > 0 /\ exp < cfg.maxWait
                  THEN exp ELSE cfg.maxWait
    IN  IF capped <= 0 THEN Millisecond ELSE capped

\* Full jitter in 0..capped-1; a longer Retry-After wins, up to maxWait.
Promote_Uncapped(jitter, after) == IF after > 0 /\ after > jitter THEN after ELSE jitter
Promote(jitter, after) ==
    IF after > 0 /\ after > jitter
    THEN (IF after < cfg.maxWait THEN after ELSE cfg.maxWait)
    ELSE jitter

Retry ==
    /\ pc = "attempt" /\ attempt < cfg.maxAttempts - 1
    /\ pc' = "sleep"
    /\ \E hd \in Header :
          /\ header' = hd
          /\ retryAfter' = parseRetryAfter(hd)
          /\ \E jitter \in 0..(Capped(attempt) - 1) :
                delay' = Promote(jitter, parseRetryAfter(hd))
    /\ UNCHANGED <<cfg, options, attempt>>

Slept ==
    /\ pc = "sleep"
    /\ pc' = "attempt"
    /\ attempt' = attempt + 1
    /\ header' = NoHeader /\ retryAfter' = 0 /\ delay' = 0
    /\ UNCHANGED <<cfg, options>>

\* An answer that is not retried, or the last attempt.
Finish ==
    /\ pc = "attempt"
    /\ pc' = "done"
    /\ UNCHANGED <<cfg, options, attempt, header, retryAfter, delay>>

Next ==
    \/ \E n \in Attempts, d \in Arg : WithRetry(n, d)
    \/ \E d \in Arg : WithMaxRetryWait(d)
    \/ NewClient \/ Retry \/ Slept \/ Finish

Spec == Init /\ [][Next]_vars

-----------------------------------------------------------------------------
(* What must be true of it.                                                *)

\* A client that retries has a positive base delay and a positive ceiling, in
\* whatever order, however often and with whatever arguments the two options
\* were given (options.go:220-242, 291-299).
SaneWhenEnabled == cfg.maxAttempts > 0 => cfg.baseDelay > 0 /\ cfg.maxWait > 0

\* No sleep is longer than the configured ceiling, whatever the attempt, the
\* header and the arithmetic do (options.go:246, retry.go:283-300).
DelayWithinCap == pc = "sleep" => delay \in 0..cfg.maxWait

\* A Retry-After that parses is never undercut by the jitter, except by the
\* ceiling (retry.go:297-299).
HonoursRetryAfter ==
    pc = "sleep" => \/ delay >= retryAfter
                    \/ delay = cfg.maxWait

\* What is taken from the header is what it says, never a wrapped product
\* (retry.go:208-223), and a date that has passed is ignored.
RetryAfterIsExact ==
    pc = "sleep" =>
        retryAfter = CASE header.form = "seconds" /\ header.n * Second <= MaxInt -> header.n * Second
                       [] header.form = "date" /\ header.n > 0 -> header.n
                       [] OTHER -> 0
=============================================================================
