------------------------- MODULE RetryPolicyProofs -------------------------
(***************************************************************************)
(* The bounds on retry delays hold for every width, unit, default and      *)
(* argument.  One invariant carries all of them: an enabled policy is      *)
(* sane, and what a sleep is about to use was computed from such a policy. *)
(***************************************************************************)
EXTENDS RetryPolicy, TLAPS

RInv == TypeOK /\ SaneWhenEnabled /\ DelayWithinCap /\ HonoursRetryAfter /\ RetryAfterIsExact

\* A number that fits is not changed.
LEMMA WrapFits == \A x \in 0..MaxInt : Wrap(x) = x
<1> SUFFICES ASSUME NEW x \in 0..MaxInt PROVE Wrap(x) = x
  OBVIOUS
<1>1. PICK m \in Nat : m = 2 * (MaxInt + 1) /\ x < m /\ m > 0
  BY WidthAssumption
<1>2. x % m = x
  BY <1>1, WidthAssumption
<1> QED  BY <1>1, <1>2, WidthAssumption DEF Wrap

\* The bound that parseRetryAfter tests is exactly that the product fits.
LEMMA SecondsFit ==
    ASSUME NEW n \in Nat
    PROVE  n <= MaxInt \div Second <=> n * Second <= MaxInt
<1> DEFINE q == MaxInt \div Second
           r == MaxInt % Second
<1>1. Second \in Nat /\ Second > 0 /\ MaxInt \in Nat
  BY UnitAssumption, WidthAssumption
<1>2. q \in Nat /\ r \in 0..(Second - 1) /\ MaxInt = Second * q + r
  BY <1>1
<1> HIDE DEF q, r
<1>3. ASSUME n <= q PROVE n * Second <= MaxInt
  <2>1. n * Second <= q * Second
    BY <1>1, <1>2, <1>3
  <2> QED  BY <2>1, <1>1, <1>2
<1>4. ASSUME n > q PROVE n * Second > MaxInt
  <2>1. n * Second >= (q + 1) * Second
    BY <1>1, <1>2, <1>4
  <2> QED  BY <2>1, <1>1, <1>2
<1> QED  BY <1>1, <1>2, <1>3, <1>4 DEF q

\* What parseRetryAfter returns is a duration that is not negative, and exact.
LEMMA ParseType ==
    ASSUME NEW hd \in Header
    PROVE  /\ parseRetryAfter(hd) \in 0..MaxInt
           /\ parseRetryAfter(hd) =
                CASE hd.form = "seconds" /\ hd.n * Second <= MaxInt -> hd.n * Second
                  [] hd.form = "date" /\ hd.n > 0 -> hd.n
                  [] OTHER -> 0
<1>1. CASE hd.form = "seconds"
  <2>1. hd.n \in 0..MaxInt /\ hd.n \in Nat
    BY <1>1, WidthAssumption DEF Header
  <2>2. hd.n <= MaxInt \div Second <=> hd.n * Second <= MaxInt
    BY <2>1, SecondsFit
  <2>3. hd.n * Second \in Nat
    BY <2>1, UnitAssumption, WidthAssumption
  <2>4. MaxInt \div Second \in Int
    BY UnitAssumption, WidthAssumption
  <2>5. CASE hd.n * Second <= MaxInt
    <3>1. Wrap(hd.n * Second) = hd.n * Second
      BY <2>3, <2>5, WrapFits, WidthAssumption
    <3> QED  BY <1>1, <2>1, <2>2, <2>3, <2>4, <2>5, <3>1, WidthAssumption DEF parseRetryAfter
  <2>6. CASE ~(hd.n * Second <= MaxInt)
    BY <1>1, <2>1, <2>2, <2>4, <2>6, WidthAssumption DEF parseRetryAfter
  <2> QED  BY <2>5, <2>6
<1>2. CASE hd.form = "date"
  BY <1>2, WidthAssumption DEF parseRetryAfter, Header, Int64
<1>3. CASE hd.form = "none"
  BY <1>3, WidthAssumption DEF parseRetryAfter
<1> QED  BY <1>1, <1>2, <1>3 DEF Header

\* The ceiling of the jitter is a positive duration within maxWait.
LEMMA CappedBound ==
    ASSUME cfg \in Config, cfg.maxWait > 0, NEW a \in Nat
    PROVE  Capped(a) \in 1..cfg.maxWait
<1>1. cfg.maxWait \in 1..MaxInt
  BY WidthAssumption DEF Config
<1>2. PICK e : e = ShiftLeft(cfg.baseDelay, a)
  OBVIOUS
<1>3. e \in Int
  <2>1. cfg.baseDelay * 2^a \in Int
    BY DEF Config
  <2> QED  BY <1>2, <2>1, WidthAssumption DEF ShiftLeft, Wrap
<1> QED  BY <1>1, <1>2, <1>3, WidthAssumption DEF Capped

\* WithRetry's assignments yield a configuration.
LEMMA Assigned ==
    ASSUME NEW n \in Int, NEW b \in 1..MaxInt, NEW w \in 1..MaxInt
    PROVE  LET new == [maxAttempts |-> n, baseDelay |-> b, maxWait |-> w]
           IN  new \in Config /\ new.baseDelay > 0 /\ new.maxWait > 0
  BY WidthAssumption DEF Config

-----------------------------------------------------------------------------

\* An option that leaves the policy sane preserves the invariant.
LEMMA ApplyStep ==
    ASSUME RInv, NEW new \in Config, Apply(new), new.maxAttempts > 0 => new.baseDelay > 0 /\ new.maxWait > 0
    PROVE  RInv'
<1>1. pc = "options" /\ pc' = "options" /\ cfg' = new /\ options' = options + 1
      /\ options < MaxOptions /\ UNCHANGED <<attempt, header, retryAfter, delay>>
  BY DEF Apply
<1> QED  BY <1>1, OptionsAssumption DEF RInv, TypeOK, SaneWhenEnabled, DelayWithinCap,
             HonoursRetryAfter, RetryAfterIsExact

\* Computing a delay preserves the invariant: this is where computeBackoff is used.
LEMMA RetryStep == RInv /\ Retry => RInv'
<1> SUFFICES ASSUME RInv, Retry PROVE RInv'
  OBVIOUS
<1>1. PICK hd \in Header, jitter \in 0..(Capped(attempt) - 1) :
         /\ header' = hd
         /\ retryAfter' = parseRetryAfter(hd)
         /\ delay' = Promote(jitter, parseRetryAfter(hd))
  BY DEF Retry
<1>2. pc' = "sleep" /\ UNCHANGED <<cfg, options, attempt>> /\ attempt < cfg.maxAttempts - 1
  BY DEF Retry
<1>3. cfg \in Config /\ attempt \in Nat
  BY DEF RInv, TypeOK
<1>4. cfg.maxAttempts > 0
  BY <1>2, <1>3 DEF Config
<1>5. cfg.maxWait > 0 /\ cfg.maxWait \in 0..MaxInt
  BY <1>3, <1>4 DEF RInv, SaneWhenEnabled, Config
<1>6. Capped(attempt) \in 1..cfg.maxWait
  BY <1>3, <1>5, CappedBound
<1>7. jitter \in Nat /\ jitter < cfg.maxWait
  BY <1>5, <1>6, WidthAssumption
<1>8. retryAfter' \in 0..MaxInt
  BY <1>1, ParseType
<1>9. delay' \in 0..cfg.maxWait /\ (delay' >= retryAfter' \/ delay' = cfg.maxWait)
  BY <1>1, <1>5, <1>7, <1>8, WidthAssumption DEF Promote
<1>10. TypeOK'
  BY <1>1, <1>2, <1>5, <1>8, <1>9, WidthAssumption DEF RInv, TypeOK
<1>11. RetryAfterIsExact'
  BY <1>1, ParseType DEF RetryAfterIsExact
<1> QED  BY <1>2, <1>9, <1>10, <1>11 DEF RInv, SaneWhenEnabled, DelayWithinCap, HonoursRetryAfter

\* The inductive invariant of the policy and its delays (options.go:220-299,
\* retry.go:178-301).
THEOREM PolicyInvariance == Spec => []RInv
<1>1. Init => RInv
  BY WidthAssumption, OptionsAssumption DEF Init, RInv, TypeOK, Config, NoHeader, Header,
     SaneWhenEnabled, DelayWithinCap, HonoursRetryAfter, RetryAfterIsExact
<1>2. RInv /\ [Next]_vars => RInv'
  <2> SUFFICES ASSUME RInv, [Next]_vars PROVE RInv'
    OBVIOUS
  <2>0. cfg \in Config
    BY DEF RInv, TypeOK
  <2>1. ASSUME NEW n \in Attempts, NEW d \in Arg, WithRetry(n, d) PROVE RInv'
    <3> DEFINE new == [maxAttempts |-> n,
                          baseDelay   |-> OrDefault(d, DefaultBaseDelay),
                          maxWait     |-> OrDefault(cfg.maxWait, DefaultMaxRetryWait)]
    <3>0. n \in Int
      BY ArgAssumption, Zenon
    <3>1. d \in Int64
      BY ArgAssumption
    <3>2. OrDefault(d, DefaultBaseDelay) \in 1..MaxInt
      BY <3>1, DefaultAssumption, WidthAssumption DEF OrDefault, Int64
    <3>3. OrDefault(cfg.maxWait, DefaultMaxRetryWait) \in 1..MaxInt
      BY <2>0, DefaultAssumption, WidthAssumption DEF OrDefault, Config
    <3>4. new \in Config /\ new.baseDelay > 0 /\ new.maxWait > 0
      BY <2>0, <3>0, <3>2, <3>3, Assigned, Zenon
    <3> HIDE DEF new
    <3>5. new.maxAttempts > 0 => new.baseDelay > 0 /\ new.maxWait > 0
      BY <3>4
    <3>6. Apply(new)
      BY <2>1, Zenon DEF new, WithRetry
    <3> QED  BY <3>4, <3>5, <3>6, ApplyStep, Zenon
  <2>2. ASSUME NEW d \in Arg, WithMaxRetryWait(d) PROVE RInv'
    <3> DEFINE new == [cfg EXCEPT !.maxWait = OrDefault(d, DefaultMaxRetryWait)]
    <3>1. d \in Int64
      BY ArgAssumption
    <3>2. /\ new \in Config /\ new.maxWait > 0
          /\ new.maxAttempts = cfg.maxAttempts /\ new.baseDelay = cfg.baseDelay
      BY <2>0, <3>1, DefaultAssumption, WidthAssumption DEF Config, OrDefault, Int64
    <3>3. new.maxAttempts > 0 => new.baseDelay > 0 /\ new.maxWait > 0
      BY <3>2 DEF RInv, SaneWhenEnabled
    <3> QED  BY <2>2, <3>2, <3>3, ApplyStep DEF WithMaxRetryWait
  <2>3. CASE NewClient
    BY <2>3 DEF NewClient, RInv, TypeOK, SaneWhenEnabled, DelayWithinCap, HonoursRetryAfter, RetryAfterIsExact
  <2>4. CASE Retry
    BY <2>4, RetryStep
  <2>5. CASE Slept
    BY <2>5, WidthAssumption DEF Slept, RInv, TypeOK, NoHeader, Header, SaneWhenEnabled, DelayWithinCap, HonoursRetryAfter, RetryAfterIsExact
  <2>6. CASE Finish
    BY <2>6 DEF Finish, RInv, TypeOK, SaneWhenEnabled, DelayWithinCap, HonoursRetryAfter, RetryAfterIsExact
  <2>7. CASE UNCHANGED vars
    BY <2>7 DEF vars, RInv, TypeOK, SaneWhenEnabled, DelayWithinCap, HonoursRetryAfter, RetryAfterIsExact
  <2> QED  BY <2>1, <2>2, <2>3, <2>4, <2>5, <2>6, <2>7 DEF Next
<1> QED  BY <1>1, <1>2, PTL DEF Spec

\* Policy, attempt, header and delay keep their types at every integer width: no
\* setter lets a value escape the width, and no delay does (options.go:220-299,
\* retry.go:178-301).
THEOREM TypeCorrect == Spec => []TypeOK
<1>1. RInv => TypeOK
  BY DEF RInv
<1> QED  BY <1>1, PolicyInvariance, PTL

\* Every delay stays within the configured ceiling, at every attempt count and
\* in every width of the arithmetic (retry.go:283-300).
THEOREM DelayBounded == Spec => []DelayWithinCap
<1>1. RInv => DelayWithinCap
  BY DEF RInv
<1> QED  BY <1>1, PolicyInvariance, PTL

\* A parsed Retry-After is undercut by nothing but that ceiling (retry.go:297-299).
THEOREM RetryAfterHonoured == Spec => []HonoursRetryAfter
<1>1. RInv => HonoursRetryAfter
  BY DEF RInv
<1> QED  BY <1>1, PolicyInvariance, PTL

\* No product of seconds is ever taken after it wrapped (retry.go:208-223).
THEOREM RetryAfterExact == Spec => []RetryAfterIsExact
<1>1. RInv => RetryAfterIsExact
  BY DEF RInv
<1> QED  BY <1>1, PolicyInvariance, PTL

\* Options in any order leave an enabled policy sane (options.go:220-299).
THEOREM PolicySane == Spec => []SaneWhenEnabled
<1>1. RInv => SaneWhenEnabled
  BY DEF RInv
<1> QED  BY <1>1, PolicyInvariance, PTL
=============================================================================
