---------------------------- MODULE MemoryCache ----------------------------
(***************************************************************************)
(* The in-memory TTL cache of cache.go: a map under a read-write mutex,    *)
(* entries that expire, one sweeper goroutine started lazily by the first  *)
(* Put, and an idempotent Close that waits for the sweeper for at most one *)
(* millisecond.                                                            *)
(*                                                                         *)
(* Every step below is one indivisible piece of a goroutine: a read or a   *)
(* write under the mutex, one reading of the clock, one pass through a     *)
(* sync.Once, one arm of a select.  A goroutine may be delayed between any *)
(* two of them.  The clock is the monotonic one that time.Now carries.     *)
(***************************************************************************)
EXTENDS Integers, FiniteSets

CONSTANTS
    Thread,     \* goroutines that call the cache
    Key,        \* cache keys
    Value,      \* response bodies
    TTL,        \* lifetime of an entry, in clock units
    MaxTime,    \* bound: the last instant of the clock
    NoEntry     \* the zero entry of a map read that found nothing

Entry == [value : Value, expiresAt : Nat]
Read  == Entry \union {NoEntry}

ASSUME TTLAssumption     == TTL \in Nat
ASSUME MaxTimeAssumption == MaxTime \in Nat
ASSUME NoEntryAssumption == NoEntry \notin Entry

VARIABLES
    now,            \* the clock
    entries,        \* m.entries, total: NoEntry where the map has no key
    mu,             \* who holds m.mu for writing (a set, at most a singleton)
    startOnce,      \* m.startOnce has run
    closeOnce,      \* m.closeOnce: "new", "running" or "done"
    sweepCtx,       \* m.sweepCtx is cancelled
    sweepDone,      \* m.sweepDone is closed
    pc,             \* where each caller is
    got,            \* the entry a Get has read, then the one it returns
    stamp,          \* the clock reading a Put holds
    closed,         \* some Close call has returned
    sweep,          \* where the sweeper that each caller started is
    sweepNow,       \* evict's local now
    tick            \* a tick is waiting in the ticker's channel

vars == <<now, entries, mu, startOnce, closeOnce, sweepCtx, sweepDone, pc,
          got, stamp, closed, sweep, sweepNow, tick>>

cacheVars  == <<entries, mu>>
closeVars  == <<closeOnce, sweepCtx, closed>>
sweepVars  == <<startOnce, sweepDone, sweep, sweepNow, tick>>
callerVars == <<pc, got, stamp>>

Pc == {"idle", "getRead", "getCheck", "getRet", "putLock", "putStamp", "putStore",
       "putStart", "closeEnter", "closeCancel", "closeWait"}
SweepPc == {"none", "select", "clock", "lock", "scan", "exited"}
Holder  == {"put", "sweep"} \X Thread

\* now.After(e.expiresAt): strictly later, so an entry lives through its
\* last instant.
Expired(e, t) == t > e.expiresAt
Expired_Inclusive(e, t) == t >= e.expiresAt

Running(t) == sweep[t] \in {"select", "clock", "lock", "scan"}

TypeOK ==
    /\ now \in 0..MaxTime
    /\ entries \in [Key -> Read]
    /\ mu \subseteq Holder
    /\ startOnce \in BOOLEAN
    /\ closeOnce \in {"new", "running", "done"}
    /\ sweepCtx \in BOOLEAN
    /\ sweepDone \in BOOLEAN
    /\ pc \in [Thread -> Pc]
    /\ got \in [Thread -> Read]
    /\ stamp \in [Thread -> Nat]
    /\ closed \in BOOLEAN
    /\ sweep \in [Thread -> SweepPc]
    /\ sweepNow \in [Thread -> Nat]
    /\ tick \in [Thread -> BOOLEAN]

-----------------------------------------------------------------------------
(* Construction: an empty map and an uncancelled context; no goroutine.    *)

Init ==
    /\ now = 0
    /\ entries = [k \in Key |-> NoEntry]
    /\ mu = {}
    /\ startOnce = FALSE /\ closeOnce = "new"
    /\ sweepCtx = FALSE /\ sweepDone = FALSE /\ closed = FALSE
    /\ pc = [t \in Thread |-> "idle"]
    /\ got = [t \in Thread |-> NoEntry]
    /\ stamp = [t \in Thread |-> 0]
    /\ sweep = [t \in Thread |-> "none"]
    /\ sweepNow = [t \in Thread |-> 0]
    /\ tick = [t \in Thread |-> FALSE]

Goto(t, from, to) == pc[t] = from /\ pc' = [pc EXCEPT ![t] = to]

Lock(h)   == mu = {} /\ mu' = {h}
Unlock(h) == mu' = mu \ {h}

-----------------------------------------------------------------------------
(* Get: read under RLock, judge expiry after RUnlock.  The arguments of a  *)
(* call are chosen in the step that first uses them.                       *)

GetCall(t) ==
    /\ Goto(t, "idle", "getRead")
    /\ UNCHANGED <<now, cacheVars, closeVars, sweepVars, got, stamp>>

GetRead(t) ==
    /\ Goto(t, "getRead", "getCheck")
    /\ mu = {}
    /\ \E k \in Key : got' = [got EXCEPT ![t] = entries[k]]
    /\ UNCHANGED <<now, cacheVars, closeVars, sweepVars, stamp>>

GetCheck(t) ==
    /\ Goto(t, "getCheck", "getRet")
    /\ got' = [got EXCEPT ![t] =
                 IF @ = NoEntry \/ Expired(@, now) THEN NoEntry ELSE @]
    /\ UNCHANGED <<now, cacheVars, closeVars, sweepVars, stamp>>

GetReturn(t) ==
    /\ Goto(t, "getRet", "idle")
    /\ got' = [got EXCEPT ![t] = NoEntry]
    /\ UNCHANGED <<now, cacheVars, closeVars, sweepVars, stamp>>

-----------------------------------------------------------------------------
(* Put: stamp and store under Lock, then start the sweeper once.           *)

PutCall(t) ==
    /\ Goto(t, "idle", "putLock")
    /\ UNCHANGED <<now, cacheVars, closeVars, sweepVars, got, stamp>>

PutLock_NoMutex(t) ==
    /\ Goto(t, "putLock", "putStamp")
    /\ mu' = mu \union {<<"put", t>>}
    /\ UNCHANGED <<now, entries, closeVars, sweepVars, got, stamp>>
PutLock(t) ==
    /\ Goto(t, "putLock", "putStamp")
    /\ Lock(<<"put", t>>)
    /\ UNCHANGED <<now, entries, closeVars, sweepVars, got, stamp>>

PutStamp_Negated(t) ==
    /\ Goto(t, "putStamp", "putStore")
    /\ stamp' = [stamp EXCEPT ![t] = now - TTL]
    /\ UNCHANGED <<now, cacheVars, closeVars, sweepVars, got>>
PutStamp(t) ==
    /\ Goto(t, "putStamp", "putStore")
    /\ stamp' = [stamp EXCEPT ![t] = now]
    /\ UNCHANGED <<now, cacheVars, closeVars, sweepVars, got>>

PutStore_NoUnlock(t) ==
    /\ Goto(t, "putStore", "putStart")
    /\ \E k \in Key, v \in Value :
          entries' = [entries EXCEPT ![k] =
                        [value |-> v, expiresAt |-> stamp[t] + TTL]]
    /\ stamp' = [stamp EXCEPT ![t] = 0]
    /\ UNCHANGED <<now, mu, closeVars, sweepVars, got>>
PutStore(t) ==
    /\ Goto(t, "putStore", "putStart")
    /\ \E k \in Key, v \in Value :
          entries' = [entries EXCEPT ![k] =
                        [value |-> v, expiresAt |-> stamp[t] + TTL]]
    /\ stamp' = [stamp EXCEPT ![t] = 0]
    /\ Unlock(<<"put", t>>)
    /\ UNCHANGED <<now, closeVars, sweepVars, got>>

\* startOnce.Do(startSweeper): the body only spawns a goroutine, so no caller
\* can see it half done.  A Put after Close spawns it as well.
StartSweeper_NoOnce(t) ==
    /\ startOnce' = TRUE
    /\ sweep' = [sweep EXCEPT ![t] = "select"]
StartSweeper(t) ==
    /\ startOnce' = TRUE
    /\ sweep' = IF startOnce THEN sweep ELSE [sweep EXCEPT ![t] = "select"]

PutStart(t) ==
    /\ Goto(t, "putStart", "idle")
    /\ StartSweeper(t)
    /\ UNCHANGED <<now, cacheVars, closeVars, sweepDone, sweepNow, tick, got, stamp>>

-----------------------------------------------------------------------------
(* Close: the first caller cancels and waits; the others wait for it.      *)

CloseCall(t) ==
    /\ Goto(t, "idle", "closeEnter")
    /\ UNCHANGED <<now, cacheVars, closeVars, sweepVars, got, stamp>>

CloseEnter(t) ==
    /\ Goto(t, "closeEnter", "closeCancel")
    /\ closeOnce = "new" /\ closeOnce' = "running"
    /\ UNCHANGED <<now, cacheVars, sweepCtx, closed, sweepVars, got, stamp>>

CloseCancel_Skipped(t) ==
    /\ Goto(t, "closeCancel", "closeWait")
    /\ UNCHANGED <<now, cacheVars, closeVars, sweepVars, got, stamp>>
CloseCancel(t) ==
    /\ Goto(t, "closeCancel", "closeWait")
    /\ sweepCtx' = TRUE
    /\ UNCHANGED <<now, cacheVars, closeOnce, closed, sweepVars, got, stamp>>

CloseReturn(t, from) ==
    /\ Goto(t, from, "idle")
    /\ closed' = TRUE
    /\ UNCHANGED <<now, cacheVars, sweepCtx, sweepVars, got, stamp>>

\* The select: the sweeper has signalled, or the millisecond is over.  The
\* millisecond is shorter than a clock unit and is not tied to the clock.
CloseDone(t) ==
    /\ sweepDone
    /\ closeOnce' = "done"
    /\ CloseReturn(t, "closeWait")

CloseTimeout(t) ==
    /\ closeOnce' = "done"
    /\ CloseReturn(t, "closeWait")

\* A later caller of closeOnce.Do returns once the first has finished.
CloseAgain(t) ==
    /\ closeOnce = "done"
    /\ CloseReturn(t, "closeEnter")
    /\ UNCHANGED closeOnce

-----------------------------------------------------------------------------
(* The sweeper goroutine: select between cancellation and a tick; a tick   *)
(* reads the clock, then takes the lock, then scans.                       *)

SweepGoto(s, from, to) == sweep[s] = from /\ sweep' = [sweep EXCEPT ![s] = to]

SweepTick(s) ==
    /\ SweepGoto(s, "select", "clock")
    /\ tick[s]
    /\ tick' = [tick EXCEPT ![s] = FALSE]
    /\ UNCHANGED <<now, cacheVars, closeVars, callerVars, startOnce,
                   sweepDone, sweepNow>>

EvictClock(s) ==
    /\ SweepGoto(s, "clock", "lock")
    /\ sweepNow' = [sweepNow EXCEPT ![s] = now]
    /\ UNCHANGED <<now, cacheVars, closeVars, callerVars, startOnce,
                   sweepDone, tick>>

EvictLock(s) ==
    /\ SweepGoto(s, "lock", "scan")
    /\ Lock(<<"sweep", s>>)
    /\ UNCHANGED <<now, entries, closeVars, callerVars, startOnce, sweepDone,
                   sweepNow, tick>>

EvictScan_Eager(s) ==
    /\ SweepGoto(s, "scan", "select")
    /\ entries' = [k \in Key |->
          IF entries[k] # NoEntry /\ Expired_Inclusive(entries[k], sweepNow[s])
          THEN NoEntry ELSE entries[k]]
    /\ sweepNow' = [sweepNow EXCEPT ![s] = 0]
    /\ Unlock(<<"sweep", s>>)
    /\ UNCHANGED <<now, closeVars, callerVars, startOnce, sweepDone, tick>>
EvictScan_Keeps(s) ==
    /\ SweepGoto(s, "scan", "select")
    /\ sweepNow' = [sweepNow EXCEPT ![s] = 0]
    /\ Unlock(<<"sweep", s>>)
    /\ UNCHANGED <<now, entries, closeVars, callerVars, startOnce, sweepDone,
                   tick>>
EvictScan(s) ==
    /\ SweepGoto(s, "scan", "select")
    /\ entries' = [k \in Key |->
          IF entries[k] # NoEntry /\ Expired(entries[k], sweepNow[s])
          THEN NoEntry ELSE entries[k]]
    /\ sweepNow' = [sweepNow EXCEPT ![s] = 0]
    /\ Unlock(<<"sweep", s>>)
    /\ UNCHANGED <<now, closeVars, callerVars, startOnce, sweepDone, tick>>

SweepExit(s) ==
    /\ SweepGoto(s, "select", "exited")
    /\ sweepCtx
    /\ sweepDone' = TRUE
    /\ tick' = [tick EXCEPT ![s] = FALSE]
    /\ UNCHANGED <<now, cacheVars, closeVars, callerVars, startOnce, sweepNow>>

\* The ticker: its channel holds one tick, further ones are dropped.  How long
\* its period is does not matter to any property, only that it elapses.
TickerFire(s) ==
    /\ Running(s) /\ ~tick[s]
    /\ tick' = [tick EXCEPT ![s] = TRUE]
    /\ UNCHANGED <<now, cacheVars, closeVars, callerVars, startOnce,
                   sweepDone, sweep, sweepNow>>

ClockAdvance ==
    /\ now < MaxTime
    /\ now' = now + 1
    /\ UNCHANGED <<cacheVars, closeVars, callerVars, sweepVars>>

-----------------------------------------------------------------------------

Get(t)   == GetCall(t) \/ GetRead(t) \/ GetCheck(t) \/ GetReturn(t)
Put(t)   == PutCall(t) \/ PutLock(t) \/ PutStamp(t) \/ PutStore(t) \/ PutStart(t)
Close(t) == \/ CloseCall(t) \/ CloseEnter(t) \/ CloseCancel(t)
            \/ CloseDone(t) \/ CloseTimeout(t) \/ CloseAgain(t)
Sweep(s) == \/ SweepTick(s) \/ EvictClock(s) \/ EvictLock(s) \/ EvictScan(s)
            \/ SweepExit(s) \/ TickerFire(s)

Next == ClockAdvance \/ \E t \in Thread : Get(t) \/ Put(t) \/ Close(t) \/ Sweep(t)

Spec == Init /\ [][Next]_vars

\* A runnable goroutine runs; sync.RWMutex and sync.Once starve nobody; a
\* select picks uniformly among its ready arms, so an arm that is ready again
\* and again is taken; tickers and clocks go on.  Nobody is obliged to call.
Fairness ==
    /\ WF_vars(ClockAdvance)
    /\ \A t \in Thread :
        /\ SF_vars(GetRead(t)) /\ WF_vars(GetCheck(t)) /\ WF_vars(GetReturn(t))
        /\ SF_vars(PutLock(t)) /\ WF_vars(PutStamp(t))
        /\ WF_vars(PutStore(t)) /\ WF_vars(PutStart(t))
        /\ WF_vars(CloseEnter(t)) /\ WF_vars(CloseCancel(t))
        /\ WF_vars(CloseDone(t) \/ CloseTimeout(t)) /\ WF_vars(CloseAgain(t))
        /\ WF_vars(SweepTick(t)) /\ WF_vars(EvictClock(t))
        /\ SF_vars(EvictLock(t)) /\ WF_vars(EvictScan(t))
        /\ SF_vars(SweepExit(t)) /\ WF_vars(TickerFire(t))

FairSpec == Spec /\ Fairness

-----------------------------------------------------------------------------
(* What must be true of it.                                                *)

\* A live entry never disappears.  evict reads the clock before it waits for
\* the lock (cache.go:253), so it judges every entry with an instant that is
\* already past; a Put that slips in between must survive the scan.
EvictOnlyExpired ==
    [][\A k \in Key : (entries[k] # NoEntry /\ entries'[k] = NoEntry)
                         => Expired(entries[k], now)]_vars

\* Two Puts of one key never shorten its life: the one that stores last also
\* carries the later expiresAt, because the clock is read under the lock
\* (cache.go:204-206).
ExpiryNeverRegresses ==
    [][\A k \in Key : (entries[k] # NoEntry /\ entries'[k] # NoEntry)
                         => entries'[k].expiresAt >= entries[k].expiresAt]_vars

\* However many first Puts race, one sweeper is ever started: a second one
\* would close sweepDone twice, which panics (cache.go:207, 235).
OneSweeper ==
    \A s1, s2 \in Thread :
        sweep[s1] # "none" /\ sweep[s2] # "none" => s1 = s2

\* No Close call, the first or a later one, returns before the sweeper has
\* been told to stop (cache.go:280-288).
CloseReturnsCancelled == closed => sweepCtx

\* Every Get, Put and Close returns, whatever the sweeper and the other
\* callers do, and whether or not a sweeper ever ran (cache.go:277-279).
EveryCallReturns == \A t \in Thread : pc[t] # "idle" ~> pc[t] = "idle"

\* Once a Close has returned, the cache ends with no sweeper for ever, even if
\* the Put that starts it comes after Close, and although a ready tick and the
\* cancellation may compete for the select (cache.go:238-245).
SweeperStops == closed ~> [](\A s \in Thread : ~Running(s))

\* An expired entry is removed or refreshed unless the cache is closed.
ExpiredIsReclaimed ==
    \A k \in Key :
        (entries[k] # NoEntry /\ Expired(entries[k], now))
            ~> \/ entries[k] = NoEntry
               \/ ~Expired(entries[k], now)
               \/ sweepCtx
=============================================================================
