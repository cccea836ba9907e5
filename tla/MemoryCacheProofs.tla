------------------------- MODULE MemoryCacheProofs -------------------------
(***************************************************************************)
(* Proofs about MemoryCache for every set of callers, keys and values and  *)
(* every lifetime.  The order is: types, then the inductive invariant      *)
(* IInv, then the properties that follow from it, the end of the sweeper,  *)
(* and last the refinement of TTLMap, one abstract step or stutter per     *)
(* action.                                                                 *)
(***************************************************************************)
EXTENDS MemoryCacheRefinement, TLAPS

(* The write lock: at most one holder, and the holders are exactly the     *)
(* goroutines between their Lock and their Unlock.                         *)
LockInv ==
    /\ \A h1, h2 \in mu : h1 = h2
    /\ \A t \in Thread : <<"put", t>> \in mu <=> pc[t] \in {"putStamp", "putStore"}
    /\ \A s \in Thread : <<"sweep", s>> \in mu <=> sweep[s] = "scan"

(* No sweeper before startOnce has run, one after.                         *)
OnceInv ==
    /\ ~startOnce => \A s \in Thread : sweep[s] = "none"
    /\ OneSweeper

(* Clock readings are never ahead of the clock, and while a Put holds a    *)
(* reading no entry outlives what that Put will store.                     *)
ClockInv ==
    /\ \A t \in Thread : stamp[t] <= now
    /\ \A s \in Thread : sweepNow[s] <= now
    /\ \A k \in Key : entries[k] # NoEntry => entries[k].expiresAt <= now + TTL
    /\ \A t \in Thread, k \in Key :
          pc[t] = "putStore" /\ entries[k] # NoEntry
             => entries[k].expiresAt <= stamp[t] + TTL

(* Whoever waits for the sweeper or has returned has cancelled it first.   *)
CloseInv ==
    /\ \A t \in Thread : pc[t] = "closeWait" => sweepCtx
    /\ closeOnce = "done" => sweepCtx
    /\ closed => sweepCtx

IInv == TypeOK /\ LockInv /\ OnceInv /\ ClockInv /\ CloseInv

USE TTLAssumption, MaxTimeAssumption, NoEntryAssumption

-----------------------------------------------------------------------------

(* The constructor's state is well typed. *)
LEMMA TypeInit == ASSUME Init PROVE TypeOK
<1>1. tick \in [Thread -> BOOLEAN]
  BY Zenon DEF Init
<1>2. now \in 0..MaxTime
  BY DEF Init
<1>3. pc \in [Thread -> Pc] /\ sweep \in [Thread -> SweepPc]
  BY DEF Init, Pc, SweepPc
<1>4. entries \in [Key -> Read] /\ got \in [Thread -> Read]
  BY DEF Init, Read
<1>5. stamp \in [Thread -> Nat] /\ sweepNow \in [Thread -> Nat]
  BY DEF Init
<1>6. QED
  BY <1>1, <1>2, <1>3, <1>4, <1>5 DEF Init, TypeOK

(* Every step keeps the types. *)
LEMMA TypeStep == ASSUME TypeOK, [Next]_vars PROVE TypeOK'
<1> USE DEF TypeOK, Pc, SweepPc, Holder, Read, cacheVars, closeVars, sweepVars, callerVars
<1>1. ASSUME NEW t \in Thread, GetCall(t) PROVE TypeOK'
  BY <1>1 DEF GetCall, Goto
<1>2. ASSUME NEW t \in Thread, GetRead(t) PROVE TypeOK'
  BY <1>2 DEF GetRead, Goto
<1>3. ASSUME NEW t \in Thread, GetCheck(t) PROVE TypeOK'
  BY <1>3 DEF GetCheck, Goto
<1>4. ASSUME NEW t \in Thread, GetReturn(t) PROVE TypeOK'
  BY <1>4 DEF GetReturn, Goto
<1>5. ASSUME NEW t \in Thread, PutCall(t) PROVE TypeOK'
  BY <1>5 DEF PutCall, Goto
<1>6. ASSUME NEW t \in Thread, PutLock(t) PROVE TypeOK'
  BY <1>6 DEF PutLock, Lock, Goto
<1>7. ASSUME NEW t \in Thread, PutStamp(t) PROVE TypeOK'
  BY <1>7 DEF PutStamp, Goto
<1>8. ASSUME NEW t \in Thread, PutStore(t) PROVE TypeOK'
  BY <1>8 DEF PutStore, Unlock, Goto, Entry
<1>9. ASSUME NEW t \in Thread, PutStart(t) PROVE TypeOK'
  BY <1>9 DEF PutStart, StartSweeper, Goto
<1>10. ASSUME NEW t \in Thread, CloseCall(t) PROVE TypeOK'
  BY <1>10 DEF CloseCall, Goto
<1>11. ASSUME NEW t \in Thread, CloseEnter(t) PROVE TypeOK'
  BY <1>11 DEF CloseEnter, Goto
<1>12. ASSUME NEW t \in Thread, CloseCancel(t) PROVE TypeOK'
  BY <1>12 DEF CloseCancel, Goto
<1>13. ASSUME NEW t \in Thread, CloseDone(t) PROVE TypeOK'
  BY <1>13 DEF CloseDone, CloseReturn, Goto
<1>14. ASSUME NEW t \in Thread, CloseTimeout(t) PROVE TypeOK'
  BY <1>14 DEF CloseTimeout, CloseReturn, Goto
<1>15. ASSUME NEW t \in Thread, CloseAgain(t) PROVE TypeOK'
  BY <1>15 DEF CloseAgain, CloseReturn, Goto
<1>16. ASSUME NEW s \in Thread, SweepTick(s) PROVE TypeOK'
  BY <1>16 DEF SweepTick, SweepGoto
<1>17. ASSUME NEW s \in Thread, EvictClock(s) PROVE TypeOK'
  BY <1>17 DEF EvictClock, SweepGoto
<1>18. ASSUME NEW s \in Thread, EvictLock(s) PROVE TypeOK'
  BY <1>18 DEF EvictLock, Lock, SweepGoto
<1>19. ASSUME NEW s \in Thread, EvictScan(s) PROVE TypeOK'
  BY <1>19 DEF EvictScan, Unlock, SweepGoto
<1>20. ASSUME NEW s \in Thread, SweepExit(s) PROVE TypeOK'
  BY <1>20 DEF SweepExit, SweepGoto
<1>21. ASSUME NEW s \in Thread, TickerFire(s) PROVE TypeOK'
  BY <1>21 DEF TickerFire
<1>22. CASE ClockAdvance
  BY <1>22 DEF ClockAdvance
<1>23. CASE UNCHANGED vars
  BY <1>23 DEF vars
<1>24. QED
  BY <1>1, <1>2, <1>3, <1>4, <1>5, <1>6, <1>7, <1>8, <1>9, <1>10, <1>11, <1>12, <1>13, <1>14, <1>15, <1>16, <1>17, <1>18, <1>19, <1>20, <1>21, <1>22, <1>23 DEF Next, Get, Put, Close, Sweep

(* Every variable keeps its type, whatever the interleaving (cache.go). *)
THEOREM TypeCorrect == Spec => []TypeOK
BY TypeInit, TypeStep, PTL DEF Spec

-----------------------------------------------------------------------------

(* The lock discipline is preserved. *)
LEMMA LockStep ==
  ASSUME TypeOK, OnceInv, LockInv, [Next]_vars PROVE LockInv'
<1> USE DEF LockInv, TypeOK, cacheVars, closeVars, sweepVars, callerVars
<1>1. ASSUME NEW t \in Thread, Get(t) PROVE LockInv'
  BY <1>1 DEF Get, GetCall, GetRead, GetCheck, GetReturn, Goto
<1>2. ASSUME NEW t \in Thread, Put(t) PROVE LockInv'
  <2>1. CASE PutCall(t)
    BY <2>1 DEF PutCall, Goto
  <2>2. CASE PutLock(t)
    BY <2>2 DEF PutLock, Goto, Lock
  <2>3. CASE PutStamp(t)
    BY <2>3 DEF PutStamp, Goto
  <2>4. CASE PutStore(t)
    <3>1. mu = {<<"put", t>>} /\ mu' = {}
      BY <2>4 DEF PutStore, Goto, Unlock
    <3>2. QED
      BY <2>4, <3>1 DEF PutStore, Goto
  <2>5. CASE PutStart(t)
    BY <2>5 DEF PutStart, Goto, StartSweeper, OnceInv
  <2>6. QED
    BY <1>2, <2>1, <2>2, <2>3, <2>4, <2>5 DEF Put
<1>3. ASSUME NEW t \in Thread, Close(t) PROVE LockInv'
  BY <1>3 DEF Close, CloseCall, CloseEnter, CloseCancel, CloseReturn, CloseDone, CloseTimeout,
             CloseAgain, Goto
<1>4. ASSUME NEW s \in Thread, Sweep(s) PROVE LockInv'
  BY <1>4 DEF Sweep, SweepTick, EvictClock, EvictLock, EvictScan, SweepExit, TickerFire,
             SweepGoto, Lock, Unlock
<1>5. CASE ClockAdvance
  BY <1>5 DEF ClockAdvance
<1>6. CASE UNCHANGED vars
  BY <1>6 DEF vars
<1>7. QED
  BY <1>1, <1>2, <1>3, <1>4, <1>5, <1>6 DEF Next

(* sync.Once starts one sweeper. *)
LEMMA OnceStep ==
  ASSUME TypeOK, OnceInv, [Next]_vars PROVE OnceInv'
<1> USE DEF OnceInv, OneSweeper, TypeOK, cacheVars, closeVars, sweepVars, callerVars
<1>1. ASSUME NEW t \in Thread, Get(t) PROVE OnceInv'
  BY <1>1 DEF Get, GetCall, GetRead, GetCheck, GetReturn, Goto
<1>2. ASSUME NEW t \in Thread, Put(t) PROVE OnceInv'
  BY <1>2 DEF Put, PutCall, PutLock, PutStamp, PutStore, PutStart, StartSweeper, Goto,
             Lock, Unlock
<1>3. ASSUME NEW t \in Thread, Close(t) PROVE OnceInv'
  BY <1>3 DEF Close, CloseCall, CloseEnter, CloseCancel, CloseReturn, CloseDone, CloseTimeout,
             CloseAgain, Goto
<1>4. ASSUME NEW s \in Thread, Sweep(s) PROVE OnceInv'
  BY <1>4 DEF Sweep, SweepTick, EvictClock, EvictLock, EvictScan, SweepExit, TickerFire,
             SweepGoto, Lock, Unlock
<1>5. CASE ClockAdvance
  BY <1>5 DEF ClockAdvance
<1>6. CASE UNCHANGED vars
  BY <1>6 DEF vars
<1>7. QED
  BY <1>1, <1>2, <1>3, <1>4, <1>5, <1>6 DEF Next

(* Cancellation precedes every return of Close. *)
LEMMA CloseStep ==
  ASSUME TypeOK, CloseInv, [Next]_vars PROVE CloseInv'
<1> USE DEF CloseInv, TypeOK, cacheVars, closeVars, sweepVars, callerVars
<1>1. ASSUME NEW t \in Thread, Get(t) PROVE CloseInv'
  BY <1>1 DEF Get, GetCall, GetRead, GetCheck, GetReturn, Goto
<1>2. ASSUME NEW t \in Thread, Put(t) PROVE CloseInv'
  BY <1>2 DEF Put, PutCall, PutLock, PutStamp, PutStore, PutStart, StartSweeper, Goto,
             Lock, Unlock
<1>3. ASSUME NEW t \in Thread, Close(t) PROVE CloseInv'
  BY <1>3 DEF Close, CloseCall, CloseEnter, CloseCancel, CloseReturn, CloseDone, CloseTimeout,
             CloseAgain, Goto
<1>4. ASSUME NEW s \in Thread, Sweep(s) PROVE CloseInv'
  BY <1>4 DEF Sweep, SweepTick, EvictClock, EvictLock, EvictScan, SweepExit, TickerFire,
             SweepGoto, Lock, Unlock
<1>5. CASE ClockAdvance
  BY <1>5 DEF ClockAdvance
<1>6. CASE UNCHANGED vars
  BY <1>6 DEF vars
<1>7. QED
  BY <1>1, <1>2, <1>3, <1>4, <1>5, <1>6 DEF Next

(* Readings stay behind the clock. *)
LEMMA ClockStep ==
  ASSUME TypeOK, LockInv, ClockInv, [Next]_vars PROVE ClockInv'
<1> USE DEF ClockInv, TypeOK, cacheVars, closeVars, sweepVars, callerVars
<1>1. ASSUME NEW t \in Thread, Get(t) PROVE ClockInv'
  BY <1>1 DEF Get, GetCall, GetRead, GetCheck, GetReturn, Goto
<1>2. ASSUME NEW t \in Thread, Put(t) PROVE ClockInv'
  <2>1. CASE PutCall(t)
    BY <2>1 DEF PutCall, Goto
  <2>2. CASE PutLock(t)
    BY <2>2 DEF PutLock, Goto, Lock
  <2>3. CASE PutStamp(t)
    BY <2>3 DEF PutStamp, Goto
  <2>4. CASE PutStore(t)
    <3>1. PICK k \in Key, v \in Value :
            entries' = [entries EXCEPT ![k] = [value |-> v, expiresAt |-> stamp[t] + TTL]]
      BY <2>4 DEF PutStore
    <3>2. ASSUME NEW u \in Thread, u # t PROVE pc'[u] # "putStore"
      <4>1. <<"put", t>> \in mu
        BY <2>4 DEF PutStore, Goto, LockInv
      <4>2. <<"put", u>> \notin mu
        BY <3>2, <4>1 DEF LockInv
      <4>3. QED
        BY <2>4, <3>2, <4>2 DEF PutStore, Goto, LockInv
    <3>3. pc'[t] # "putStore" /\ now' = now /\ sweepNow' = sweepNow
      BY <2>4 DEF PutStore, Goto
    <3>4. \A u \in Thread : stamp'[u] <= now
      BY <2>4 DEF PutStore
    <3>5. \A x \in Key : entries'[x] # NoEntry => entries'[x].expiresAt <= now + TTL
      BY <3>1
    <3>6. QED
      BY <3>2, <3>3, <3>4, <3>5
  <2>5. CASE PutStart(t)
    BY <2>5 DEF PutStart, Goto, StartSweeper
  <2>6. QED
    BY <1>2, <2>1, <2>2, <2>3, <2>4, <2>5 DEF Put
<1>3. ASSUME NEW t \in Thread, Close(t) PROVE ClockInv'
  BY <1>3 DEF Close, CloseCall, CloseEnter, CloseCancel, CloseReturn, CloseDone, CloseTimeout,
             CloseAgain, Goto
<1>4. ASSUME NEW s \in Thread, Sweep(s) PROVE ClockInv'
  BY <1>4 DEF Sweep, SweepTick, EvictClock, EvictLock, EvictScan, SweepExit, TickerFire,
             SweepGoto, Lock, Unlock
<1>5. CASE ClockAdvance
  <2>1. now' = now + 1 /\ UNCHANGED <<entries, stamp, sweepNow, pc>>
    BY <1>5 DEF ClockAdvance
  <2>2. \A k \in Key : entries[k] # NoEntry => entries[k].expiresAt \in Nat
    BY DEF Read, Entry
  <2>3. QED
    BY <2>1, <2>2
<1>6. CASE UNCHANGED vars
  BY <1>6 DEF vars
<1>7. QED
  BY <1>1, <1>2, <1>3, <1>4, <1>5, <1>6 DEF Next

-----------------------------------------------------------------------------

(* The inductive invariant holds: a Put that is between its clock reading   *)
(* and its store is alone under the lock, so no stored expiry can overtake  *)
(* the one it is about to store (cache.go:204-206).                         *)
THEOREM Invariance == Spec => []IInv
<1>1. ASSUME Init PROVE IInv
  <2>1. LockInv /\ OnceInv
    BY <1>1 DEF Init, LockInv, OnceInv, OneSweeper
  <2>2. ClockInv
    BY <1>1 DEF Init, ClockInv
  <2>3. CloseInv
    BY <1>1 DEF Init, CloseInv
  <2>4. QED
    BY <1>1, <2>1, <2>2, <2>3, TypeInit DEF IInv
<1>2. IInv /\ [Next]_vars => IInv'
  BY TypeStep, LockStep, OnceStep, ClockStep, CloseStep DEF IInv
<1>3. QED
  BY <1>1, <1>2, PTL DEF Spec

(* However many first Puts race, one sweeper is started (cache.go:207). *)
THEOREM SingleSweeper == Spec => []OneSweeper
<1>1. IInv => OneSweeper
  BY DEF IInv, OnceInv
<1>2. QED
  BY <1>1, Invariance, PTL

(* A closed sweepDone is a sweeper that has left its loop for good. *)
ExitInv == sweepDone => \E s \in Thread : sweep[s] = "exited"

(* No step brings a sweeper back that has left its loop. *)
LEMMA ExitStep ==
  ASSUME TypeOK, OnceInv, ExitInv, [Next]_vars PROVE ExitInv'
<1> USE DEF ExitInv, cacheVars, closeVars, sweepVars, callerVars
<1>1. ASSUME UNCHANGED sweepDone,
             \A s \in Thread : sweep[s] = "exited" => sweep'[s] = "exited"
      PROVE  ExitInv'
  BY <1>1
<1>2. ASSUME NEW t \in Thread, Get(t) \/ Close(t) \/ ClockAdvance PROVE ExitInv'
  BY <1>1, <1>2 DEF Get, GetCall, GetRead, GetCheck, GetReturn, Close, CloseCall, CloseEnter,
             CloseCancel, CloseReturn, CloseDone, CloseTimeout, CloseAgain, ClockAdvance
<1>3. ASSUME NEW t \in Thread, Put(t) PROVE ExitInv'
  <2>1. CASE PutStart(t)
    <3>1. UNCHANGED sweepDone
      BY <2>1 DEF PutStart, StartSweeper
    <3>2. \A s \in Thread : sweep[s] = "exited" => sweep'[s] = "exited"
      BY <2>1 DEF PutStart, StartSweeper, TypeOK, OnceInv
    <3>3. QED
      BY <1>1, <3>1, <3>2
  <2>2. CASE ~PutStart(t)
    BY <1>1, <1>3, <2>2 DEF Put, PutCall, PutLock, PutStamp, PutStore
  <2>3. QED
    BY <2>1, <2>2
<1>4. ASSUME NEW s \in Thread, Sweep(s) PROVE ExitInv'
  <2>1. CASE SweepExit(s)
    BY <2>1 DEF SweepExit, SweepGoto, TypeOK
  <2>2. CASE ~SweepExit(s)
    <3>1. UNCHANGED sweepDone
      BY <1>4, <2>2 DEF Sweep, SweepTick, EvictClock, EvictLock, EvictScan, TickerFire
    <3>2. \A x \in Thread : sweep[x] = "exited" => sweep'[x] = "exited"
      BY <1>4, <2>2 DEF Sweep, SweepTick, EvictClock, EvictLock, EvictScan, TickerFire,
                SweepGoto, TypeOK
    <3>3. QED
      BY <1>1, <3>1, <3>2
  <2>3. QED
    BY <2>1, <2>2
<1>5. CASE ClockAdvance
  BY <1>1, <1>5 DEF ClockAdvance
<1>6. CASE UNCHANGED vars
  BY <1>1, <1>6 DEF vars
<1>7. QED
  BY <1>2, <1>3, <1>4, <1>5, <1>6 DEF Next

(* sweepDone is closed once at most: closing it twice would panic, in a           *)
(* goroutine that nobody can recover (cache.go:207, 235).                         *)
THEOREM NoDoubleClose == Spec => [][\A s \in Thread : SweepExit(s) => ~sweepDone]_vars
<1>1. Init => ExitInv
  BY DEF Init, ExitInv
<1>2. IInv /\ ExitInv /\ [Next]_vars => ExitInv'
  BY ExitStep DEF IInv
<1>3. IInv /\ ExitInv => \A s \in Thread : SweepExit(s) => ~sweepDone
  <2>1. SUFFICES ASSUME IInv, ExitInv, NEW s \in Thread, SweepExit(s), sweepDone PROVE FALSE
    OBVIOUS
  <2>2. PICK x \in Thread : sweep[x] = "exited"
    BY <2>1 DEF ExitInv
  <2>3. sweep[s] = "select"
    BY <2>1 DEF SweepExit, SweepGoto
  <2>4. QED
    BY <2>1, <2>2, <2>3 DEF IInv, OnceInv, OneSweeper
<1>4. QED
  BY <1>1, <1>2, <1>3, Invariance, PTL DEF Spec

(* A Close that has returned has cancelled the sweeper (cache.go:280-288). *)
THEOREM CloseCancels == Spec => []CloseReturnsCancelled
<1>1. IInv => CloseReturnsCancelled
  BY DEF IInv, CloseInv, CloseReturnsCancelled
<1>2. QED
  BY <1>1, Invariance, PTL

(* Only a Put's store and a sweeper's scan write the map. *)
LEMMA MapWriters ==
  ASSUME [Next]_vars, entries' # entries
  PROVE  \E t \in Thread : EvictScan(t) \/ PutStore(t)
<1> USE DEF cacheVars
<1>1. ASSUME NEW t \in Thread, Get(t) PROVE FALSE
  BY <1>1 DEF Get, GetCall, GetRead, GetCheck, GetReturn
<1>2. ASSUME NEW t \in Thread, Put(t) PROVE PutStore(t)
  BY <1>2 DEF Put, PutCall, PutLock, PutStamp, PutStart
<1>3. ASSUME NEW t \in Thread, Close(t) PROVE FALSE
  BY <1>3 DEF Close, CloseCall, CloseEnter, CloseCancel, CloseDone,
              CloseTimeout, CloseAgain, CloseReturn
<1>4. ASSUME NEW s \in Thread, Sweep(s) PROVE EvictScan(s)
  BY <1>4 DEF Sweep, SweepTick, EvictClock, EvictLock, SweepExit, TickerFire
<1>5. ~ClockAdvance /\ ~UNCHANGED vars
  BY DEF ClockAdvance, vars
<1>6. QED
  BY <1>1, <1>2, <1>3, <1>4, <1>5 DEF Next

(* Only the scan removes entries, and it judges them with an instant that   *)
(* is not ahead of the clock: what it removes has expired (cache.go:252).   *)
THEOREM LiveEntriesStay == Spec => EvictOnlyExpired
<1>1. ASSUME IInv, [Next]_vars, NEW k \in Key,
             entries[k] # NoEntry, entries'[k] = NoEntry
      PROVE  Expired(entries[k], now)
  <2>1. ASSUME NEW s \in Thread, EvictScan(s) PROVE Expired(entries[k], now)
    <3>1. Expired(entries[k], sweepNow[s])
      BY <1>1, <2>1 DEF EvictScan
    <3>2. sweepNow[s] <= now /\ sweepNow[s] \in Nat /\ now \in Nat
      BY <1>1 DEF IInv, ClockInv, TypeOK
    <3>3. entries[k].expiresAt \in Nat
      BY <1>1 DEF IInv, TypeOK, Read, Entry
    <3>4. QED
      BY <3>1, <3>2, <3>3 DEF Expired
  <2>2. ASSUME NEW t \in Thread, PutStore(t) PROVE FALSE
    <3>1. PICK x \in Key, v \in Value :
            entries' = [entries EXCEPT ![x] = [value |-> v, expiresAt |-> stamp[t] + TTL]]
      BY <2>2 DEF PutStore
    <3>2. [value |-> v, expiresAt |-> stamp[t] + TTL] \in Entry
      BY <1>1 DEF IInv, TypeOK, Entry
    <3>3. QED
      BY <1>1, <3>1, <3>2 DEF IInv, TypeOK
  <2>3. QED
    BY <1>1, <2>1, <2>2, MapWriters
<1>2. IInv /\ [Next]_vars
        => [\A k \in Key : (entries[k] # NoEntry /\ entries'[k] = NoEntry)
                            => Expired(entries[k], now)]_vars
  BY <1>1
<1>3. QED
  BY <1>2, Invariance, PTL DEF Spec, EvictOnlyExpired

(* A Put that stores later also stores the later expiry (cache.go:205). *)
THEOREM ExpiryGrows == Spec => ExpiryNeverRegresses
<1>1. ASSUME IInv, [Next]_vars, NEW k \in Key,
             entries[k] # NoEntry, entries'[k] # NoEntry
      PROVE  entries'[k].expiresAt >= entries[k].expiresAt
  <2>1. entries[k].expiresAt \in Nat
    BY <1>1 DEF IInv, TypeOK, Read, Entry
  <2>2. ASSUME NEW t \in Thread, PutStore(t)
        PROVE  entries'[k].expiresAt >= entries[k].expiresAt
    <3>1. entries[k].expiresAt <= stamp[t] + TTL
      BY <1>1, <2>2 DEF PutStore, Goto, IInv, ClockInv
    <3>2. \/ entries'[k] = entries[k]
          \/ entries'[k].expiresAt = stamp[t] + TTL
      BY <1>1, <2>2 DEF PutStore, IInv, TypeOK
    <3>3. QED
      BY <2>1, <3>1, <3>2
  <2>3. ASSUME NEW s \in Thread, EvictScan(s)
        PROVE  entries'[k] = entries[k]
    BY <1>1, <2>3 DEF EvictScan
  <2>4. QED
    BY <1>1, <2>1, <2>2, <2>3, MapWriters
<1>2. IInv /\ [Next]_vars
        => [\A k \in Key : (entries[k] # NoEntry /\ entries'[k] # NoEntry)
                            => entries'[k].expiresAt >= entries[k].expiresAt]_vars
  BY <1>1
<1>3. QED
  BY <1>2, Invariance, PTL DEF Spec, ExpiryNeverRegresses

-----------------------------------------------------------------------------
(* The refinement.  A step that touches none of what the mapping reads is a *)
(* stutter; the others are the abstract step of the same name.              *)

Hidden == UNCHANGED <<now, Live, View, Answer>>

\* The constructor builds the empty abstract map.
LEMMA MapInitially == ASSUME Init PROVE Contract!MapInit
BY DEF Init, Contract!MapInit, Live, View, Answer, Visible

\* What is visible is unexpired, and the clock is a natural number.
LEMMA VisibleIsAlive ==
  ASSUME TypeOK, NEW e \in Read
  PROVE  /\ Visible(e) = Contract!At(e, now)
         /\ Visible(e) = NoEntry \/ Visible(e) = e
         /\ e # NoEntry => e.expiresAt \in Nat
<1>1. now \in Nat /\ (e # NoEntry => e.expiresAt \in Nat)
  BY DEF TypeOK, Read, Entry
<1>2. QED
  BY <1>1 DEF Visible, Expired, Contract!At

\* Steps of a caller between the instants at which it touches the map.
LEMMA CallerHidden ==
  ASSUME TypeOK, NEW t \in Thread, NEW from, NEW to, Goto(t, from, to),
         {from, to} \cap {"getCheck", "getRet"} = {},
         UNCHANGED <<now, entries, got>>
  PROVE  Hidden
<1>1. \A u \in Thread : /\ pc'[u] = "getCheck" <=> pc[u] = "getCheck"
                        /\ pc'[u] = "getRet" <=> pc[u] = "getRet"
  BY DEF Goto, TypeOK
<1>2. Live' = Live
  BY DEF Live, Visible, Expired
<1>3. View' = View /\ Answer' = Answer
  BY <1>1 DEF View, Answer, Visible, Expired
<1>4. QED
  BY <1>2, <1>3 DEF Hidden

\* Get reads the map at one instant.
LEMMA ReadLooks ==
  ASSUME IInv, NEW t \in Thread, GetRead(t)
  PROVE  \E k \in Key : Contract!Look(t, k)
<1>1. PICK k \in Key : got' = [got EXCEPT ![t] = entries[k]]
  BY DEF GetRead
<1>2. /\ pc[t] = "getRead" /\ pc' = [pc EXCEPT ![t] = "getCheck"]
      /\ UNCHANGED <<now, entries>>
  BY DEF GetRead, Goto, cacheVars
<1>3. pc \in [Thread -> Pc] /\ got \in [Thread -> Read]
  BY DEF IInv, TypeOK
<1>4. View[t] = NoEntry
  BY <1>2 DEF View
<1>5. View' = [View EXCEPT ![t] = Live[k]]
  BY <1>1, <1>2, <1>3 DEF View, Live, Visible, Expired
<1>6. Live' = Live /\ Answer' = Answer
  BY <1>1, <1>2, <1>3 DEF Live, Answer, Visible, Expired
<1>7. QED
  BY <1>2, <1>4, <1>5, <1>6 DEF Contract!Look

\* Get judges what it read and settles its answer.
LEMMA CheckReplies ==
  ASSUME IInv, NEW t \in Thread, GetCheck(t)
  PROVE  Contract!Reply(t)
<1>1. /\ pc[t] = "getCheck" /\ pc' = [pc EXCEPT ![t] = "getRet"]
      /\ got' = [got EXCEPT ![t] = Visible(got[t])]
      /\ UNCHANGED <<now, entries>>
  BY DEF GetCheck, Goto, cacheVars, Visible, IInv, TypeOK
<1>2. pc \in [Thread -> Pc] /\ got \in [Thread -> Read]
  BY DEF IInv, TypeOK
<1>3. Answer' = [Answer EXCEPT ![t] = View[t]]
  BY <1>1, <1>2 DEF Answer, View
<1>4. View' = [View EXCEPT ![t] = NoEntry]
  BY <1>1, <1>2 DEF View, Visible, Expired
<1>5. Live' = Live
  BY <1>1 DEF Live, Visible, Expired
<1>6. QED
  BY <1>1, <1>3, <1>4, <1>5 DEF Contract!Reply

\* Get returns.
LEMMA ReturnReturns ==
  ASSUME IInv, NEW t \in Thread, GetReturn(t)
  PROVE  Contract!Return(t)
<1>1. /\ pc[t] = "getRet" /\ pc' = [pc EXCEPT ![t] = "idle"]
      /\ got' = [got EXCEPT ![t] = NoEntry]
      /\ UNCHANGED <<now, entries>>
  BY DEF GetReturn, Goto, cacheVars
<1>2. pc \in [Thread -> Pc] /\ got \in [Thread -> Read]
  BY DEF IInv, TypeOK
<1>3. Answer' = [Answer EXCEPT ![t] = NoEntry]
  BY <1>1, <1>2 DEF Answer
<1>4. View' = View /\ Live' = Live
  BY <1>1, <1>2 DEF View, Live, Visible, Expired
<1>5. QED
  BY <1>1, <1>3, <1>4 DEF Contract!Return

\* Put stores an entry stamped with an instant of the call, which outlives the
\* one it replaces.
LEMMA StoreStores ==
  ASSUME IInv, NEW t \in Thread, PutStore(t)
  PROVE  \E k \in Key, v \in Value : Contract!Store(k, v)
<1> DEFINE e(v) == [value |-> v, expiresAt |-> stamp[t] + TTL]
<1>1. PICK k \in Key, v \in Value : entries' = [entries EXCEPT ![k] = e(v)]
  BY DEF PutStore
<1>2. /\ pc[t] = "putStore" /\ pc' = [pc EXCEPT ![t] = "putStart"]
      /\ UNCHANGED <<now, got>>
  BY DEF PutStore, Goto
<1>3. TypeOK /\ now \in Nat /\ stamp[t] \in 0..now
  BY DEF IInv, TypeOK, ClockInv
<1>4. e(v) \in Entry /\ e(v) # NoEntry
  BY <1>3 DEF Entry
<1>5. Live[k] # NoEntry => Live[k].expiresAt <= e(v).expiresAt
  <2>1. entries[k] # NoEntry => entries[k].expiresAt <= stamp[t] + TTL
    BY <1>2 DEF IInv, ClockInv
  <2>2. Live[k] # NoEntry => Live[k] = entries[k]
    BY DEF Live, Visible
  <2>3. QED
    BY <2>1, <2>2
<1>6. Live' = [Live EXCEPT ![k] = Contract!At(e(v), now)]
  <2>1. Live' = [x \in Key |-> IF entries'[x] # NoEntry /\ ~Expired(entries'[x], now)
                               THEN entries'[x] ELSE NoEntry]
    BY <1>2 DEF Live, Visible, Expired
  <2>2. entries \in [Key -> Read]
    BY <1>3 DEF TypeOK
  <2>3. (~Expired(e(v), now)) <=> e(v).expiresAt >= now
    BY <1>3 DEF Expired
  <2>4. QED
    BY <1>1, <2>1, <2>2, <2>3 DEF Live, Visible, Contract!At
<1>7. View' = View /\ Answer' = Answer
  <2>1. pc \in [Thread -> Pc]
    BY <1>3 DEF TypeOK
  <2>2. QED
    BY <1>2, <2>1 DEF View, Answer, Visible, Expired
<1>8. QED
  BY <1>2, <1>3, <1>5, <1>6, <1>7 DEF Contract!Store

\* A scan removes only what was not visible any more.
LEMMA ScanHidden ==
  ASSUME IInv, NEW s \in Thread, EvictScan(s)
  PROVE  Hidden
<1>1. /\ entries' = [k \in Key |->
             IF entries[k] # NoEntry /\ Expired(entries[k], sweepNow[s])
             THEN NoEntry ELSE entries[k]]
      /\ UNCHANGED <<now, got, pc>>
  BY DEF EvictScan, callerVars
<1>2. ASSUME NEW k \in Key
      PROVE  Visible(entries[k])' = Visible(entries[k])
  <2>1. now \in Nat /\ sweepNow[s] \in Nat /\ sweepNow[s] <= now
    BY DEF IInv, TypeOK, ClockInv
  <2>2. entries[k] # NoEntry => entries[k].expiresAt \in Nat
    BY DEF IInv, TypeOK, Read, Entry
  <2>3. entries[k] # NoEntry /\ Expired(entries[k], sweepNow[s]) => Expired(entries[k], now)
    BY <2>1, <2>2 DEF Expired
  <2>4. QED
    BY <1>1, <2>3 DEF Visible, Expired
<1>3. Live' = Live
  BY <1>2 DEF Live
<1>4. View' = View /\ Answer' = Answer
  BY <1>1 DEF View, Answer, Visible, Expired
<1>5. QED
  BY <1>1, <1>3, <1>4 DEF Hidden

\* As the clock goes on, both maps lose the same entries.
LEMMA AdvanceAdvances ==
  ASSUME IInv, ClockAdvance
  PROVE  Contract!Advance
<1>1. now < MaxTime /\ now' = now + 1 /\ UNCHANGED <<entries, got, pc>>
  BY DEF ClockAdvance, cacheVars, callerVars
<1>2. TypeOK /\ now \in Nat
  BY DEF IInv, TypeOK
<1>3. ASSUME NEW e \in Read
      PROVE  (IF e # NoEntry /\ ~Expired(e, now') THEN e ELSE NoEntry)
                = Contract!At(Visible(e), now')
  <2>1. e # NoEntry => e.expiresAt \in Nat
    BY <1>2, VisibleIsAlive
  <2>2. QED
    BY <1>1, <1>2, <2>1 DEF Visible, Expired, Contract!At
<1>4. Live' = [k \in Key |-> Contract!At(Live[k], now')]
  <2>1. \A k \in Key : entries[k] \in Read
    BY <1>2 DEF TypeOK
  <2>2. Live' = [k \in Key |-> IF entries[k] # NoEntry /\ ~Expired(entries[k], now')
                               THEN entries[k] ELSE NoEntry]
    BY <1>1 DEF Live, Visible, Expired
  <2>3. QED
    BY <1>3, <2>1, <2>2 DEF Live
<1>5. View' = [t \in Thread |-> Contract!At(View[t], now')]
  <2>1. \A t \in Thread : got[t] \in Read
    BY <1>2 DEF TypeOK
  <2>2. View' = [t \in Thread |-> IF pc[t] = "getCheck"
                                  THEN IF got[t] # NoEntry /\ ~Expired(got[t], now')
                                       THEN got[t] ELSE NoEntry
                                  ELSE NoEntry]
    BY <1>1 DEF View, Visible, Expired
  <2>3. Contract!At(NoEntry, now') = NoEntry
    BY DEF Contract!At
  <2>4. QED
    BY <1>3, <2>1, <2>2, <2>3 DEF View
<1>6. Answer' = Answer
  BY <1>1 DEF Answer
<1>7. QED
  BY <1>1, <1>4, <1>5, <1>6 DEF Contract!Advance

\* Every step of the cache is a step of the abstract map or invisible.
LEMMA StepRefines ==
  ASSUME IInv, [Next]_vars
  PROVE  Contract!MapNext \/ Hidden
<1> USE DEF cacheVars, callerVars
<1>0. TypeOK
  BY DEF IInv
<1>1. ASSUME NEW t \in Thread, Get(t) PROVE Contract!MapNext \/ Hidden
  <2>1. CASE GetCall(t)
    BY <1>0, <2>1, CallerHidden DEF GetCall
  <2>2. CASE GetRead(t)
    BY <2>2, ReadLooks DEF Contract!MapNext
  <2>3. CASE GetCheck(t)
    BY <2>3, CheckReplies DEF Contract!MapNext
  <2>4. CASE GetReturn(t)
    BY <2>4, ReturnReturns DEF Contract!MapNext
  <2>5. QED
    BY <1>1, <2>1, <2>2, <2>3, <2>4 DEF Get
<1>2. ASSUME NEW t \in Thread, Put(t) PROVE Contract!MapNext \/ Hidden
  <2>1. CASE PutCall(t)
    BY <1>0, <2>1, CallerHidden DEF PutCall
  <2>2. CASE PutLock(t)
    BY <1>0, <2>2, CallerHidden DEF PutLock
  <2>3. CASE PutStamp(t)
    BY <1>0, <2>3, CallerHidden DEF PutStamp
  <2>4. CASE PutStore(t)
    BY <2>4, StoreStores DEF Contract!MapNext
  <2>5. CASE PutStart(t)
    BY <1>0, <2>5, CallerHidden DEF PutStart
  <2>6. QED
    BY <1>2, <2>1, <2>2, <2>3, <2>4, <2>5 DEF Put
<1>3. ASSUME NEW t \in Thread, Close(t) PROVE Hidden
  <2>1. CASE CloseCall(t)
    BY <1>0, <2>1, CallerHidden DEF CloseCall
  <2>2. CASE CloseEnter(t)
    BY <1>0, <2>2, CallerHidden DEF CloseEnter
  <2>3. CASE CloseCancel(t)
    BY <1>0, <2>3, CallerHidden DEF CloseCancel
  <2>4. ASSUME NEW from \in {"closeWait", "closeEnter"}, CloseReturn(t, from)
        PROVE  Hidden
    BY <1>0, <2>4, CallerHidden DEF CloseReturn
  <2>5. QED
    BY <1>3, <2>1, <2>2, <2>3, <2>4 DEF Close, CloseDone, CloseTimeout, CloseAgain
<1>4. ASSUME NEW s \in Thread, Sweep(s) PROVE Hidden
  <2>1. CASE EvictScan(s)
    BY <2>1, ScanHidden
  <2>2. CASE ~EvictScan(s)
    <3>1. UNCHANGED <<now, entries, got, pc>>
      BY <1>4, <2>2 DEF Sweep, SweepTick, EvictClock, EvictLock, SweepExit, TickerFire
    <3>2. QED
      BY <3>1 DEF Hidden, Live, View, Answer, Visible, Expired
  <2>3. QED
    BY <2>1, <2>2
<1>5. CASE ClockAdvance
  BY <1>5, AdvanceAdvances DEF Contract!MapNext
<1>6. CASE UNCHANGED vars
  BY <1>6 DEF vars, Hidden, Live, View, Answer, Visible, Expired
<1>7. QED
  BY <1>1, <1>2, <1>3, <1>4, <1>5, <1>6 DEF Next

\* MemoryCache implements TTLMap: no caller can tell the lock, the sweeper, the
\* late eviction or Close from a map whose entries vanish on time (cache.go:156-261).
THEOREM Refinement == Spec => ImplementsTTLMap
<1>1. Init => Contract!MapInit
  BY MapInitially
<1>2. IInv /\ [Next]_vars => [Contract!MapNext]_<<now, Live, View, Answer>>
  BY StepRefines DEF Hidden
<1>3. QED
  BY <1>1, <1>2, Invariance, PTL
     DEF Spec, ImplementsTTLMap, Contract!MapSpec, Contract!mapVars
=============================================================================
