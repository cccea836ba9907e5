------------------------------- MODULE TTLMap -------------------------------
(***************************************************************************)
(* What a cache promises its callers (the Cache interface of config.go and *)
(* the documentation of MemoryCache): a map whose entries vanish on their  *)
(* own when their time is over.  There is no lock, no sweeper and no Close *)
(* here, because none of them may be visible to a caller.                  *)
(***************************************************************************)
EXTENDS Integers

CONSTANTS Thread, Key, Value, TTL, MaxTime, NoEntry

VARIABLES
    now,        \* the clock
    live,       \* what each key holds now: an unexpired entry or NoEntry
    view,       \* what each pending Get will answer
    answer      \* what each Get that has not returned yet answered

mapVars == <<now, live, view, answer>>

Entry == [value : Value, expiresAt : Nat]

\* An entry, or nothing once instant t is past its last one.
At(e, t) == IF e # NoEntry /\ e.expiresAt >= t THEN e ELSE NoEntry

MapInit ==
    /\ now = 0
    /\ live = [k \in Key |-> NoEntry]
    /\ view = [t \in Thread |-> NoEntry]
    /\ answer = [t \in Thread |-> NoEntry]

\* Put: the entry lives TTL from some instant of the call, and never less long
\* than the one it replaces.
Store(k, v) ==
    /\ \E s \in 0..now :
          LET e == [value |-> v, expiresAt |-> s + TTL]
          IN  /\ live[k] # NoEntry => live[k].expiresAt <= e.expiresAt
              /\ live' = [live EXCEPT ![k] = At(e, now)]
    /\ UNCHANGED <<now, view, answer>>

\* Get takes effect at one instant ...
Look(t, k) ==
    /\ view[t] = NoEntry
    /\ view' = [view EXCEPT ![t] = live[k]]
    /\ UNCHANGED <<now, live, answer>>

\* ... and answers with what it saw, if that is still alive.
Reply(t) ==
    /\ answer' = [answer EXCEPT ![t] = view[t]]
    /\ view' = [view EXCEPT ![t] = NoEntry]
    /\ UNCHANGED <<now, live>>

Return(t) ==
    /\ answer' = [answer EXCEPT ![t] = NoEntry]
    /\ UNCHANGED <<now, live, view>>

Advance ==
    /\ now < MaxTime
    /\ now' = now + 1
    /\ live' = [k \in Key |-> At(live[k], now')]
    /\ view' = [t \in Thread |-> At(view[t], now')]
    /\ UNCHANGED answer

MapNext ==
    \/ Advance
    \/ \E k \in Key, v \in Value : Store(k, v)
    \/ \E t \in Thread, k \in Key : Look(t, k)
    \/ \E t \in Thread : Reply(t) \/ Return(t)

MapSpec == MapInit /\ [][MapNext]_mapVars
=============================================================================
