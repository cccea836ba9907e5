---------------------------- MODULE CallContract ----------------------------
(***************************************************************************)
(* What a call of an endpoint promises its caller (the comments on         *)
(* doJSONGet, WithRetry and shouldRetry): it tries a bounded number of     *)
(* times, one try after the other and none after its context has ended; it *)
(* tries again after transient failures only, and gives up on one only     *)
(* when its tries are spent; and what it reports is the outcome of its     *)
(* last try, which answers its own query.                                  *)
(*                                                                         *)
(* Calls do not know of each other: there is no cache, no mutex, no body   *)
(* to be closed and no other call here, because none may be visible.       *)
(***************************************************************************)
EXTENDS Integers

CONSTANTS Call, Query, Attempts, NoVerdict

VARIABLES
    phase,      \* "idle", "ready" for a try, "trying", "tried", or "returned"
    ended,      \* whether the context has ended
    query,      \* what is asked for
    tries,      \* how many tries have come to an end
    verdict,    \* what the last one came to, until something is made of it
    result      \* what the caller gets

callVars == <<phase, ended, query, tries, verdict, result>>

\* A try ends with an answer, an error status, or no usable response at all.
Verdict == [of : Query, how : {"answer", "status", "failure"}, transient : BOOLEAN]

\* What may be said to the caller of v, the outcome of the last of n tries.
Reports(v, n) ==
    CASE v.how = "answer"  -> {"data", "empty", "malformed", "tooLarge"}
      [] v.how = "status"  -> {IF n > 1 /\ v.transient THEN "apiExhausted" ELSE "api"}
      [] v.how = "failure" -> {IF n > 1 THEN "exhausted" ELSE "failed"}

CallInit ==
    /\ phase   = [c \in Call |-> "idle"]
    /\ ended   = [c \in Call |-> FALSE]
    /\ query   \in [Call -> Query]
    /\ tries   = [c \in Call |-> 0]
    /\ verdict = [c \in Call |-> NoVerdict]
    /\ result  = [c \in Call |-> "none"]

Move(c, from, to) == phase[c] = from /\ phase' = [phase EXCEPT ![c] = to]

Begin(c) ==
    /\ Move(c, "idle", "ready")
    /\ UNCHANGED <<ended, query, tries, verdict, result>>

Refuse(c) ==
    /\ Move(c, "idle", "returned")
    /\ result' = [result EXCEPT ![c] = "invalid"]
    /\ UNCHANGED <<ended, query, tries, verdict>>

\* The context ends whenever it likes ...
End(c) ==
    /\ phase[c] # "returned" /\ ~ended[c]
    /\ ended' = [ended EXCEPT ![c] = TRUE]
    /\ UNCHANGED <<phase, query, tries, verdict, result>>

\* ... and between two tries that is the end of the call.
Abandon(c) ==
    /\ Move(c, "ready", "returned")
    /\ ended[c]
    /\ result' = [result EXCEPT ![c] = "ctx"]
    /\ UNCHANGED <<ended, query, tries, verdict>>

Try(c) ==
    /\ Move(c, "ready", "trying")
    /\ ~ended[c]
    /\ UNCHANGED <<ended, query, tries, verdict, result>>

Conclude(c) ==
    /\ Move(c, "trying", "tried")
    /\ \E v \in Verdict :
          /\ v.of = query[c] /\ (v.how = "answer" => ~v.transient)
          /\ verdict' = [verdict EXCEPT ![c] = v]
    /\ tries' = [tries EXCEPT ![c] = @ + 1]
    /\ UNCHANGED <<ended, query, result>>

Again(c) ==
    /\ Move(c, "tried", "ready")
    /\ verdict[c].transient /\ tries[c] < Attempts
    /\ verdict' = [verdict EXCEPT ![c] = NoVerdict]
    /\ UNCHANGED <<ended, query, tries, result>>

Report(c) ==
    /\ Move(c, "tried", "returned")
    /\ verdict[c].transient => tries[c] = Attempts
    /\ \E r \in Reports(verdict[c], tries[c]) : result' = [result EXCEPT ![c] = r]
    /\ verdict' = [verdict EXCEPT ![c] = NoVerdict]
    /\ UNCHANGED <<ended, query, tries>>

CallNext ==
    \E c \in Call :
        \/ Begin(c) \/ Refuse(c) \/ End(c) \/ Abandon(c)
        \/ Try(c) \/ Conclude(c) \/ Again(c) \/ Report(c)

CallSpec == CallInit /\ [][CallNext]_callVars
=============================================================================
