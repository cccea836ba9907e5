---------------------------- MODULE HolidayQuery ----------------------------
(***************************************************************************)
(* The holiday endpoints from the caller's side: PublicHolidays and        *)
(* SchoolHolidays check the request, dispatch it, and check what came      *)
(* back; the caller then asks one holiday for Days and ranges over it.  A  *)
(* caller may also build a Holiday by hand and skip all checks.            *)
(*                                                                         *)
(* The two methods differ only in the query parameters they copy (a group  *)
(* code for schools), so one action stands for both.  Countries and        *)
(* Languages, which take a language only, and Subdivisions go the same way *)
(* with fewer checks.  The round trip itself is module Request's: here it  *)
(* fails or delivers a decoded list.                                       *)
(***************************************************************************)
EXTENDS Calendar, Sequences

CONSTANTS
    WindowDate,     \* dates of requests
    HolidayDate,    \* dates the upstream, or a caller, puts into a holiday
    MaxHolidays,    \* bound: holidays of one answer
    NoRequest       \* before a request is made, and once it is on its way

maxDateRangeYears == 3

Code == {"valid", "malformed", "absent"}    \* country and language codes
\* "list" stands for Countries and Languages.  Only holidays have a window.
HolidayRequest == [endpoint : {"holidays"}, country : Code, language : Code,
                   from : WindowDate, to : WindowDate]
ListRequest == [endpoint : {"subdivisions"}, country : Code, language : Code,
                from : {Zero}, to : {Zero}]
    \union [endpoint : {"list"}, country : {"absent"}, language : Code,
            from : {Zero}, to : {Zero}]
Request == HolidayRequest \union ListRequest

ASSUME NoRequestAssumption == NoRequest \notin Request
ASSUME DateAssumption ==
    /\ WindowDate \union HolidayDate \subseteq [year : Nat, month : 1..12, day : 1..31]
    /\ \A x \in WindowDate \union HolidayDate : IsDate(x)
    /\ HolidayDate # {} /\ MaxHolidays \in Nat

Holiday == [start : HolidayDate, end : HolidayDate]
Answer  == UNION {[1..n -> Holiday] : n \in 0..MaxHolidays}

Result == {"none", "invalidCountry", "invalidRange", "tooLarge", "invalidLanguage",
           "failed", "malformed", "holidays", "listed"}

VARIABLES
    pc,         \* where the endpoint method, then the caller, is
    req,        \* the request, which nothing reads once the answer is there
    answer,     \* the decoded list
    result,     \* how the endpoint method returned
    h,          \* the holiday at hand
    d,          \* loop variable of Range
    yielded     \* dates yielded so far

vars == <<pc, req, answer, result, h, d, yielded>>
rangeVars == <<h, d, yielded>>

\* The days of a holiday, first and last included.
Span(x) == Midnight(x.end) - Midnight(x.start) + 1

TypeOK ==
    /\ pc \in {"start", "flight", "decoded", "caller", "range", "ranged", "broken", "end"}
    /\ req \in Request \union {NoRequest}
    /\ answer \in Answer
    /\ result \in Result
    /\ h \in Holiday
    /\ IsDate(d)
    /\ yielded \in Nat

Init ==
    /\ pc = "start"
    /\ req = NoRequest
    /\ answer = <<>>
    /\ result = "none"
    /\ h = [start |-> CHOOSE x \in HolidayDate : TRUE, end |-> CHOOSE x \in HolidayDate : TRUE]
    /\ d = Zero
    /\ yielded = 0

-----------------------------------------------------------------------------
(* validate.go                                                             *)

lowerBound(to) == AddYears(to, -maxDateRangeYears)

\* The window anchored at from, which the comment at validate.go:89-98 warns of.
validateDateRange_Forward(from, to) ==
    CASE After(from, to) -> "invalidRange"
      [] ~After(from, to) /\ After(to, AddYears(from, maxDateRangeYears)) -> "tooLarge"
      [] OTHER -> "none"
validateDateRange(from, to) ==
    CASE After(from, to) -> "invalidRange"
      [] ~After(from, to) /\ Before(from, lowerBound(to)) -> "tooLarge"
      [] OTHER -> "none"

\* A code that is absent is not looked at.
validateLanguage(code) == IF code = "malformed" THEN "invalidLanguage" ELSE "none"

\* The first check that fails decides.
HolidayVerdict(r) ==
    IF r.country # "valid" THEN "invalidCountry"
    ELSE IF validateDateRange(r.from, r.to) # "none" THEN validateDateRange(r.from, r.to)
    ELSE validateLanguage(r.language)

ListVerdict(r) ==
    IF r.endpoint = "subdivisions" /\ r.country # "valid" THEN "invalidCountry"
    ELSE validateLanguage(r.language)

Verdict(r) == IF r.endpoint = "holidays" THEN HolidayVerdict(r) ELSE ListVerdict(r)

Reject ==
    /\ pc = "start"
    /\ \E r \in Request : Verdict(r) # "none" /\ req' = r /\ result' = Verdict(r)
    /\ pc' = "end"
    /\ UNCHANGED <<answer, rangeVars>>

Dispatch ==
    /\ pc = "start"
    /\ \E r \in Request : Verdict(r) = "none" /\ req' = r
    /\ pc' = "flight"
    /\ UNCHANGED <<answer, result, rangeVars>>

-----------------------------------------------------------------------------
(* The round trip, and validateHolidays (request.go).                      *)

Fail ==
    /\ pc = "flight"
    /\ pc' = "end" /\ result' = "failed"
    /\ req' = NoRequest
    /\ UNCHANGED <<answer, rangeVars>>

Deliver ==
    /\ pc = "flight" /\ req.endpoint = "holidays"
    /\ pc' = "decoded"
    /\ answer' \in Answer
    /\ req' = NoRequest
    /\ UNCHANGED <<result, rangeVars>>

\* Nothing is checked in a list of countries, languages or subdivisions.
DeliverList ==
    /\ pc = "flight" /\ req.endpoint # "holidays"
    /\ pc' = "end" /\ result' = "listed"
    /\ req' = NoRequest
    /\ UNCHANGED <<answer, rangeVars>>

WellFormed(x) == ~IsZero(x.start) /\ ~IsZero(x.end) /\ ~Before(x.end, x.start)

validateHolidays ==
    /\ pc = "decoded"
    /\ \/ /\ \A i \in 1..Len(answer) : WellFormed(answer[i])
          /\ pc' = "caller" /\ result' = "holidays"
       \/ /\ \E i \in 1..Len(answer) : ~WellFormed(answer[i])
          /\ pc' = "end" /\ result' = "malformed"
    /\ UNCHANGED <<req, answer, rangeVars>>

-----------------------------------------------------------------------------
(* holiday.go                                                              *)

Days_Unclamped(x) == DaysUntil(x.start, x.end) + 1
Days(x) == IF Before(x.end, x.start) THEN 0 ELSE DaysUntil(x.start, x.end) + 1

\* The first round of Range: nothing for a reversed holiday, else its start.
RangeFrom(x) ==
    /\ h' = x
    /\ IF Before(x.end, x.start)
       THEN pc' = "ranged" /\ UNCHANGED <<d, yielded>>
       ELSE pc' = "range" /\ d' = x.start /\ yielded' = 1
    /\ UNCHANGED <<req, answer, result>>

RangeReturned ==
    /\ pc = "caller"
    /\ \E i \in 1..Len(answer) : RangeFrom(answer[i])

RangeHandBuilt ==
    /\ pc = "start"
    /\ \E x \in Holiday : RangeFrom(x)

MoreDays_Exclusive == Before(AddDays(d, 1), h.end)
MoreDays == Before(d, h.end)

\* The consumer takes d and asks for more.
RangeNext ==
    /\ pc = "range" /\ MoreDays
    /\ d' = AddDays(d, 1) /\ yielded' = yielded + 1
    /\ UNCHANGED <<pc, req, answer, result, h>>

RangeLast ==
    /\ pc = "range" /\ ~MoreDays
    /\ pc' = "ranged"
    /\ UNCHANGED <<req, answer, result, rangeVars>>

\* The consumer breaks out of its loop: the yield of d answers false.
RangeBreak ==
    /\ pc = "range"
    /\ pc' = "broken"
    /\ UNCHANGED <<req, answer, result, rangeVars>>

Next == \/ Reject \/ Dispatch \/ Fail \/ Deliver \/ DeliverList \/ validateHolidays
        \/ RangeReturned \/ RangeHandBuilt \/ RangeNext \/ RangeLast \/ RangeBreak

Spec == Init /\ [][Next]_vars

-----------------------------------------------------------------------------
(* What must be true of it.                                                *)

\* Calendar order, without any arithmetic on days.
NotAfter(a, b) ==
    \/ a.year < b.year
    \/ a.year = b.year /\ a.month < b.month
    \/ a.year = b.year /\ a.month = b.month /\ a.day <= b.day

WithinThreeYears == NotAfter(req.to, [req.from EXCEPT !.year = @ + maxDateRangeYears])

\* Exactly the windows of at most three calendar years are dispatched, leap days
\* at either end included, where stepping three years runs into a day that does
\* not exist (validate.go:82-98, 113-116).
WindowIsThreeYears ==
    /\ pc = "flight" => NotAfter(req.from, req.to) /\ WithinThreeYears
    /\ result = "tooLarge" => NotAfter(req.from, req.to) /\ ~WithinThreeYears
    /\ result = "invalidRange" => ~NotAfter(req.from, req.to)

\* Range yields every day of the holiday once and in order, over month ends,
\* leap days and years, and stops on the last (holiday.go:140-150).
RangeIsEveryDay ==
    /\ pc \in {"range", "broken"} => /\ Midnight(d) = Midnight(h.start) + yielded - 1
                                     /\ yielded \in 1..Span(h)
    /\ pc = "ranged" => yielded = IF Span(h) > 0 THEN Span(h) ELSE 0

\* Days counts what Range yields, reversed holidays included, up to the span that
\* a Duration holds, and stands still behind it; and a holiday that an endpoint
\* returned has both its dates and at least one day, whatever the upstream sent
\* (date.go:181, holiday.go:99-104, 135-152, request.go:346-361).
RangeAgreesWithDays ==
    pc = "ranged" =>
        /\ Days(h) = IF yielded <= MaxDays + 1 THEN yielded ELSE MaxDays + 1
        /\ result = "holidays" => yielded >= 1 /\ ~IsZero(h.start) /\ ~IsZero(h.end)
=============================================================================
