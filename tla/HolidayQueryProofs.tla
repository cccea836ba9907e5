--------------------------- MODULE HolidayQueryProofs ---------------------------
(***************************************************************************)
(* Proofs about HolidayQuery for all dates of the calendar: that counting  *)
(* days and comparing years, months and days agree, and what follows for   *)
(* the window of a request and for Range.                                  *)
(***************************************************************************)
EXTENDS HolidayQuery, TLAPS

-----------------------------------------------------------------------------
(* The calendar.  AddYears leads to years before the first, so years are   *)
(* integers here.                                                          *)

Dated(x) == /\ x.year \in Int /\ x.month \in 1..12
            /\ x.day \in 1..DaysIn(x.year, x.month)

YearStart(y) == 365 * (y - 1) + (y - 1) \div 4 - (y - 1) \div 100 + (y - 1) \div 400
LeapDay(y) == IF IsLeap(y) THEN 1 ELSE 0
MonthStart(y, m) == BeforeMonth[m] + (IF m > 2 THEN LeapDay(y) ELSE 0)

LEMMA Parts ==
    ASSUME NEW x, Dated(x)
    PROVE  /\ Midnight(x) = YearStart(x.year) + MonthStart(x.year, x.month) + x.day - 1
           /\ YearStart(x.year) \in Int /\ MonthStart(x.year, x.month) \in 0..335
           /\ DaysIn(x.year, x.month) \in 28..31 /\ x.day \in 1..31
           /\ Midnight(x) \in Int
<1>1. YearStart(x.year) \in Int /\ DaysIn(x.year, x.month) \in 28..31
  BY DEF Dated, YearStart, DaysIn
<1>2. BeforeMonth[x.month] \in 0..334
  BY DEF Dated, BeforeMonth
<1>3. MonthStart(x.year, x.month) \in 0..335
  BY <1>2 DEF MonthStart, LeapDay
<1>4. Midnight(x) = YearStart(x.year) + MonthStart(x.year, x.month) + x.day - 1
  BY <1>2 DEF Midnight, YearStart, MonthStart, LeapDay, Dated
<1>5. QED
  BY <1>1, <1>3, <1>4 DEF Dated

\* Years follow each other without gap, and so do the months of a year.
LEMMA NextYear ==
    ASSUME NEW y \in Int
    PROVE  YearStart(y + 1) = YearStart(y) + 365 + LeapDay(y)
BY DEF YearStart, LeapDay, IsLeap

LEMMA LaterYear ==
    ASSUME NEW y \in Int, NEW z \in Int, y < z
    PROVE  YearStart(y) + 365 + LeapDay(y) <= YearStart(z)
<1>1. YearStart(y + 1) <= YearStart(z)
  BY DEF YearStart
<1>2. QED
  BY <1>1, NextYear

LEMMA NextMonth ==
    ASSUME NEW y \in Int, NEW m \in 1..12
    PROVE  MonthStart(y, m) + DaysIn(y, m)
               = IF m < 12 THEN MonthStart(y, m + 1) ELSE 365 + LeapDay(y)
<1>1. CASE m \in {1, 2, 3, 4}
  BY <1>1 DEF MonthStart, DaysIn, BeforeMonth, LeapDay
<1>2. CASE m \in {5, 6, 7, 8}
  BY <1>2 DEF MonthStart, DaysIn, BeforeMonth, LeapDay
<1>3. CASE m \in {9, 10, 11, 12}
  BY <1>3 DEF MonthStart, DaysIn, BeforeMonth, LeapDay
<1>4. QED
  BY <1>1, <1>2, <1>3

LEMMA LaterMonth ==
    ASSUME NEW y \in Int, NEW m \in 1..12, NEW n \in 1..12, m < n
    PROVE  MonthStart(y, m) + DaysIn(y, m) <= MonthStart(y, n)
BY NextMonth DEF MonthStart, LeapDay, BeforeMonth

\* A date is before another exactly if it is on the calendar.
LEMMA Earlier ==
    ASSUME NEW a, NEW b, Dated(a), Dated(b), NotAfter(a, b), ~NotAfter(b, a)
    PROVE  Midnight(a) < Midnight(b)
<1>0. /\ a.year \in Int /\ b.year \in Int /\ a.month \in 1..12 /\ b.month \in 1..12
      /\ a.day \in 1..DaysIn(a.year, a.month) /\ b.day \in 1..DaysIn(b.year, b.month)
  BY DEF Dated
<1>a. /\ Midnight(a) = YearStart(a.year) + MonthStart(a.year, a.month) + a.day - 1
      /\ YearStart(a.year) \in Int /\ MonthStart(a.year, a.month) \in Int
      /\ DaysIn(a.year, a.month) \in Int /\ DaysIn(a.year, a.month) <= 31
      /\ a.day \in Int /\ a.day <= DaysIn(a.year, a.month)
  BY <1>0, Parts
<1>b. /\ Midnight(b) = YearStart(b.year) + MonthStart(b.year, b.month) + b.day - 1
      /\ YearStart(b.year) \in Int /\ MonthStart(b.year, b.month) \in Int
      /\ MonthStart(b.year, b.month) >= 0 /\ b.day \in Int /\ b.day >= 1
  BY Parts
<1>1. CASE a.year < b.year
  <2>1. MonthStart(a.year, a.month) + DaysIn(a.year, a.month) <= 365 + LeapDay(a.year)
    <3>1. a.month < 12 => MonthStart(a.year, a.month) + DaysIn(a.year, a.month)
                             <= MonthStart(a.year, 12)
      BY <1>0, LaterMonth
    <3>2. MonthStart(a.year, 12) + DaysIn(a.year, 12) = 365 + LeapDay(a.year)
      BY <1>0, NextMonth
    <3>4. LeapDay(a.year) \in {0, 1}
      BY DEF LeapDay
    <3>5. CASE a.month = 12
      BY <3>2, <3>4, <3>5
    <3>6. CASE a.month < 12
      <4>1. MonthStart(a.year, 12) = 334 + LeapDay(a.year)
        BY <3>4 DEF MonthStart, BeforeMonth
      <4>2. QED
        BY <1>a, <3>1, <3>4, <3>6, <4>1
    <3>7. QED
      BY <1>0, <3>5, <3>6
  <2>2. YearStart(a.year) + 365 + LeapDay(a.year) <= YearStart(b.year)
    BY <1>0, <1>1, LaterYear
  <2>3. LeapDay(a.year) \in {0, 1}
    BY DEF LeapDay
  <2>4. QED
    BY <1>a, <1>b, <2>1, <2>2, <2>3
<1>2. CASE a.year = b.year /\ a.month < b.month
  <2>1. MonthStart(a.year, a.month) + DaysIn(a.year, a.month) <= MonthStart(b.year, b.month)
    BY <1>0, <1>2, LaterMonth
  <2>2. QED
    BY <1>2, <1>a, <1>b, <2>1
<1>3. CASE a.year = b.year /\ a.month = b.month /\ a.day < b.day
  BY <1>0, <1>3, <1>a, <1>b
<1>4. QED
  BY <1>0, <1>1, <1>2, <1>3, <1>a, <1>b DEF NotAfter

LEMMA SameDay ==
    ASSUME NEW a, NEW b, Dated(a), Dated(b), NotAfter(a, b), NotAfter(b, a)
    PROVE  Midnight(a) = Midnight(b)
<1>1. a.year = b.year /\ a.month = b.month /\ a.day = b.day
  BY Parts DEF NotAfter, Dated
<1>2. QED
  BY <1>1, Parts

LEMMA CalendarOrder ==
    ASSUME NEW a, NEW b, Dated(a), Dated(b)
    PROVE  Midnight(a) <= Midnight(b) <=> NotAfter(a, b)
<1>1. NotAfter(a, b) \/ NotAfter(b, a)
  BY Parts DEF NotAfter, Dated
<1>2. Midnight(a) \in Int /\ Midnight(b) \in Int
  BY Parts
<1>3. CASE NotAfter(a, b) /\ NotAfter(b, a)
  BY <1>2, <1>3, SameDay
<1>4. CASE NotAfter(a, b) /\ ~NotAfter(b, a)
  BY <1>2, <1>4, Earlier
<1>5. CASE ~NotAfter(a, b) /\ NotAfter(b, a)
  BY <1>2, <1>5, Earlier
<1>6. QED
  BY <1>1, <1>3, <1>4, <1>5

\* The day after a date, over the ends of months and years.
LEMMA NextDay ==
    ASSUME NEW x, Dated(x)
    PROVE  /\ Dated(AddDays(x, 1)) /\ Midnight(AddDays(x, 1)) = Midnight(x) + 1
           /\ AddDays(x, 1).year \in {x.year, x.year + 1}
<1> DEFINE y == x.year  m == x.month
<1>0. y \in Int /\ m \in 1..12 /\ x.day \in 1..DaysIn(y, m) /\ DaysIn(y, m) \in 28..31
  BY Parts DEF Dated
<1>a. /\ Midnight(x) = YearStart(y) + MonthStart(y, m) + x.day - 1
      /\ YearStart(y) \in Int /\ MonthStart(y, m) \in 0..335
  BY Parts
<1> DEFINE z == AddDays(x, 1)
<1>b. Dated(z) => /\ Midnight(z) = YearStart(z.year) + MonthStart(z.year, z.month) + z.day - 1
                  /\ YearStart(z.year) \in Int /\ MonthStart(z.year, z.month) \in 0..335
  <2> HIDE DEF z
  <2>1. QED
    BY Parts
<1>1. CASE x.day < DaysIn(y, m)
  <2>1. AddDays(x, 1) = [year |-> y, month |-> m, day |-> x.day + 1]
    BY <1>0, <1>1 DEF AddDays, NewDate
  <2>2. Dated(AddDays(x, 1))
    BY <1>0, <1>1, <2>1 DEF Dated
  <2>3. Midnight(z) = Midnight(x) + 1
    BY <1>0, <1>a, <1>b, <2>1, <2>2
  <2>4. QED
    BY <1>0, <2>1, <2>2, <2>3
<1>2. CASE x.day = DaysIn(y, m) /\ m < 12
  <2>1. AddDays(x, 1) = [year |-> y, month |-> m + 1, day |-> 1]
    BY <1>0, <1>2 DEF AddDays, NewDate
  <2>2. Dated(AddDays(x, 1))
    BY <1>0, <1>2, <2>1 DEF Dated, DaysIn
  <2>3. MonthStart(y, m) + DaysIn(y, m) = MonthStart(y, m + 1)
    BY <1>0, <1>2, NextMonth
  <2>4. QED
    BY <1>0, <1>2, <1>a, <1>b, <2>1, <2>2, <2>3
<1>3. CASE x.day = DaysIn(y, m) /\ m = 12
  <2>1. AddDays(x, 1) = [year |-> y + 1, month |-> 1, day |-> 1]
    BY <1>0, <1>3 DEF AddDays, NewDate
  <2>2. Dated(AddDays(x, 1))
    BY <1>0, <2>1 DEF Dated, DaysIn
  <2>3. MonthStart(y, 12) + DaysIn(y, 12) = 365 + LeapDay(y)
    BY <1>0, NextMonth
  <2>4. YearStart(y + 1) = YearStart(y) + 365 + LeapDay(y) /\ MonthStart(y + 1, 1) = 0
    BY <1>0, NextYear DEF MonthStart, BeforeMonth
  <2>5. LeapDay(y) \in {0, 1}
    BY DEF LeapDay
  <2>6. QED
    BY <1>0, <1>3, <1>a, <1>b, <2>1, <2>2, <2>3, <2>4, <2>5
<1>4. QED
  BY <1>0, <1>1, <1>2, <1>3

USE NoRequestAssumption, DateAssumption, MaxDaysAssumption

\* Three years back, 29 February becomes 1 March.
LEMMA ThreeYearsBack ==
    ASSUME NEW a \in WindowDate \union {Zero}, NEW b \in WindowDate \union {Zero}
    PROVE  /\ Dated(a) /\ Dated(b) /\ Dated(lowerBound(b))
           /\ NotAfter(lowerBound(b), a)
                 <=> NotAfter(b, [a EXCEPT !.year = @ + maxDateRangeYears])
<1>1. /\ a \in [year : Nat, month : 1..12, day : 1..31] /\ Dated(a)
      /\ b \in [year : Nat, month : 1..12, day : 1..31] /\ Dated(b)
  BY DEF Zero, Dated, IsDate, DaysIn
<1> DEFINE y == b.year - 3  c == [a EXCEPT !.year = @ + maxDateRangeYears]
<1>2. y \in Int /\ c.year = a.year + 3 /\ c.month = a.month /\ c.day = a.day
  BY <1>1 DEF maxDateRangeYears
<1>3. lowerBound(b) = NewDate(y, b.month, b.day)
  BY <1>1 DEF lowerBound, AddYears, maxDateRangeYears
<1>4. CASE b.day <= DaysIn(y, b.month)
  <2>1. lowerBound(b) = [year |-> y, month |-> b.month, day |-> b.day]
    BY <1>3, <1>4 DEF NewDate
  <2>2. Dated(lowerBound(b))
    BY <1>1, <1>2, <1>4, <2>1 DEF Dated
  <2>3. QED
    BY <1>1, <1>2, <2>1, <2>2 DEF NotAfter
<1>5. CASE ~(b.day <= DaysIn(y, b.month))
  <2>1. b.month = 2 /\ b.day = 29 /\ DaysIn(y, 2) = 28
    BY <1>1, <1>2, <1>5 DEF Dated, DaysIn
  <2>2. lowerBound(b) = [year |-> y, month |-> 3, day |-> 1]
    BY <1>3, <1>5, <2>1 DEF NewDate
  <2>3. Dated(lowerBound(b))
    BY <1>2, <2>2 DEF Dated, DaysIn
  <2>4. a.year = y /\ a.month = 2 => a.day <= 28
    BY <1>1, <2>1 DEF Dated
  <2>5. QED
    BY <1>1, <1>2, <2>1, <2>2, <2>3, <2>4 DEF NotAfter
<1>6. QED
  BY <1>4, <1>5

-----------------------------------------------------------------------------
(* The endpoints and the range.                                            *)

\* What has been found out where the call and its caller stand.
Checked ==
    /\ pc \in {"start", "flight", "decoded"} => result = "none"
    /\ pc \in {"start", "flight", "decoded", "caller"} => yielded = 0
    /\ pc = "flight" => req \in Request /\ Verdict(req) = "none"
    /\ result \in {"tooLarge", "invalidRange"} => /\ pc = "end" /\ req \in Request
                                                  /\ Verdict(req) = result
    /\ pc = "caller" => \A i \in 1..Len(answer) : WellFormed(answer[i])
    /\ pc \in {"range", "ranged", "broken"} /\ result = "holidays" => WellFormed(h)

HInv == TypeOK /\ Checked /\ RangeIsEveryDay

LEMMA HolidayDated ==
    ASSUME NEW x \in Holiday
    PROVE  /\ IsDate(x.start) /\ IsDate(x.end) /\ Dated(x.start) /\ Dated(x.end)
           /\ Midnight(x.start) \in Int /\ Midnight(x.end) \in Int
<1>1. x.start \in HolidayDate /\ x.end \in HolidayDate
  BY DEF Holiday
<1>2. IsDate(x.start) /\ IsDate(x.end)
  BY <1>1
<1>3. Dated(x.start) /\ Dated(x.end)
  BY <1>2 DEF IsDate, Dated
<1>4. QED
  BY <1>2, <1>3, Parts

LEMMA HInit == Init => HInv
<1> SUFFICES ASSUME Init PROVE HInv
  OBVIOUS
<1>1. (CHOOSE x \in HolidayDate : TRUE) \in HolidayDate
  OBVIOUS
<1>2. IsDate(Zero)
  BY DEF IsDate, Zero, DaysIn
<1>3. <<>> \in Answer
  <2>1. <<>> \in [1..0 -> Holiday]
    OBVIOUS
  <2>2. QED
    BY <2>1 DEF Answer
<1>4. QED
  BY <1>1, <1>2, <1>3
  DEF Init, HInv, TypeOK, Checked, RangeIsEveryDay, Holiday, Result

\* The endpoints do not touch the range.
LEMMA EndpointStep ==
    ASSUME HInv, Reject \/ Dispatch \/ Fail \/ Deliver \/ DeliverList \/ validateHolidays
    PROVE  HInv'
<1> USE DEF HInv
<1>1. /\ UNCHANGED rangeVars
      /\ pc' \in {"flight", "end", "decoded", "caller"}
  BY DEF Reject, Dispatch, Fail, Deliver, DeliverList, validateHolidays
<1>2. \A r \in Request : Verdict(r) \in Result
  BY DEF Verdict, HolidayVerdict, ListVerdict, validateDateRange, validateLanguage, Result
<1>3. TypeOK'
  <2>1. pc' \in {"flight", "end", "decoded", "caller"} /\ UNCHANGED <<h, d, yielded>>
    BY <1>1 DEF rangeVars
  <2>2. req' \in Request \union {NoRequest} /\ answer' \in Answer
    BY DEF TypeOK, Reject, Dispatch, Fail, Deliver, DeliverList, validateHolidays
  <2>3. result' \in Result
    BY <1>2 DEF TypeOK, Reject, Dispatch, Fail, Deliver, DeliverList, validateHolidays, Result
  <2>4. QED
    BY <2>1, <2>2, <2>3 DEF TypeOK
<1>4. RangeIsEveryDay'
  BY <1>1 DEF RangeIsEveryDay
<1>5. Checked'
  <2> USE DEF Checked, rangeVars
  <2>1. CASE Reject
    BY <2>1 DEF Reject
  <2>2. CASE Dispatch
    BY <2>2 DEF Dispatch
  <2>3. CASE Fail
    BY <2>3 DEF Fail
  <2>4. CASE Deliver
    BY <2>4 DEF Deliver
  <2>5. CASE DeliverList
    BY <2>5 DEF DeliverList
  <2>6. CASE validateHolidays
    BY <2>6 DEF validateHolidays, WellFormed
  <2>7. QED
    BY <2>1, <2>2, <2>3, <2>4, <2>5, <2>6
<1>6. QED
  BY <1>3, <1>4, <1>5

\* A range starts on the first day, or not at all.
LEMMA StartStep ==
    ASSUME HInv, NEW x \in Holiday, RangeFrom(x), yielded = 0,
           pc \in {"start", "caller"}, pc = "caller" => WellFormed(x)
    PROVE  HInv'
<1> USE DEF HInv
<1>1. IsDate(x.start) /\ Midnight(x.start) \in Int /\ Midnight(x.end) \in Int
  BY HolidayDated
<1>2. h' = x /\ UNCHANGED <<req, answer, result>>
  BY DEF RangeFrom
<1>3. CASE Before(x.end, x.start)
  <2>1. pc' = "ranged" /\ d' = d /\ yielded' = 0 /\ Span(x) <= 0
    BY <1>1, <1>3 DEF RangeFrom, Before, Span
  <2>2. ~WellFormed(x) /\ pc = "start" /\ result' = "none"
    BY <1>2, <1>3 DEF WellFormed, Checked
  <2>3. Span(h)' = Span(x)
    BY <1>2 DEF Span
  <2>4. RangeIsEveryDay'
    BY <1>1, <2>1, <2>3 DEF RangeIsEveryDay, Span
  <2>5. QED
    BY <1>2, <2>1, <2>2, <2>4 DEF TypeOK, Checked
<1>4. CASE ~Before(x.end, x.start)
  <2>1. pc' = "range" /\ d' = x.start /\ yielded' = 1 /\ Span(x) \in Int /\ Span(x) >= 1
    BY <1>1, <1>4 DEF RangeFrom, Before, Span
  <2>2. TypeOK'
    BY <1>1, <1>2, <2>1 DEF TypeOK
  <2>3. Checked'
    BY <1>2, <2>1 DEF Checked
  <2>4. Span(h)' = Span(x) /\ Midnight(d)' = Midnight(x.start) /\ Midnight(h.start)' = Midnight(x.start)
    BY <1>2, <2>1 DEF Span
  <2>5. RangeIsEveryDay'
    BY <1>1, <2>1, <2>4 DEF RangeIsEveryDay
  <2>6. QED
    BY <2>2, <2>3, <2>5
<1>5. QED
  BY <1>3, <1>4

\* The range goes on to the next day until it has reached the last.
LEMMA RangeStep ==
    ASSUME HInv, RangeNext \/ RangeLast \/ RangeBreak
    PROVE  HInv'
<1> USE DEF HInv
<1>1. /\ pc = "range" /\ UNCHANGED <<req, answer, result, h>>
      /\ h \in Holiday /\ IsDate(d) /\ Dated(d) /\ d.year \in Nat
      /\ yielded \in Nat
  BY DEF RangeNext, RangeLast, RangeBreak, rangeVars, TypeOK, IsDate, Dated
<1>2. Midnight(d) \in Int /\ Midnight(h.start) \in Int /\ Midnight(h.end) \in Int
  BY <1>1, HolidayDated, Parts
<1>3. /\ Span(h) = Midnight(h.end) - Midnight(h.start) + 1
      /\ Midnight(d) = Midnight(h.start) + yielded - 1
      /\ yielded >= 1 /\ yielded <= Span(h)
  BY <1>1, <1>2 DEF Span, RangeIsEveryDay
<1>4. Span(h)' = Span(h) /\ Midnight(h.start)' = Midnight(h.start)
  BY <1>1 DEF Span
<1>5. CASE RangeNext
  <2>1. pc' = "range" /\ d' = AddDays(d, 1) /\ yielded' = yielded + 1
        /\ Midnight(d) < Midnight(h.end)
    BY <1>5, <1>1 DEF RangeNext, MoreDays, Before
  <2>2. Dated(d') /\ d'.year \in Nat /\ Midnight(d)' = Midnight(d) + 1
    BY <1>1, <2>1, NextDay
  <2>3. IsDate(d')
    BY <2>2 DEF Dated, IsDate
  <2>4. RangeIsEveryDay'
    BY <1>1, <1>2, <1>3, <1>4, <2>1, <2>2 DEF RangeIsEveryDay
  <2>5. QED
    BY <1>1, <2>1, <2>3, <2>4 DEF TypeOK, Checked
<1>6. CASE RangeLast
  <2>1. pc' = "ranged" /\ UNCHANGED <<d, yielded>> /\ ~(Midnight(d) < Midnight(h.end))
    BY <1>6 DEF RangeLast, rangeVars, MoreDays, Before
  <2>2. yielded = Span(h) /\ Span(h) > 0
    BY <1>1, <1>2, <1>3, <2>1
  <2>3. RangeIsEveryDay'
    BY <1>4, <2>1, <2>2 DEF RangeIsEveryDay
  <2>4. QED
    BY <1>1, <2>1, <2>3 DEF TypeOK, Checked
<1>7. CASE RangeBreak
  <2>1. pc' = "broken" /\ UNCHANGED <<d, yielded>>
    BY <1>7 DEF RangeBreak, rangeVars
  <2>2. QED
    BY <1>1, <1>4, <2>1 DEF TypeOK, Checked, RangeIsEveryDay
<1>8. QED
  BY <1>5, <1>6, <1>7

LEMMA HNext == HInv /\ [Next]_vars => HInv'
<1> SUFFICES ASSUME HInv, [Next]_vars PROVE HInv'
  OBVIOUS
<1>1. CASE RangeReturned
  <2>1. PICK i \in 1..Len(answer) : RangeFrom(answer[i])
    BY <1>1 DEF RangeReturned
  <2>2. answer[i] \in Holiday
    BY DEF HInv, TypeOK, Answer
  <2>3. pc = "caller" /\ yielded = 0 /\ WellFormed(answer[i])
    BY <1>1 DEF RangeReturned, HInv, Checked
  <2>4. QED
    BY <2>1, <2>2, <2>3, StartStep
<1>2. CASE RangeHandBuilt
  <2>1. PICK x \in Holiday : RangeFrom(x)
    BY <1>2 DEF RangeHandBuilt
  <2>2. pc = "start" /\ yielded = 0
    BY <1>2 DEF RangeHandBuilt, HInv, Checked
  <2>3. QED
    BY <2>1, <2>2, StartStep
<1>3. CASE UNCHANGED vars
  BY <1>3 DEF vars, HInv, TypeOK, Checked, RangeIsEveryDay, Span
<1>4. QED
  BY <1>1, <1>2, <1>3, EndpointStep, RangeStep DEF Next

-----------------------------------------------------------------------------

\* The invariant: what has been checked of the request and of the answer, and
\* how far the range has come (validate.go:82-116, holiday.go:99-152).
THEOREM QueryInvariance == Spec => []HInv
<1>1. QED
  BY HInit, HNext, PTL DEF Spec

\* Types; in particular Range never leaves the calendar (date.go, holiday.go:140-150).
THEOREM TypeCorrect == Spec => []TypeOK
<1>1. HInv => TypeOK
  BY DEF HInv
<1>2. QED
  BY <1>1, QueryInvariance, PTL

\* For all dates: exactly the windows of at most three calendar years are
\* dispatched, and each of the two errors says what is wrong
\* (validate.go:82-98, 113-116).
THEOREM WindowCorrect == Spec => []WindowIsThreeYears
<1>1. ASSUME HInv
      PROVE  WindowIsThreeYears
  <2> DEFINE a == req.from  b == req.to
  <2>1. req \in Request /\ req \notin HolidayRequest =>
            a = Zero /\ b = Zero /\ Verdict(req) \notin {"tooLarge", "invalidRange"}
    BY DEF Request, HolidayRequest, ListRequest, Verdict, ListVerdict, validateLanguage
  <2>2. ASSUME req \in HolidayRequest
        PROVE  /\ Verdict(req) = "none" => validateDateRange(a, b) = "none"
               /\ Verdict(req) \in {"tooLarge", "invalidRange"} =>
                      validateDateRange(a, b) = Verdict(req)
    BY <2>2 DEF HolidayRequest, Verdict, HolidayVerdict, validateLanguage
  <2>3. ASSUME req \in Request
        PROVE  /\ Midnight(a) \in Int /\ Midnight(b) \in Int /\ Midnight(lowerBound(b)) \in Int
               /\ Midnight(a) <= Midnight(b) <=> NotAfter(a, b)
               /\ Midnight(lowerBound(b)) <= Midnight(a) <=> WithinThreeYears
    <3>1. a \in WindowDate \union {Zero} /\ b \in WindowDate \union {Zero}
      BY <2>1, <2>3 DEF HolidayRequest
    <3>2. /\ Dated(a) /\ Dated(b) /\ Dated(lowerBound(b))
          /\ NotAfter(lowerBound(b), a) <=> WithinThreeYears
      BY <3>1, ThreeYearsBack DEF WithinThreeYears
    <3>3. QED
      BY <3>2, CalendarOrder, Parts
  <2>4. ASSUME req \in Request
        PROVE  /\ validateDateRange(a, b) = "none" => NotAfter(a, b) /\ WithinThreeYears
               /\ validateDateRange(a, b) = "tooLarge" => NotAfter(a, b) /\ ~WithinThreeYears
               /\ validateDateRange(a, b) = "invalidRange" => ~NotAfter(a, b)
    BY <2>3, <2>4 DEF validateDateRange, After, Before
  <2>5. NotAfter(Zero, Zero)
    BY DEF NotAfter, Zero
  <2>6. a = Zero /\ b = Zero => WithinThreeYears
    BY DEF WithinThreeYears, NotAfter, Zero, maxDateRangeYears
  <2>7. QED
    BY <2>1, <2>2, <2>4, <2>5, <2>6, <1>1 DEF HInv, Checked, WindowIsThreeYears
<1>2. QED
  BY <1>1, QueryInvariance, PTL

\* For all holidays: Range yields every day once, in order and over the ends of
\* months and years, and stops on the last (holiday.go:140-150).
THEOREM RangeCorrect == Spec => []RangeIsEveryDay
<1>1. HInv => RangeIsEveryDay
  BY DEF HInv
<1>2. QED
  BY <1>1, QueryInvariance, PTL

\* For all holidays: Days counts what Range yields, up to what a Duration holds,
\* and an endpoint returns none that has no day or lacks a date (date.go:181,
\* holiday.go:99-104, 135-152).
THEOREM DaysCorrect == Spec => []RangeAgreesWithDays
<1>1. ASSUME HInv, pc = "ranged"
      PROVE  /\ Days(h) = IF yielded <= MaxDays + 1 THEN yielded ELSE MaxDays + 1
             /\ result = "holidays" => yielded >= 1 /\ ~IsZero(h.start) /\ ~IsZero(h.end)
  <2>1. Midnight(h.start) \in Int /\ Midnight(h.end) \in Int
    BY <1>1, HolidayDated DEF HInv, TypeOK
  <2>2. Span(h) = Midnight(h.end) - Midnight(h.start) + 1
        /\ yielded = IF Span(h) > 0 THEN Span(h) ELSE 0
    BY <1>1 DEF Span, HInv, RangeIsEveryDay
  <2>3. Days(h) = IF yielded <= MaxDays + 1 THEN yielded ELSE MaxDays + 1
    BY <1>1, <2>1, <2>2 DEF Days, Before, DaysUntil, Sub
  <2>4. result = "holidays" => WellFormed(h)
    BY <1>1 DEF HInv, Checked
  <2>5. WellFormed(h) => Span(h) >= 1 /\ ~IsZero(h.start) /\ ~IsZero(h.end)
    BY <2>1, <2>2 DEF WellFormed, Before
  <2>6. QED
    BY <2>1, <2>2, <2>3, <2>4, <2>5
<1>2. HInv => RangeAgreesWithDays
  BY <1>1 DEF RangeAgreesWithDays
<1>3. QED
  BY <1>2, QueryInvariance, PTL
-----------------------------------------------------------------------------
(* The end of a call, and of a range.                                      *)

\* How far a caller at p is from the end.
PhasesLeft(p) ==
    CASE p = "start"   -> 5
      [] p = "flight"  -> 4
      [] p = "decoded" -> 3
      [] p = "caller"  -> 2
      [] p = "range"   -> 1
      [] p \in {"ranged", "broken", "end"} -> 0

\* The days of the holiday at hand that Range has not yielded, and one step of it.
DaysLeft == Span(h) - yielded
OneDayLess == pc = "range" /\ pc' = "range" /\ DaysLeft' = DaysLeft - 1 /\ DaysLeft' \in Nat

\* Every step of a call moves it on to a later phase, except that Range stays
\* where it is to yield one more of the days left: no holiday, whatever its dates
\* and however its months end, keeps the loop running for ever (holiday.go:143).
THEOREM RangesEnd ==
    Spec => [][PhasesLeft(pc') < PhasesLeft(pc) \/ OneDayLess]_vars
<1>1. ASSUME HInv, HInv', Next PROVE PhasesLeft(pc') < PhasesLeft(pc) \/ OneDayLess
  <2>1. CASE Reject \/ Dispatch \/ Fail \/ Deliver \/ DeliverList \/ validateHolidays
    BY <2>1 DEF Reject, Dispatch, Fail, Deliver, DeliverList, validateHolidays, PhasesLeft
  <2>2. CASE RangeReturned \/ RangeHandBuilt
    BY <2>2 DEF RangeReturned, RangeHandBuilt, RangeFrom, PhasesLeft
  <2>3. CASE RangeLast \/ RangeBreak
    BY <2>3 DEF RangeLast, RangeBreak, PhasesLeft
  <2>4. CASE RangeNext
    <3>1. pc = "range" /\ pc' = "range" /\ h' = h /\ yielded' = yielded + 1
      BY <2>4 DEF RangeNext
    <3>2. Span(h) \in Int /\ yielded \in Nat /\ Span(h') = Span(h)
      BY <1>1, <3>1, HolidayDated DEF HInv, TypeOK, Span
    <3>3. yielded' <= Span(h')
      BY <1>1, <3>1, <3>2 DEF HInv, RangeIsEveryDay
    <3>4. DaysLeft' = Span(h') - yielded'
      BY DEF DaysLeft, Span
    <3>5. QED
      BY <3>1, <3>2, <3>3, <3>4 DEF OneDayLess, DaysLeft
  <2>5. QED
    BY <1>1, <2>1, <2>2, <2>3, <2>4 DEF Next
<1>2. HInv /\ HInv' /\ [Next]_vars => [PhasesLeft(pc') < PhasesLeft(pc) \/ OneDayLess]_vars
  BY <1>1
<1>3. QED
  BY <1>2, QueryInvariance, PTL DEF Spec
=============================================================================
