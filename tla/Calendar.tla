------------------------------ MODULE Calendar ------------------------------
(***************************************************************************)
(* Date (date.go) as a calendar day, and what the library asks of Go's     *)
(* time package: UTC-midnight instants, AddDate with its normalisation,    *)
(* and Sub with its saturation.  The day an instant falls on is counted    *)
(* from 0001-01-01, the zero Date.                                         *)
(***************************************************************************)
EXTENDS Integers

CONSTANT MaxDays    \* whole days that fit a time.Duration; 106751 in Go

ASSUME MaxDaysAssumption == MaxDays \in Nat \ {0}

Zero == [year |-> 1, month |-> 1, day |-> 1]

-----------------------------------------------------------------------------
(* External: the proleptic Gregorian calendar of package time.             *)

IsLeap(y) == y % 4 = 0 /\ (y % 100 = 0 => y % 400 = 0)
DaysIn(y, m) == CASE m = 2 -> IF IsLeap(y) THEN 29 ELSE 28
                  [] m \in {4, 6, 9, 11} -> 30
                  [] OTHER -> 31

IsDate(d) == d.year \in Nat /\ d.month \in 1..12 /\ d.day \in 1..DaysIn(d.year, d.month)

\* Days of a common year before each month.
BeforeMonth == <<0, 31, 59, 90, 120, 151, 181, 212, 243, 273, 304, 334>>

\* The UTC midnight of a date (toUTCMidnight), in days.
Midnight(d) ==
    LET y == d.year - 1
    IN  365 * y + y \div 4 - y \div 100 + y \div 400
        + BeforeMonth[d.month] + (IF d.month > 2 /\ IsLeap(d.year) THEN 1 ELSE 0)
        + d.day - 1

\* time.Date on a day that the month may not have: it runs on into the next.
\* (Days beyond the next month do not occur here.)
NewDate_NoCarry(y, m, d) == [year |-> y, month |-> m, day |-> d]
NewDate(y, m, d) ==
    IF d <= DaysIn(y, m) THEN [year |-> y, month |-> m, day |-> d]
    ELSE IF m < 12 THEN [year |-> y, month |-> m + 1, day |-> d - DaysIn(y, m)]
    ELSE [year |-> y + 1, month |-> 1, day |-> d - DaysIn(y, m)]

AddYears(d, n) == NewDate(d.year + n, d.month, d.day)
AddDays(d, n)  == NewDate(d.year, d.month, d.day + n)

\* time.Time.Sub, in days, saturates where a Duration ends.
Sub(a, b) ==
    CASE Midnight(a) - Midnight(b) > MaxDays  -> MaxDays
      [] Midnight(a) - Midnight(b) < -MaxDays -> -MaxDays
      [] OTHER -> Midnight(a) - Midnight(b)

-----------------------------------------------------------------------------
(* date.go                                                                 *)

Before(a, b) == Midnight(a) < Midnight(b)
After(a, b)  == Midnight(a) > Midnight(b)
IsZero(d)    == d = Zero
DaysUntil(a, b) == Sub(b, a)
=============================================================================
