--------------------------- MODULE MCHolidayQuery ---------------------------
(* Model checking of HolidayQuery: dates around leap days, month ends and   *)
(* centuries.                                                               *)
EXTENDS HolidayQuery

Dated(y, m, x) == [year |-> y, month |-> m, day |-> x]
Real(S) == {x \in S : IsDate(x)}

\* Every way a window can touch 29 February, and the missing (zero) date.
WindowDates ==
    Real({Dated(y, m, x) : y \in {2023, 2024, 2025, 2027, 2028, 2097, 2100},
                           m \in {2, 3}, x \in {1, 27, 28, 29}}
         \union {Dated(y, 12, 31) : y \in {2023, 2024}}) \union {Zero}

\* Around a leap day, a year's end and a century that has no leap day, and the
\* date of a holiday that has none.  The calendar repeats every 400 years: the
\* years 96 and 100 stand for 2096 and 2100, and keep the range from the zero
\* date within reach.  From 96-12-31 it is 1154 days to 100-02-28 and 1155 to
\* 100-03-01: MaxDays lies between the two, so that some spans saturate.
HolidayDates == {Zero, Dated(96, 2, 28), Dated(96, 2, 29), Dated(96, 12, 31),
                 Dated(100, 2, 28), Dated(100, 3, 1)}
=============================================================================
