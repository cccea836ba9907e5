--------------------------- MODULE MCRetryPolicy ---------------------------
(* RetryPolicy in six-bit arithmetic: a Duration is at most 31, a second is  *)
(* 10, so that four seconds overflow and a small base delay is shifted out.  *)
EXTENDS RetryPolicy

\* Not positive, one, an odd value whose bits wrap back, and the longest.
Args == {-1, 0, 1, 3, 5, 31}
\* Disabled twice over, once only, and past every shift.
AttemptArgs == {-1, 0, 1, 8}
=============================================================================
