------------------------------- MODULE MC_Book -------------------------------
(* Model values for Book.                                                  *)
EXTENDS Book

\* i32 edges of the max clients range check: below, inside, above
MCInts == {-1, 1, 65536}
\* an in range value only
MCIntsInRange == {1}
\* absent or set
MCFlagsSet == {None, Some(TRUE)}
\* absent, set or cleared
MCFlagsAll == {None, Some(TRUE), Some(FALSE)}
MCFlagsNone == {None}
\* epoch and one later talk power request time
MCTimes == {0, 1}
=============================================================================
