\* Three connections through a buffer of two, two resends per packet; the
\* first connection's Data at every verbose level.
CONSTANTS
    Count = 3
    Buffer = 2
    MaxRetries = 2

SPECIFICATION ExamplesSpec

\* The main future ends: nothing is left to do.
CHECK_DEADLOCK FALSE

INVARIANT TypeOK
INVARIANT LoggedAsRequested
 
