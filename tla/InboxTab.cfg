SPECIFICATION FairCSpec
CONSTANTS
    Notes = {n1}
    Calls = {c1, c2}
    RedisMayFail = TRUE
INVARIANTS
    CTypeOK
    RepliesAreFresh
    CounterFloor
    CounterNotAhead
PROPERTIES
    ScreenConverges
\* When every notification has been deleted nothing need happen any more.
CHECK_DEADLOCK FALSE
