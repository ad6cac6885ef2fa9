SPECIFICATION FairACSpec
CONSTANTS
    tab1 = tab1
    Tabs = {tab1}
    Calls = {c1, c2}
    Tab <- MCTab
    Sessions = {s1, s2, s3}
    Arrivals = {r1}
    NoSession = NoSession
    Nobody = Nobody
INVARIANTS
    QueueIsServed
PROPERTIES
    CallsEnd
\* Every step may be the last one that its user takes.
CHECK_DEADLOCK FALSE
