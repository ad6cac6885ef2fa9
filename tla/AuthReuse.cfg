SPECIFICATION ACSpec
CONSTANTS
    tab1 = tab1
    Tabs = {tab1}
    Calls = {}
    Tab <- MCTab
    Sessions = {s1, s2, s3}
    Arrivals = {r1, r2}
    NoSession = NoSession
    Nobody = Nobody
SYMMETRY AlikeRequests
PROPERTIES
    OneSuccessor
\* Every step may be the last one that its user takes.
CHECK_DEADLOCK FALSE
