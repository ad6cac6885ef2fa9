SPECIFICATION MCSpec
CONSTANTS
    tab1 = tab1
    inspector = inspector
    owner = owner
    Tabs = {tab1}
    Calls = {}
    Tab <- NoTab
    Sessions = {s1, s2, s3}
    Arrivals = {r1, r2}
    NoSession = NoSession
    Nobody = Nobody
    Users = {inspector, owner}
    Owners = {owner}
    Items = {item1}
    GradableItems = {item1}
    AnswerValues = {"compliant", "non_compliant"}
    DueTimes = {0}
    MaxTime = 1
    Delay = 0
    Requests = {r1, r2}
    Null = Null
SYMMETRY Alike
INVARIANTS
    CookieIsGood
    CompletedHasVerdict
    ReopenedIsMarked
    MarkedOnlyAfterReopening
PROPERTIES
    SessionsEndForGood
    ImplementsLifecycle
\* The clock stops at MaxTime, a deleted run is the end of it, and every step
\* of the browser may be the last one that its user takes.
CHECK_DEADLOCK FALSE
