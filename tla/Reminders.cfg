SPECIFICATION FairRSpec
CONSTANTS
    inspector = inspector
    owner = owner
    item1 = item1
    Null = Null
    Users <- MCUsers
    Owners <- MCOwners
    Items <- OneItem
    GradableItems <- OneItem
    AnswerValues = {}
    DueTimes <- Deadlines
    MaxTime = 2
    Delay = 1
    Requests = {r1}
    Scanners = {loop1, loop2}
    Threshold = 1
INVARIANTS
    RemindedIsMarked
    OneReminderPerLoop
PROPERTIES
    DueSoonIsReminded
\* The clock stops at MaxTime and a deleted run is the end of it.
CHECK_DEADLOCK FALSE
