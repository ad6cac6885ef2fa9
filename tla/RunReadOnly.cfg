SPECIFICATION Spec
CONSTANTS
    inspector = inspector
    assistant = assistant
    owner = owner
    item1 = item1
    item2 = item2
    Null = Null
    Users <- MCUsers
    Owners <- MCOwners
    Items <- OneItem
    GradableItems <- OneItem
    AnswerValues <- YesNo
    DueTimes <- NoDeadlines
    MaxTime = 1
    Delay = 0
    Requests = {r1, r2}
PROPERTIES
    ReadOnlyWhenCompleted
\* The clock stops at MaxTime and a deleted run is the end of it.
CHECK_DEADLOCK FALSE
