SPECIFICATION Spec
CONSTANTS
    inspector = inspector
    assistant = assistant
    owner = owner
    item1 = item1
    item2 = item2
    Null = Null
    Users <- Team
    Owners <- MCOwners
    Items <- TwoItems
    GradableItems <- OneItem
    AnswerValues <- YesNo
    DueTimes <- Deadlines
    MaxTime = 3
    Delay = 1
    Requests = {r1}
INVARIANTS
    TypeOK
    ResultMatchesAnswers
    CompletedInTime
PROPERTIES
    CorrectionsAreSigned
    CompletionIsAnnounced
\* The clock stops at MaxTime and a deleted run is the end of it.
CHECK_DEADLOCK FALSE
