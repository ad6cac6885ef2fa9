SPECIFICATION ESpec
CONSTANTS
    Forms = {f1, f2, f3}
    Inns = {i1, i2}
    Emails = {e1, e2}
    Learners = {u1, u2}
    Percents = {0, 30, 100}
    Batches = {r1, r2}
INVARIANTS
    RegistrationsFit
    BatchesAreWhole
PROPERTIES
    FormsEnd
    CompletedIsComplete
    ImplementsRoster
    BatchesEnd
\* Nobody has to ask for anything.
CHECK_DEADLOCK FALSE
