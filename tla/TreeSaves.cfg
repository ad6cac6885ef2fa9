SPECIFICATION ClSpec
CONSTANTS
    Editors = {owner}
    Admins = {}
    Trees = {tree1, tree2}
    Visits = {r1, r2}
    MaxRuns = 0
INVARIANTS
    OneTree
\* Every request may be the last one.
CHECK_DEADLOCK FALSE
