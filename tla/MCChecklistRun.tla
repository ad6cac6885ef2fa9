--------------------------- MODULE MCChecklistRun ---------------------------
(* Small instances of ChecklistRun: an inspector, an owner, and where it   *)
(* matters who is told a second inspector.                                 *)
EXTENDS ChecklistRun

CONSTANTS inspector, assistant, owner, item1, item2

MCUsers == {inspector, owner}
Team == {inspector, assistant, owner}
MCOwners == {owner}
OneItem == {item1}
TwoItems == {item1, item2}

(* The values that tell the results apart.                                 *)
YesNo == {"compliant", "non_compliant"}

NoDeadlines == {NoTime}
Deadlines == {NoTime, 1}
=============================================================================
