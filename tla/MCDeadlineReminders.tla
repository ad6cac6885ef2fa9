------------------------ MODULE MCDeadlineReminders ------------------------
(* Small instances of DeadlineReminders: an inspector and an owner, one    *)
(* item that nobody answers, deadlines up to the end of time.              *)
EXTENDS DeadlineReminders

CONSTANTS inspector, owner, item1

MCUsers == {inspector, owner}
MCOwners == {owner}
OneItem == {item1}
Deadlines == 0..MaxTime
=============================================================================
