---------------------------- MODULE RunLifecycle ----------------------------
(***************************************************************************)
(* What the checks submodule promises about one checklist run, whoever     *)
(* works on it and however their requests interleave:                      *)
(*                                                                         *)
(*   - a run is started, completed, reopened for corrections, completed    *)
(*     again, and finally deleted, and no step skips a stage;              *)
(*   - completing a run gives it a verdict, which reopening never takes    *)
(*     away;                                                               *)
(*   - reopening marks the run as corrected, for ever.                     *)
(*                                                                         *)
(* ChecklistRun.tla implements this specification.                         *)
(***************************************************************************)

VARIABLES
    phase,      \* where the run stands
    verdict,    \* does it carry a result and a completion date?
    marked      \* does it carry the mark of a correction?

vars == <<phase, verdict, marked>>

Phases == {"absent", "in_progress", "completed", "deleted"}

Init ==
    /\ phase = "absent"
    /\ verdict = FALSE
    /\ marked = FALSE

Start ==
    /\ phase = "absent"
    /\ phase' = "in_progress"
    /\ UNCHANGED <<verdict, marked>>

Complete ==
    /\ phase = "in_progress"
    /\ phase' = "completed"
    /\ verdict' = TRUE
    /\ UNCHANGED marked

(* The verdict stays on the reopened run until the next completion.        *)
Reopen ==
    /\ phase = "completed"
    /\ phase' = "in_progress"
    /\ marked' = TRUE
    /\ UNCHANGED verdict

Delete ==
    /\ phase \in {"in_progress", "completed"}
    /\ phase' = "deleted"
    /\ verdict' = FALSE
    /\ marked' = FALSE

Next == Start \/ Complete \/ Reopen \/ Delete

Spec == Init /\ [][Next]_vars
=============================================================================
