---------------------------- MODULE MCEnrolment ----------------------------
(* Registrations, and the assignments of a course: what is inserted under  *)
(* a unique constraint.  They share no state and are explored side by side *)
(* and not in combination.                                                 *)
EXTENDS Registration, Courses

VARIABLE part

evars == <<form, covars, part>>

EInit ==
    /\ part \in {"registration", "course"}
    /\ GInit
    /\ CoInit
    /\ part = "registration" => ~is_published

ENext ==
    /\ UNCHANGED part
    /\ \/ part = "registration" /\ GNext /\ UNCHANGED covars
       \/ part = "course" /\ CoNext /\ UNCHANGED form

ESpec == EInit /\ [][ENext]_evars /\ GFairness /\ CoFairness
=============================================================================
