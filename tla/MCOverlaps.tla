----------------------------- MODULE MCOverlaps -----------------------------
(* Requests that overlap: two of one browser, from any of its tabs, and    *)
(* two that work on one run.  A browser and a run share no state and are   *)
(* explored side by side and not in combination.                           *)
EXTENDS AuthClient, ChecklistRun, TLC

CONSTANTS tab1, inspector, owner

VARIABLE part

NoTab(c) == tab1

(* Nothing looks at which slot it is.                                      *)
Alike == Permutations(Requests)

MCInit ==
    /\ part \in {"browser", "run"}
    /\ ACInit
    /\ Init

MCNext ==
    /\ UNCHANGED part
    /\ \/ part = "browser" /\ ACNext /\ UNCHANGED vars
       \/ part = "run" /\ Next /\ UNCHANGED cvars

MCSpec == MCInit /\ [][MCNext]_<<cvars, vars, part>>
=============================================================================
