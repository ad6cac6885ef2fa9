--------------------------- MODULE MCOrganization ---------------------------
(* What an organization has: the row of a material, the files of a         *)
(* material, a checklist, and its members.  They share no state but the    *)
(* material's existence, which row and files each have for themselves, so  *)
(* they are explored side by side and not in combination.                  *)
EXTENDS Materials, MaterialFiles, Checklists, Members, TLC

CONSTANTS author1, admin, t1, t2, founder

VARIABLE part

(* One field, two that meet in a guard or in a version, or all of them.    *)
MCPatches ==
    UNION {[status : MaterialStatus],
           [visibility : MaterialVisibility],
           [title : Texts],
           [content : Texts],
           [title : Texts, content : Texts],
           [status : MaterialStatus, title : Texts],
           [visibility : MaterialVisibility, title : Texts],
           [status : MaterialStatus, visibility : MaterialVisibility],
           [status : MaterialStatus, visibility : MaterialVisibility,
            title : Texts, content : Texts]}

(* Nothing looks at which slot it is, which tree, or which of the users    *)
(* that were not there from the beginning.                                 *)
Alike ==
    Permutations(Editing) \cup Permutations(Trees) \cup Permutations(Users \ {founder})

(* What does not move begins in one way only.                              *)
OInit ==
    /\ part \in {"row", "files", "checklist", "members"}
    /\ MInit
    /\ FInit
    /\ ClInit
    /\ MbInit
    /\ part # "row" => author = author1
    /\ part # "checklist" => checklist.author_id = author1

ONext ==
    /\ UNCHANGED part
    /\ \/ part = "row" /\ MNext /\ UNCHANGED <<fvars, clvars, mbvars>>
       \/ part = "files" /\ FNext /\ UNCHANGED <<mvars, clvars, mbvars>>
       \/ part = "checklist" /\ ClNext /\ UNCHANGED <<mvars, fvars, mbvars>>
       \/ part = "members" /\ MbNext /\ UNCHANGED <<mvars, fvars, clvars>>

OSpec == OInit /\ [][ONext]_<<mvars, fvars, clvars, mbvars, part>>
=============================================================================
