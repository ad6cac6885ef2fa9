-------------------------- MODULE UnitOfWorkProofs --------------------------
(***************************************************************************)
(* What the operators of UnitOfWork guarantee, for all rows and writes.    *)
(***************************************************************************)
EXTENDS UnitOfWork, TLAPS

(* A flush writes exactly the assigned values that differ from the loaded  *)
(* ones: the reason why a save never touches the status of a run.          *)
LEMMA NetDomain ==
    ASSUME NEW loaded, NEW assigned
    PROVE  /\ DOMAIN Net(loaded, assigned) = Changed(loaded, assigned)
           /\ DOMAIN Net(loaded, assigned) \subseteq DOMAIN assigned
           /\ \A c \in DOMAIN Net(loaded, assigned) :
                 /\ Net(loaded, assigned)[c] = assigned[c]
                 /\ assigned[c] # loaded[c]
BY DEF Net, Changed

(* The later of two assignments wins.                                      *)
LEMMA ThenDomain ==
    ASSUME NEW first, NEW later
    PROVE  /\ DOMAIN Then(first, later) = DOMAIN first \cup DOMAIN later
           /\ \A c \in DOMAIN later : Then(first, later)[c] = later[c]
           /\ \A c \in DOMAIN first \ DOMAIN later : Then(first, later)[c] = first[c]
BY DEF Then

(* A flush keeps the columns of the row, writes the pending values and     *)
(* leaves every other column as the database has it.                       *)
LEMMA ApplyValues ==
    ASSUME NEW row, NEW writes
    PROVE  /\ DOMAIN Apply(row, writes) = DOMAIN row
           /\ \A c \in DOMAIN row :
                 Apply(row, writes)[c] =
                    IF c \in DOMAIN writes THEN writes[c] ELSE row[c]
BY DEF Apply

(* If nobody has changed a row since it was loaded, the flush leaves it as *)
(* the handler assigned it, although it writes only the differences.       *)
LEMMA UndisturbedFlushIsAssignment ==
    ASSUME NEW row, NEW assigned, DOMAIN assigned \subseteq DOMAIN row,
           NEW c \in DOMAIN row
    PROVE  Apply(row, Net(row, assigned))[c] =
               IF c \in DOMAIN assigned THEN assigned[c] ELSE row[c]
BY DEF Apply, Net, Changed
=============================================================================
