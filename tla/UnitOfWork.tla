----------------------------- MODULE UnitOfWork -----------------------------
(***************************************************************************)
(* What one request of the backend does to the rows it has loaded.         *)
(*                                                                         *)
(* Every handler works on Python objects loaded from PostgreSQL, assigns   *)
(* attributes, and lets `flush` turn the assignments into UPDATEs.  The    *)
(* session (db/session.py) is opened with autoflush=False and              *)
(* expire_on_commit=False, commits when the handler returns and rolls back *)
(* when it raises.  PostgreSQL runs at READ COMMITTED and no handler       *)
(* locks, so between the load and the commit the row may change.           *)
(*                                                                         *)
(* SQLAlchemy emits an UPDATE for the columns whose assigned value differs *)
(* from the LOADED value and for no other.  A request therefore never      *)
(* overwrites a column it left alone, and it does not write a column it    *)
(* assigned the value it had loaded - even if the row holds another value  *)
(* by the time of the flush.                                               *)
(*                                                                         *)
(* A row is a function from column names to values; a pending write is a   *)
(* function whose domain is the set of columns to be written.              *)
(***************************************************************************)

(* The columns of an assignment that the flush will write.                 *)
Changed(loaded, assigned) == {c \in DOMAIN assigned : assigned[c] # loaded[c]}

(* Mutant: the whole row is written, as an ORM without dirty tracking does. *)
WholeRow(loaded, assigned) ==
    [c \in DOMAIN loaded |-> IF c \in DOMAIN assigned THEN assigned[c] ELSE loaded[c]]

(* The pending UPDATE: the assigned values of the changed columns.         *)
Net(loaded, assigned) == [c \in Changed(loaded, assigned) |-> assigned[c]]

(* Two assignments one after the other: the later one wins.                *)
Then(first, later) ==
    [c \in DOMAIN first \cup DOMAIN later |->
        IF c \in DOMAIN later THEN later[c] ELSE first[c]]

(* Nothing to write.                                                       *)
NoWrites == [c \in {} |-> c]

(* The row after the UPDATE: written columns new, the others as they are   *)
(* in the database now (not as they were when they were loaded).           *)
Apply(row, writes) ==
    [c \in DOMAIN row |-> IF c \in DOMAIN writes THEN writes[c] ELSE row[c]]

(* A many-to-many collection is written as the difference between the      *)
(* loaded set and the assigned set: rows to delete, rows to insert.        *)
NetLinks(loaded, assigned) ==
    [removed |-> loaded \ assigned, added |-> assigned \ loaded]

NoLinks == [removed |-> {}, added |-> {}]

(* Inserting a link that somebody else has inserted breaks the primary key *)
(* of the association table and fails the transaction; deleting a link     *)
(* that is already gone deletes nothing.                                   *)
LinksFit(links, diff) == diff.added \cap links = {}

ApplyLinks(links, diff) == (links \ diff.removed) \cup diff.added
=============================================================================
