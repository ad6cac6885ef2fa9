---------------------------- MODULE MaterialFiles ----------------------------
(***************************************************************************)
(* The files attached to one material: rows of material_attachments in     *)
(* PostgreSQL and files on the disk (services/file_storage.py), which      *)
(* share no transaction: services/material_service.py, add_attachment,     *)
(* delete_attachment and delete_material.                                  *)
(*                                                                         *)
(* An upload saves the file and inserts the row afterwards; a deletion     *)
(* deletes the row and unlinks the file afterwards, but before the commit. *)
(* Rows are locked as PostgreSQL locks them: an inserted row locks the     *)
(* material against deletion until its transaction ends, a deleted one     *)
(* is locked against other deletions.                                      *)
(***************************************************************************)
EXTENDS Integers, FiniteSets

CONSTANTS
    Keys,               \* storage keys; every upload takes a fresh one (uuid4)
    MaxAttachments,     \* settings.max_attachments_per_material
    Transfers           \* slots for requests under way at the same time

ASSUME FilesAssumption ==
    /\ IsFiniteSet(Keys)
    /\ IsFiniteSet(Transfers) /\ Transfers # {}
    /\ MaxAttachments \in Nat

VARIABLES
    exists,         \* is there a row in materials?
    attachments,    \* the keys of the committed rows
    disk,           \* the files there are
    job,            \* what each request is doing
    taken,          \* keys some upload has taken
    broken,         \* history: files unlinked by a deletion that did not commit
    stray           \* history: files whose upload failed once they were saved, or
                    \* was not among those that a deletion of the material had read

fvars == <<exists, attachments, disk, job, taken, broken, stray>>

-----------------------------------------------------------------------------
NoJob == [stage |-> "idle"]

(* A deletion, of the whole material or of one attachment: the rows it has *)
(* read and deletes, and those whose files it has still to unlink.         *)
Deletion(whole, rows) ==
    [stage |-> "deleting", whole |-> whole, rows |-> rows, left |-> rows]

Unlinked(r) == job[r].rows \ job[r].left

(* The requests that hold a lock on a row another one wants to delete.     *)
Inserting == {r \in Transfers : job[r].stage = "inserting"}
DeletingMaterial == {r \in Transfers : job[r].stage = "deleting" /\ job[r].whole}
Deleting(k) ==
    {r \in Transfers : job[r].stage = "deleting" /\ (job[r].whole \/ k \in job[r].rows)}

(* The material and its attachments are read.                              *)
ReadFiles(r) ==
    /\ job[r] = NoJob
    /\ exists
    /\ job' = [job EXCEPT ![r] = [stage |-> "loaded", seen |-> attachments]]
    /\ UNCHANGED <<exists, attachments, disk, taken, broken, stray>>

(* Mutant: one more than the limit.                                        *)
RoomForOneMore(seen) == Cardinality(seen) <= MaxAttachments

(* `_validate_upload`.                                                     *)
RoomFor(seen) == Cardinality(seen) < MaxAttachments

(* Mutant: the row is inserted, and only then the file saved.              *)
SaveFileLater(r, k) ==
    /\ job[r].stage = "loaded"
    /\ RoomFor(job[r].seen)
    /\ k \notin taken
    /\ taken' = taken \cup {k}
    /\ job' = [job EXCEPT ![r] = [stage |-> "saved", key |-> k]]
    /\ UNCHANGED <<exists, attachments, disk, broken, stray>>

(* `add_attachment`: the file is saved under a fresh key ...               *)
SaveFile(r, k) ==
    /\ job[r].stage = "loaded"
    /\ RoomFor(job[r].seen)
    /\ k \notin taken
    /\ taken' = taken \cup {k}
    /\ disk' = disk \cup {k}
    /\ job' = [job EXCEPT ![r] = [stage |-> "saved", key |-> k]]
    /\ UNCHANGED <<exists, attachments, broken, stray>>

(* ... and its row inserted, which fails if the material is gone and waits *)
(* while somebody is deleting it.                                          *)
InsertRow(r) ==
    /\ job[r].stage = "saved"
    /\ exists
    /\ DeletingMaterial = {}
    /\ job' = [job EXCEPT ![r] = [stage |-> "inserting", key |-> job[r].key]]
    /\ UNCHANGED <<exists, attachments, disk, taken, broken, stray>>

(* `delete_attachment`.  A row that has gone meanwhile is no error.        *)
DeleteRow(r, k) ==
    /\ job[r].stage = "loaded"
    /\ k \in job[r].seen
    /\ Deleting(k) = {}
    /\ job' = [job EXCEPT ![r] = Deletion(FALSE, {k})]
    /\ UNCHANGED <<exists, attachments, disk, taken, broken, stray>>

(* `delete_material`: the cascade deletes every row, the request unlinks   *)
(* the files of those it has read.                                         *)
DeleteMaterial(r) ==
    /\ job[r].stage = "loaded"
    /\ exists
    /\ Inserting = {}
    /\ DeletingMaterial = {}
    /\ \A k \in attachments : Deleting(k) = {}
    /\ job' = [job EXCEPT ![r] = Deletion(TRUE, job[r].seen)]
    /\ UNCHANGED <<exists, attachments, disk, taken, broken, stray>>

(* `FileStorage.delete`, one file after the other, missing or not.         *)
Unlink(r, k) ==
    /\ job[r].stage = "deleting"
    /\ k \in job[r].left
    /\ disk' = disk \ {k}
    /\ job' = [job EXCEPT ![r].left = @ \ {k}]
    /\ UNCHANGED <<exists, attachments, taken, broken, stray>>

CommitUpload(r) ==
    /\ job[r].stage = "inserting"
    /\ attachments' = attachments \cup {job[r].key}
    /\ job' = [job EXCEPT ![r] = NoJob]
    /\ UNCHANGED <<exists, disk, taken, broken, stray>>

(* Mutant: the files are left to be unlinked later.                        *)
CommitDeletionEarly(r) ==
    /\ job[r].stage = "deleting"
    /\ attachments' = IF job[r].whole THEN {} ELSE attachments \ job[r].rows
    /\ exists' = (exists /\ ~job[r].whole)
    /\ stray' = IF job[r].whole THEN stray \cup (attachments \ job[r].rows) ELSE stray
    /\ job' = [job EXCEPT ![r] = NoJob]
    /\ UNCHANGED <<disk, taken, broken>>

CommitDeletion(r) ==
    /\ job[r].stage = "deleting"
    /\ job[r].left = {}
    /\ attachments' = IF job[r].whole THEN {} ELSE attachments \ job[r].rows
    /\ exists' = (exists /\ ~job[r].whole)
    /\ stray' = IF job[r].whole THEN stray \cup (attachments \ job[r].rows) ELSE stray
    /\ job' = [job EXCEPT ![r] = NoJob]
    /\ UNCHANGED <<disk, taken, broken>>

(* A refused guard, an error, a crash, before or at the commit: the rows   *)
(* are as before, the files are as they are.                               *)
GiveUp(r) ==
    /\ job[r] # NoJob
    /\ job' = [job EXCEPT ![r] = NoJob]
    /\ broken' = IF job[r].stage = "deleting" THEN broken \cup Unlinked(r) ELSE broken
    /\ stray' = IF job[r].stage \in {"saved", "inserting"} THEN stray \cup {job[r].key}
                                                           ELSE stray
    /\ UNCHANGED <<exists, attachments, disk, taken>>

-----------------------------------------------------------------------------
FInit ==
    /\ exists = TRUE
    /\ attachments = {}
    /\ disk = {}
    /\ job = [r \in Transfers |-> NoJob]
    /\ taken = {}
    /\ broken = {}
    /\ stray = {}

FNext ==
    \E r \in Transfers :
        \/ ReadFiles(r) \/ InsertRow(r) \/ DeleteMaterial(r)
        \/ CommitUpload(r) \/ CommitDeletion(r) \/ GiveUp(r)
        \/ \E k \in Keys : SaveFile(r, k) \/ DeleteRow(r, k) \/ Unlink(r, k)

FSpec == FInit /\ [][FNext]_fvars

-----------------------------------------------------------------------------
Jobs ==
    {NoJob}
    \cup [stage : {"loaded"}, seen : SUBSET Keys]
    \cup [stage : {"saved", "inserting"}, key : Keys]
    \cup [stage : {"deleting"}, whole : BOOLEAN, rows : SUBSET Keys, left : SUBSET Keys]

FTypeOK ==
    /\ exists \in BOOLEAN
    /\ attachments \subseteq Keys
    /\ disk \subseteq Keys
    /\ taken \subseteq Keys
    /\ job \in [Transfers -> Jobs]
    /\ broken \subseteq Keys
    /\ stray \subseteq Keys

(* Every row has its file, except while a deletion that has unlinked it is *)
(* about to commit, and for ever if it does not.                           *)
RowHasFile ==
    \A k \in attachments \ disk :
        k \in broken \/ \E r \in Deleting(k) : k \in Unlinked(r)

(* Every file has its row, except while it is uploaded or deleted, and     *)
(* for ever if the upload fails afterwards or overlaps the deletion of the *)
(* material: then no request will ever remove it.                          *)
FileHasRow ==
    \A k \in disk \ attachments :
        \/ k \in stray
        \/ \E r \in Transfers : job[r].stage \in {"saved", "inserting"} /\ job[r].key = k

(* Each upload under way may add one file to those it has counted, and no  *)
(* more: the attachments exceed their limit by less than there are         *)
(* requests at a time.                                                     *)
UploadOverrun == Cardinality(attachments) <= MaxAttachments - 1 + Cardinality(Transfers)
=============================================================================
