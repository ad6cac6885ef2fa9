--------------------------- MODULE MaterialsProofs ---------------------------
(***************************************************************************)
(* Proofs about a material: its files (MaterialFiles), for any number of   *)
(* keys, requests and attachments, and its row (Materials), for any number *)
(* of requests, texts and people.                                          *)
(***************************************************************************)
EXTENDS Materials, MaterialFiles, UnitOfWorkProofs, FiniteSetTheorems, TLAPS

-----------------------------------------------------------------------------
(* The files: types.                                                       *)

LEMMA NoJobTyped == NoJob \in Jobs
BY DEF NoJob, Jobs

LEMMA FilesStepTyped == FTypeOK /\ [FNext]_fvars => FTypeOK'
<1> SUFFICES ASSUME FTypeOK, [FNext]_fvars PROVE FTypeOK'
  OBVIOUS
<1> USE DEF FTypeOK
<1>1. ASSUME NEW r \in Transfers, ReadFiles(r) PROVE FTypeOK'
  <2>1. [stage |-> "loaded", seen |-> attachments] \in Jobs
    BY DEF Jobs
  <2> QED BY <1>1, <2>1 DEF ReadFiles
<1>2. ASSUME NEW r \in Transfers, NEW k \in Keys, SaveFile(r, k) PROVE FTypeOK'
  <2>1. [stage |-> "saved", key |-> k] \in Jobs
    BY DEF Jobs
  <2> QED BY <1>2, <2>1 DEF SaveFile
<1>3. ASSUME NEW r \in Transfers, InsertRow(r) PROVE FTypeOK'
  <2>1. [stage |-> "inserting", key |-> job[r].key] \in Jobs
    BY <1>3 DEF InsertRow, Jobs, NoJob
  <2> QED BY <1>3, <2>1 DEF InsertRow
<1>4. ASSUME NEW r \in Transfers, NEW k \in Keys, DeleteRow(r, k) PROVE FTypeOK'
  <2>1. Deletion(FALSE, {k}) \in Jobs
    BY DEF Jobs, Deletion
  <2> QED BY <1>4, <2>1 DEF DeleteRow
<1>5. ASSUME NEW r \in Transfers, DeleteMaterial(r) PROVE FTypeOK'
  <2>1. Deletion(TRUE, job[r].seen) \in Jobs
    BY <1>5 DEF DeleteMaterial, Jobs, NoJob, Deletion
  <2> QED BY <1>5, <2>1 DEF DeleteMaterial
<1>6. ASSUME NEW r \in Transfers, NEW k \in Keys, Unlink(r, k) PROVE FTypeOK'
  <2>1. job[r] \in [stage : {"deleting"}, whole : BOOLEAN, rows : SUBSET Keys, left : SUBSET Keys]
    BY <1>6 DEF Unlink, Jobs, NoJob
  <2>2. [job[r] EXCEPT !.left = @ \ {k}] \in Jobs
    BY <2>1 DEF Jobs
  <2>3. job' = [job EXCEPT ![r] = [job[r] EXCEPT !.left = @ \ {k}]]
    BY <1>6 DEF Unlink
  <2> QED BY <1>6, <2>2, <2>3 DEF Unlink
<1>7. ASSUME NEW r \in Transfers, CommitUpload(r) PROVE FTypeOK'
  <2>1. job[r].key \in Keys
    BY <1>7 DEF CommitUpload, Jobs, NoJob
  <2> QED BY <1>7, <2>1, NoJobTyped DEF CommitUpload
<1>8. ASSUME NEW r \in Transfers, CommitDeletion(r) PROVE FTypeOK'
  BY <1>8, NoJobTyped DEF CommitDeletion
<1>9. ASSUME NEW r \in Transfers, GiveUp(r) PROVE FTypeOK'
  <2>1. job[r].stage = "deleting" => Unlinked(r) \subseteq Keys
    BY DEF Unlinked, Jobs, NoJob
  <2>2. job[r].stage \in {"saved", "inserting"} => job[r].key \in Keys
    BY DEF Jobs, NoJob
  <2> QED BY <1>9, <2>1, <2>2, NoJobTyped DEF GiveUp
<1>10. CASE UNCHANGED fvars
  BY <1>10 DEF fvars
<1> QED BY <1>1, <1>2, <1>3, <1>4, <1>5, <1>6, <1>7, <1>8, <1>9, <1>10 DEF FNext

LEMMA FilesStartTyped == FInit => FTypeOK
BY NoJobTyped DEF FInit, FTypeOK

(* MaterialFiles: its type invariant.                                      *)
THEOREM FilesTyped == FSpec => []FTypeOK
BY FilesStartTyped, FilesStepTyped, PTL DEF FSpec

-----------------------------------------------------------------------------
(* Rows and files.  The rows of the database are those of the disk because *)
(* a key belongs to one request until its row is committed: nobody else    *)
(* has it in what he has read or deletes, so nobody unlinks its file.      *)

Uploads(r) == job[r].stage \in {"saved", "inserting"}

FilesInvariant ==
    /\ FTypeOK
    /\ attachments \subseteq taken
    /\ disk \subseteq taken
    /\ \A r \in Transfers : Uploads(r) =>
        /\ job[r].key \in disk \ attachments
        /\ \A s \in Transfers :
            /\ Uploads(s) /\ job[s].key = job[r].key => s = r
            /\ job[s].stage = "loaded" => job[r].key \notin job[s].seen
            /\ job[s].stage = "deleting" => job[r].key \notin job[s].rows
    /\ \A r \in Transfers :
        /\ job[r].stage = "loaded" => job[r].seen \subseteq taken
        /\ job[r].stage = "deleting" =>
            /\ job[r].rows \subseteq taken
            /\ job[r].left \subseteq job[r].rows
            /\ Unlinked(r) \cap disk = {}
    /\ RowHasFile
    /\ FileHasRow

LEMMA FilesStep == FilesInvariant /\ [FNext]_fvars => FilesInvariant'
<1> SUFFICES ASSUME FilesInvariant, [FNext]_fvars PROVE FilesInvariant'
  OBVIOUS
<1>t. FTypeOK /\ FTypeOK'
  BY FilesStepTyped DEF FilesInvariant
<1>j. /\ DOMAIN job = Transfers
      /\ NoJob.stage = "idle"
  BY <1>t DEF FTypeOK, NoJob
<1> USE <1>t, <1>j DEF FilesInvariant, Uploads, RowHasFile, FileHasRow, Unlinked, Deleting
<1>1. ASSUME NEW r \in Transfers, ReadFiles(r) PROVE FilesInvariant'
  BY <1>1 DEF ReadFiles, FTypeOK
<1>2. ASSUME NEW r \in Transfers, NEW k \in Keys, SaveFile(r, k) PROVE FilesInvariant'
  BY <1>2 DEF SaveFile, FTypeOK
<1>3. ASSUME NEW r \in Transfers, InsertRow(r) PROVE FilesInvariant'
  BY <1>3 DEF InsertRow, FTypeOK
<1>4. ASSUME NEW r \in Transfers, NEW k \in Keys, DeleteRow(r, k) PROVE FilesInvariant'
  BY <1>4 DEF DeleteRow, Deletion, FTypeOK
<1>5. ASSUME NEW r \in Transfers, DeleteMaterial(r) PROVE FilesInvariant'
  BY <1>5 DEF DeleteMaterial, Deletion, FTypeOK
<1>6. ASSUME NEW r \in Transfers, NEW k \in Keys, Unlink(r, k) PROVE FilesInvariant'
  BY <1>6 DEF Unlink, FTypeOK
<1>7. ASSUME NEW r \in Transfers, CommitUpload(r) PROVE FilesInvariant'
  BY <1>7 DEF CommitUpload, FTypeOK
<1>8. ASSUME NEW r \in Transfers, CommitDeletion(r) PROVE FilesInvariant'
  BY <1>8 DEF CommitDeletion, FTypeOK
<1>9. ASSUME NEW r \in Transfers, GiveUp(r) PROVE FilesInvariant'
  BY <1>9 DEF GiveUp, FTypeOK
<1>10. CASE UNCHANGED fvars
  BY <1>10 DEF fvars
<1> QED BY <1>1, <1>2, <1>3, <1>4, <1>5, <1>6, <1>7, <1>8, <1>9, <1>10 DEF FNext

LEMMA FilesStart == FInit => FilesInvariant
BY FilesStartTyped DEF FInit, FilesInvariant, Uploads, RowHasFile, FileHasRow, NoJob

LEMMA FilesKept == FSpec => []FilesInvariant
BY FilesStart, FilesStep, PTL DEF FSpec

(* MaterialFiles: every row has its file, but for a deletion that is about *)
(* to commit or has failed after it unlinked the file.                     *)
THEOREM RowsHaveFiles == FSpec => []RowHasFile
<1>1. FilesInvariant => RowHasFile
  BY DEF FilesInvariant
<1> QED BY <1>1, FilesKept, PTL

(* MaterialFiles: every file has its row, but for an upload that is under  *)
(* way, has failed or has overlapped the deletion of the material.         *)
THEOREM FilesHaveRows == FSpec => []FileHasRow
<1>1. FilesInvariant => FileHasRow
  BY DEF FilesInvariant
<1> QED BY <1>1, FilesKept, PTL

-----------------------------------------------------------------------------
(* The limit.  Every request that has found room is counted in advance: to *)
(* find room it must have read less than the limit, and from then on the   *)
(* sum of the attachments and of those requests grows no more.             *)

Coming ==
    {r \in Transfers :
        Uploads(r) \/ (job[r].stage = "loaded" /\ RoomFor(job[r].seen))}

LimitInvariant ==
    /\ FTypeOK
    /\ Cardinality(attachments) + Cardinality(Coming) < MaxAttachments + Cardinality(Transfers)

(* What is counted is finite.                                              *)
LEMMA FilesCounted ==
    ASSUME FTypeOK
    PROVE  /\ IsFiniteSet(attachments) /\ Cardinality(attachments) \in Nat
           /\ IsFiniteSet(Coming) /\ Cardinality(Coming) \in Nat
           /\ Cardinality(Transfers) \in Nat
           /\ Cardinality(Coming) <= Cardinality(Transfers)
<1>1. attachments \subseteq Keys /\ Coming \subseteq Transfers
  BY DEF FTypeOK, Coming
<1>2. IsFiniteSet(attachments) /\ IsFiniteSet(Coming)
  BY <1>1, FilesAssumption, FS_Subset
<1>3. Cardinality(Coming) <= Cardinality(Transfers)
  BY <1>1, FilesAssumption, FS_Subset
<1> QED BY <1>2, <1>3, FilesAssumption, FS_CardinalityType

(* Nothing was added to the attachments, and nobody has joined.            *)
LEMMA LimitFalls ==
    ASSUME LimitInvariant, FTypeOK', attachments' \subseteq attachments, Coming' \subseteq Coming
    PROVE  LimitInvariant'
<1>1. FTypeOK
  BY DEF LimitInvariant
<1>2. /\ IsFiniteSet(attachments) /\ Cardinality(attachments) \in Nat
      /\ IsFiniteSet(Coming) /\ Cardinality(Coming) \in Nat
      /\ Cardinality(Transfers) \in Nat
  BY <1>1, FilesCounted
<1>3. /\ IsFiniteSet(attachments') /\ Cardinality(attachments') <= Cardinality(attachments)
      /\ IsFiniteSet(Coming') /\ Cardinality(Coming') <= Cardinality(Coming)
  BY <1>2, FS_Subset
<1>4. Cardinality(attachments') \in Nat /\ Cardinality(Coming') \in Nat
  BY <1>3, FS_CardinalityType
<1> QED BY <1>2, <1>3, <1>4, FilesAssumption DEF LimitInvariant

LEMMA LimitStep == LimitInvariant /\ [FNext]_fvars => LimitInvariant'
<1> SUFFICES ASSUME LimitInvariant, [FNext]_fvars PROVE LimitInvariant'
  OBVIOUS
<1>t. FTypeOK /\ FTypeOK'
  BY FilesStepTyped DEF LimitInvariant
<1>j. DOMAIN job = Transfers /\ NoJob.stage = "idle"
  BY <1>t DEF FTypeOK, NoJob
<1>1. ASSUME NEW r \in Transfers, ReadFiles(r) PROVE LimitInvariant'
  <2>1. /\ attachments' = attachments
        /\ job' = [job EXCEPT ![r] = [stage |-> "loaded", seen |-> attachments]]
    BY <1>1 DEF ReadFiles
  <2>2. CASE RoomFor(attachments)
    <3>1. Cardinality(Coming') <= Cardinality(Transfers) /\ Cardinality(Coming') \in Nat
      <4>1. Coming' \subseteq Transfers
        BY DEF Coming
      <4> QED BY <4>1, FilesAssumption, FS_Subset, FS_CardinalityType
    <3>2. Cardinality(attachments) < MaxAttachments
      BY <2>2 DEF RoomFor
    <3> QED BY <1>t, <2>1, <3>1, <3>2, FilesCounted, FilesAssumption DEF LimitInvariant
  <2>3. CASE ~RoomFor(attachments)
    <3>1. Coming' \subseteq Coming
      BY <1>j, <2>1, <2>3 DEF Coming, Uploads, RoomFor
    <3> QED BY <1>t, <2>1, <3>1, LimitFalls
  <2> QED BY <2>2, <2>3
<1>2. ASSUME NEW r \in Transfers, NEW k \in Keys, SaveFile(r, k) PROVE LimitInvariant'
  <2>1. attachments' = attachments /\ Coming' \subseteq Coming
    BY <1>2, <1>j DEF SaveFile, Coming, Uploads, RoomFor
  <2> QED BY <2>1, <1>t, LimitFalls
<1>3. ASSUME NEW r \in Transfers, InsertRow(r) PROVE LimitInvariant'
  <2>1. attachments' = attachments /\ Coming' \subseteq Coming
    BY <1>3, <1>j DEF InsertRow, Coming, Uploads, RoomFor
  <2> QED BY <2>1, <1>t, LimitFalls
<1>4. ASSUME NEW r \in Transfers, NEW k \in Keys, DeleteRow(r, k) PROVE LimitInvariant'
  <2>1. attachments' = attachments /\ Coming' \subseteq Coming
    BY <1>4, <1>j DEF DeleteRow, Deletion, Coming, Uploads, RoomFor
  <2> QED BY <2>1, <1>t, LimitFalls
<1>5. ASSUME NEW r \in Transfers, DeleteMaterial(r) PROVE LimitInvariant'
  <2>1. attachments' = attachments /\ Coming' \subseteq Coming
    BY <1>5, <1>j DEF DeleteMaterial, Deletion, Coming, Uploads, RoomFor
  <2> QED BY <2>1, <1>t, LimitFalls
<1>6. ASSUME NEW r \in Transfers, NEW k \in Keys, Unlink(r, k) PROVE LimitInvariant'
  <2>1. attachments' = attachments /\ Coming' \subseteq Coming
    BY <1>6, <1>j DEF Unlink, Coming, Uploads, RoomFor
  <2> QED BY <2>1, <1>t, LimitFalls
<1>7. ASSUME NEW r \in Transfers, CommitUpload(r) PROVE LimitInvariant'
  <2>1. attachments' = attachments \cup {job[r].key} /\ r \in Coming
    BY <1>7 DEF CommitUpload, Coming, Uploads
  <2>2. Coming' \subseteq Coming \ {r}
    BY <1>7, <1>j DEF CommitUpload, Coming, Uploads, RoomFor
  <2>3. /\ IsFiniteSet(attachments) /\ Cardinality(attachments) \in Nat
        /\ IsFiniteSet(Coming) /\ Cardinality(Coming) \in Nat
        /\ Cardinality(Transfers) \in Nat
    BY <1>t, FilesCounted
  <2>4. Cardinality(attachments') <= Cardinality(attachments) + 1 /\ Cardinality(attachments') \in Nat
    <3>1. /\ IsFiniteSet(attachments')
          /\ Cardinality(attachments') = IF job[r].key \in attachments THEN Cardinality(attachments)
                                         ELSE Cardinality(attachments) + 1
      BY <2>1, <2>3, FS_AddElement
    <3> QED BY <3>1, <2>3
  <2>5. IsFiniteSet(Coming \ {r}) /\ Cardinality(Coming \ {r}) = Cardinality(Coming) - 1
    BY <2>1, <2>3, FS_RemoveElement
  <2>6. IsFiniteSet(Coming') /\ Cardinality(Coming') <= Cardinality(Coming \ {r})
    BY <2>2, <2>5, FS_Subset
  <2>7. Cardinality(Coming') \in Nat
    BY <2>6, FS_CardinalityType
  <2> QED BY <1>t, <2>3, <2>4, <2>5, <2>6, <2>7, FilesAssumption DEF LimitInvariant
<1>8. ASSUME NEW r \in Transfers, CommitDeletion(r) PROVE LimitInvariant'
  <2>1. attachments' \subseteq attachments /\ Coming' \subseteq Coming
    BY <1>8, <1>j DEF CommitDeletion, Coming, Uploads, RoomFor
  <2> QED BY <2>1, <1>t, LimitFalls
<1>9. ASSUME NEW r \in Transfers, GiveUp(r) PROVE LimitInvariant'
  <2>1. attachments' = attachments /\ Coming' \subseteq Coming
    BY <1>9, <1>j DEF GiveUp, Coming, Uploads, RoomFor
  <2> QED BY <2>1, <1>t, LimitFalls
<1>10. CASE UNCHANGED fvars
  <2>1. attachments' = attachments /\ Coming' \subseteq Coming
    BY <1>10 DEF fvars, Coming, Uploads, RoomFor
  <2> QED BY <2>1, <1>t, LimitFalls
<1> QED BY <1>1, <1>2, <1>3, <1>4, <1>5, <1>6, <1>7, <1>8, <1>9, <1>10 DEF FNext

LEMMA LimitStart == FInit => LimitInvariant
<1> SUFFICES ASSUME FInit PROVE LimitInvariant
  OBVIOUS
<1>1. FTypeOK
  BY FilesStartTyped
<1>2. attachments = {} /\ Coming = {}
  BY DEF FInit, Coming, Uploads, NoJob
<1>3. Cardinality({}) = 0
  BY FS_EmptySet
<1>4. Cardinality(Transfers) \in Nat /\ Cardinality(Transfers) # 0
  BY FilesAssumption, FS_CardinalityType, FS_EmptySet
<1> QED BY <1>1, <1>2, <1>3, <1>4, FilesAssumption DEF LimitInvariant

(* MaterialFiles: uploads that overlap exceed the limit by less than their *)
(* number.                                                                 *)
THEOREM UploadsOverrun == FSpec => []UploadOverrun
<1>1. FSpec => []LimitInvariant
  BY LimitStart, LimitStep, PTL DEF FSpec
<1>2. LimitInvariant => UploadOverrun
  <2> SUFFICES ASSUME LimitInvariant PROVE UploadOverrun
    OBVIOUS
  <2>1. FTypeOK
    BY DEF LimitInvariant
  <2> QED BY <2>1, FilesCounted, FilesAssumption DEF LimitInvariant, UploadOverrun
<1> QED BY <1>1, <1>2, PTL

-----------------------------------------------------------------------------
(* The row: what a write leaves behind.                                    *)

IsHistory(v) ==
    /\ v \in [numbers : SUBSET Nat, latest : [VersionedFields -> Texts]]
    /\ \E n \in Nat : v.numbers = 1..n

IsWrite(w) == DOMAIN w \subseteq Columns /\ \A c \in DOMAIN w : w[c] \in ColumnType[c]

LEMMA ColumnsListed ==
    /\ Columns = {"status", "visibility", "published_at", "title", "content"}
    /\ ColumnType["status"] = MaterialStatus
    /\ ColumnType["visibility"] = MaterialVisibility
    /\ ColumnType["published_at"] = BOOLEAN
    /\ ColumnType["title"] = Texts
    /\ ColumnType["content"] = Texts
BY DEF Columns, ColumnType

LEMMA WriteTyped ==
    ASSUME NEW x, IsRow(x), NEW w, IsWrite(w)
    PROVE  IsRow(Apply(x, w))
BY DEF IsRow, IsWrite, Apply

LEMMA SnapshotTyped ==
    ASSUME NEW x, IsRow(x)
    PROVE  Snapshot(x) \in [VersionedFields -> Texts]
BY ColumnsListed DEF IsRow, Snapshot, VersionedFields

LEMMA NewRowTyped ==
    ASSUME NEW status \in MaterialStatus, NEW visibility \in MaterialVisibility, NEW text \in Texts
    PROVE  IsRow(NewRow(status, visibility, text))
<1> DEFINE dated == status = "published"
           x == [status |-> status, visibility |-> visibility, published_at |-> dated,
                 title |-> text, content |-> text]
<1>1. dated \in BOOLEAN
  OBVIOUS
<1>2. NewRow(status, visibility, text) = x
  BY Zenon DEF NewRow
<1> HIDE DEF dated
<1>3. DOMAIN x = Columns
  BY ColumnsListed
<1>4. \A c \in Columns : x[c] \in ColumnType[c]
  BY <1>1, ColumnsListed
<1> HIDE DEF x
<1> QED BY <1>2, <1>3, <1>4 DEF IsRow

LEMMA NoRowTyped == IsRow(NoRow) /\ NoRow.status = "draft" /\ NoRow.visibility = "org"
<1>1. (CHOOSE t \in Texts : TRUE) \in Texts
  BY MaterialAssumption
<1>2. "draft" \in MaterialStatus /\ "org" \in MaterialVisibility
  BY DEF MaterialStatus, MaterialVisibility
<1> QED BY <1>1, <1>2, NewRowTyped DEF NoRow, NewRow

LEMMA NoVersionsTyped == IsHistory(NoVersions)
<1>1. {} = 1..0
  OBVIOUS
<1> QED BY <1>1, NoRowTyped, SnapshotTyped DEF IsHistory, NoVersions

(* The numbers of the versions have no gap, and a new version is the       *)
(* snapshot it was made of.                                                *)
LEMMA AddVersionTyped ==
    ASSUME NEW v, IsHistory(v), NEW x, IsRow(x)
    PROVE  IsHistory(AddVersion(v, x)) /\ AddVersion(v, x).latest = Snapshot(x)
<1>1. PICK n \in Nat : v.numbers = 1..n
  BY DEF IsHistory
<1>2. NextVersionNo(v) = n + 1
  <2>1. CASE n = 0
    BY <1>1, <2>1 DEF NextVersionNo
  <2>2. CASE n # 0
    <3>1. n \in v.numbers /\ \A k \in v.numbers : k <= n
      BY <1>1, <2>2
    <3>2. \A m \in v.numbers : (\A k \in v.numbers : k <= m) => m = n
      <4> SUFFICES ASSUME NEW m \in v.numbers, \A k \in v.numbers : k <= m PROVE m = n
        OBVIOUS
      <4>1. m \in Nat /\ m <= n /\ n <= m
        BY <1>1, <3>1
      <4> QED BY <4>1
    <3>3. (CHOOSE m \in v.numbers : \A k \in v.numbers : k <= m) = n
      BY <3>1, <3>2
    <3> QED BY <3>1, <3>3 DEF NextVersionNo
  <2> QED BY <2>1, <2>2
<1>3. v.numbers \cup {n + 1} = 1..(n + 1)
  BY <1>1
<1>4. Snapshot(x) \in [VersionedFields -> Texts]
  BY SnapshotTyped
<1> QED BY <1>2, <1>3, <1>4 DEF IsHistory, AddVersion

-----------------------------------------------------------------------------
(* The row: the invariant.  Nobody changes the row while somebody holds    *)
(* its lock, so what the holder has prepared still fits it at the commit.  *)

Undated(x) == x.status = "published" /\ ~x.published_at

Prepared(e) ==
    /\ e.life \in {"live", "deleted"}
    /\ IsRow(e.row)
    /\ IsHistory(e.versions)
    /\ e.life = "live" => e.versions.latest = Snapshot(e.row)
    /\ e.life = "live" /\ e.row.visibility # row.visibility =>
        /\ e.found # e.row.visibility
        /\ e.row.visibility = "public" => e.by \in Superusers
    /\ Undated(e.row) => Undated(row) \/ e.stale

RowInvariant ==
    /\ life \in {"absent", "live", "deleted"}
    /\ IsRow(row)
    /\ author \in Owners
    /\ IsHistory(versions)
    /\ life = "live" => versions.latest = Snapshot(row)
    /\ DOMAIN edit = Editing
    /\ \A r \in Editing :
        /\ edit[r].stage \in {"idle", "loaded", "flushed"}
        /\ edit[r].stage = "loaded" => IsRow(edit[r].row)
        /\ edit[r].stage = "flushed" =>
            /\ life = "live"
            /\ Prepared(edit[r])
            /\ \A s \in Editing : edit[s].stage = "flushed" => s = r

(* A request that joins the others, or leaves them, with the row as it is. *)
LEMMA PendKeeps ==
    ASSUME RowInvariant, NEW r \in Editing, NEW e, Pend(r, e),
           e.stage \in {"idle", "loaded", "flushed"},
           e.stage = "loaded" => IsRow(e.row),
           e.stage = "flushed" => life = "live" /\ ~Locked /\ Prepared(e)
    PROVE  RowInvariant'
<1>1. /\ UNCHANGED <<life, row, author, versions>>
      /\ edit' = [edit EXCEPT ![r] = e]
  BY DEF Pend, material
<1>2. ASSUME NEW s \in Editing
      PROVE  /\ edit'[s].stage \in {"idle", "loaded", "flushed"}
             /\ edit'[s].stage = "loaded" => IsRow(edit'[s].row)
             /\ edit'[s].stage = "flushed" =>
                  /\ life = "live"
                  /\ Prepared(edit'[s])
                  /\ \A t \in Editing : edit'[t].stage = "flushed" => t = s
  <2>1. CASE s = r
    BY <1>1, <2>1 DEF RowInvariant, Locked
  <2>2. CASE s # r
    BY <1>1, <2>2 DEF RowInvariant, Locked
  <2> QED BY <2>1, <2>2
<1>3. \A s \in Editing : Prepared(edit'[s]) => Prepared(edit[s])'
  BY <1>1 DEF Prepared, Undated
<1> QED BY <1>1, <1>2, <1>3 DEF RowInvariant

(* The UPDATE of a request that has the right to what it writes.           *)
LEMMA WriteKeeps ==
    ASSUME RowInvariant, NEW r \in Editing, NEW u, NEW w, IsWrite(w), NEW versioned \in BOOLEAN,
           Write(r, u, w, versioned),
           versioned \/ DOMAIN w \cap VersionedFields = {},
           "visibility" \in DOMAIN w =>
               /\ w["visibility"] # edit[r].row.visibility
               /\ w["visibility"] = "public" => u \in Superusers,
           Undated(Apply(row, w)) => Undated(row) \/ Stale(edit[r].row)
    PROVE  RowInvariant'
<1> DEFINE left == Apply(row, w)
           history == IF versioned THEN AddVersion(versions, left) ELSE versions
           stale == Stale(edit[r].row)
           found == edit[r].row.visibility
           e == [stage |-> "flushed", by |-> u, found |-> found, life |-> "live", row |-> left,
                 versions |-> history, stale |-> stale]
<1>1. life = "live" /\ ~Locked /\ Pend(r, e)
  BY Zenon DEF Write, Flushed
<1>2. IsRow(left) /\ IsRow(row) /\ IsHistory(versions)
  BY WriteTyped DEF RowInvariant
<1>3. IsHistory(history)
  BY <1>2, AddVersionTyped
<1>4. history.latest = Snapshot(left)
  <2>1. CASE versioned
    BY <1>2, <2>1, AddVersionTyped
  <2>2. CASE ~versioned
    <3>1. VersionedFields \subseteq DOMAIN row
      BY <1>2, ColumnsListed DEF IsRow, VersionedFields
    <3>2. Snapshot(left) = Snapshot(row)
      BY <2>2, <3>1 DEF Snapshot, Apply
    <3> QED BY <1>1, <2>2, <3>2 DEF RowInvariant
  <2> QED BY <2>1, <2>2
<1>5. left["visibility"] # row["visibility"] =>
        /\ found # left["visibility"]
        /\ left["visibility"] = "public" => u \in Superusers
  BY <1>2, ColumnsListed DEF IsRow, Apply
<1>6. Undated(left) => Undated(row) \/ stale
  OBVIOUS
<1> HIDE DEF left, history, stale, found
<1>7. Prepared(e)
  <2>1. /\ e.life = "live" /\ e.row = left /\ e.versions = history /\ e.by = u
        /\ e.found = found
    OBVIOUS
  <2>2. e.stale = stale
    BY Zenon
  <2> HIDE DEF e
  <2> QED BY <1>2, <1>3, <1>4, <1>5, <1>6, <2>1, <2>2 DEF Prepared
<1>8. e.stage = "flushed"
  OBVIOUS
<1> HIDE DEF e
<1> QED BY <1>1, <1>7, <1>8, PendKeeps

LEMMA NetIs ==
    ASSUME NEW x, NEW w
    PROVE  /\ DOMAIN Net(x, w) = {c \in DOMAIN w : w[c] # x[c]}
           /\ \A c \in DOMAIN Net(x, w) : Net(x, w)[c] = w[c]
BY DEF Net, Changed

(* What is written is some of what was assigned.                           *)
LEMMA NetTyped ==
    ASSUME NEW x, NEW w, IsWrite(w)
    PROVE  IsWrite(Net(x, w))
BY NetDomain DEF IsWrite

LEMMA DatedTyped ==
    ASSUME NEW w, IsWrite(w)
    PROVE  IsWrite(Then(w, [published_at |-> TRUE]))
<1> DEFINE dated == [published_at |-> TRUE]
           both == Then(w, dated)
<1>1. DOMAIN dated = {"published_at"} /\ dated["published_at"] = TRUE
  OBVIOUS
<1> HIDE DEF dated
<1>2. /\ DOMAIN both = DOMAIN w \cup DOMAIN dated
      /\ \A c \in DOMAIN dated : both[c] = dated[c]
      /\ \A c \in DOMAIN w \ DOMAIN dated : both[c] = w[c]
  BY ThenDomain
<1> HIDE DEF both
<1>3. IsWrite(both)
  BY <1>1, <1>2, ColumnsListed DEF IsWrite
<1> QED BY <1>3 DEF both, dated

LEMMA CreateKeeps ==
    ASSUME RowInvariant, NEW u \in Owners, NEW status \in MaterialStatus,
           NEW visibility \in MaterialVisibility, NEW t \in Texts,
           Create(u, status, visibility, t)
    PROVE  RowInvariant'
<1>1. IsRow(NewRow(status, visibility, t)) /\ IsHistory(versions)
  BY NewRowTyped DEF RowInvariant
<1>2. /\ row' = NewRow(status, visibility, t) /\ versions' = AddVersion(versions, row')
      /\ life = "absent" /\ life' = "live" /\ author' = u /\ edit' = edit
  BY DEF Create
<1>3. IsRow(row') /\ IsHistory(versions') /\ versions'.latest = Snapshot(row')
  BY <1>1, <1>2, AddVersionTyped
<1>4. IsRow(row)' /\ IsHistory(versions)' /\ Snapshot(row)' = Snapshot(row')
  BY <1>3 DEF IsRow, IsHistory, Snapshot
<1> QED BY <1>2, <1>3, <1>4 DEF RowInvariant

LEMMA UpdateKeeps ==
    ASSUME RowInvariant, NEW r \in Editing, NEW u \in Owners, NEW patch \in Patches,
           Update(r, u, patch)
    PROVE  RowInvariant'
<1> DEFINE seen == edit[r].row
           changed == Net(seen, patch)
           publishes == "status" \in DOMAIN changed /\ patch.status = "published"
           assigned == IF publishes THEN Then(changed, [published_at |-> TRUE]) ELSE changed
           w == Net(seen, assigned)
           versioned == DOMAIN changed \cap VersionedFields # {}
<1>1. /\ "visibility" \in DOMAIN changed /\ patch.visibility = "public" => u \in Superusers
      /\ Write(r, u, w, versioned)
      /\ edit[r].stage = "loaded"
  BY DEF Update
<1>2. IsWrite(patch) /\ "published_at" \notin DOMAIN patch
  BY PatchAssumption DEF IsWrite
<1>3. IsWrite(changed) /\ IsWrite(assigned) /\ IsWrite(w)
  BY <1>2, NetTyped, DatedTyped
<1>4. IsRow(seen) /\ IsRow(row)
  BY <1>1 DEF RowInvariant
<1>5. /\ DOMAIN changed \subseteq DOMAIN patch
      /\ \A c \in DOMAIN changed : changed[c] = patch[c] /\ patch[c] # seen[c]
  BY NetDomain
<1>6. /\ DOMAIN w \subseteq DOMAIN assigned
      /\ \A c \in DOMAIN w : w[c] = assigned[c] /\ assigned[c] # seen[c]
  BY NetDomain
<1>7. /\ DOMAIN assigned \subseteq DOMAIN changed \cup {"published_at"}
      /\ \A c \in DOMAIN assigned \ {"published_at"} : assigned[c] = changed[c]
      /\ "published_at" \in DOMAIN assigned <=> publishes
      /\ publishes => assigned["published_at"] = TRUE
  <2> DEFINE dated == [published_at |-> TRUE]
  <2>1. DOMAIN dated = {"published_at"} /\ dated["published_at"] = TRUE
    OBVIOUS
  <2>2. /\ DOMAIN Then(changed, dated) = DOMAIN changed \cup {"published_at"}
        /\ Then(changed, dated)["published_at"] = TRUE
        /\ \A c \in DOMAIN changed \ {"published_at"} : Then(changed, dated)[c] = changed[c]
    BY <2>1, ThenDomain
  <2>3. "published_at" \notin DOMAIN changed
    BY <1>2, <1>5
  <2> HIDE DEF changed, dated
  <2>4. CASE publishes
    BY <2>2, <2>3, <2>4 DEF dated
  <2>5. CASE ~publishes
    BY <2>3, <2>5
  <2> QED BY <2>4, <2>5
<1> HIDE DEF seen, changed, assigned, w
<1>8. versioned \/ DOMAIN w \cap VersionedFields = {}
  BY <1>6, <1>7 DEF VersionedFields
<1>9. "visibility" \in DOMAIN w =>
        /\ w["visibility"] # seen["visibility"]
        /\ w["visibility"] = "public" => u \in Superusers
  BY <1>1, <1>5, <1>6, <1>7
<1>10. ASSUME Undated(Apply(row, w)), ~Stale(seen) PROVE Undated(row)
  <2>1. {"status", "published_at"} \subseteq DOMAIN row
    BY <1>4, ColumnsListed DEF IsRow
  <2>2. /\ Apply(row, w).status = IF "status" \in DOMAIN w THEN w["status"] ELSE row.status
        /\ Apply(row, w).published_at =
              IF "published_at" \in DOMAIN w THEN w["published_at"] ELSE row.published_at
    BY <2>1, ApplyValues
  <2>3. seen.status = row.status /\ seen.published_at = row.published_at
    BY <1>10 DEF Stale
  <2>4. w = Net(seen, assigned)
    BY DEF w
  <2>5. CASE publishes
    <3>1. "published_at" \notin DOMAIN w => seen["published_at"] = TRUE
      <4>1. DOMAIN w = {c \in DOMAIN assigned : assigned[c] # seen[c]}
        BY <2>4, NetIs
      <4> QED BY <4>1, <1>7, <2>5
    <3>2. "published_at" \in DOMAIN w => w["published_at"] = TRUE
      BY <1>6, <1>7, <2>5
    <3> QED BY <1>10, <2>2, <2>3, <3>1, <3>2 DEF Undated
  <2>6. CASE ~publishes
    <3>1. "published_at" \notin DOMAIN w
      BY <1>6, <1>7, <2>6
    <3>2. "status" \in DOMAIN w => w["status"] # "published"
      BY <1>5, <1>6, <1>7, <2>6
    <3> QED BY <1>10, <2>2, <3>1, <3>2 DEF Undated
  <2> QED BY <2>5, <2>6
<1> QED BY <1>1, <1>3, <1>8, <1>9, <1>10, WriteKeeps DEF seen

(* The statuses that a handler sets by itself.                             *)
LEMMA PublishKeeps ==
    ASSUME RowInvariant, NEW r \in Editing, NEW u \in Owners, Publish(r, u)
    PROVE  RowInvariant'
<1> DEFINE seen == edit[r].row
           status == [status |-> "published"]
           dated == [published_at |-> TRUE]
           w == Then(Net(seen, status), dated)
<1>1. Write(r, u, w, FALSE) /\ edit[r].stage = "loaded"
  BY DEF Publish
<1>2. IsWrite(status)
  BY ColumnsListed DEF IsWrite, MaterialStatus
<1>3. IsWrite(w)
  BY <1>2, NetTyped, DatedTyped
<1>4. DOMAIN w \subseteq {"status", "published_at"} /\ "published_at" \in DOMAIN w
      /\ w["published_at"] = TRUE
  <2>1. DOMAIN status = {"status"} /\ DOMAIN dated = {"published_at"} /\ dated["published_at"] = TRUE
    OBVIOUS
  <2>2. DOMAIN Net(seen, status) \subseteq {"status"}
    BY <2>1, NetDomain
  <2> HIDE DEF seen, status, dated
  <2>3. /\ DOMAIN w = DOMAIN Net(seen, status) \cup DOMAIN dated
        /\ \A c \in DOMAIN dated : w[c] = dated[c]
    BY ThenDomain
  <2> QED BY <2>1, <2>2, <2>3
<1>5. IsRow(row)
  BY DEF RowInvariant
<1> HIDE DEF w
<1>6. ~Undated(Apply(row, w))
  BY <1>4, <1>5, ColumnsListed, ApplyValues DEF Undated, IsRow
<1>7. DOMAIN w \cap VersionedFields = {}
  BY <1>4 DEF VersionedFields
<1> QED BY <1>1, <1>3, <1>4, <1>6, <1>7, WriteKeeps

LEMMA WithdrawKeeps ==
    ASSUME RowInvariant, NEW r \in Editing, NEW u \in Owners, NEW x, IsWrite(x),
           edit[r].stage = "loaded",
           DOMAIN x \subseteq {"status", "published_at"}, "status" \in DOMAIN x,
           x["status"] # "published",
           Write(r, u, Net(edit[r].row, x), FALSE)
    PROVE  RowInvariant'
<1> DEFINE seen == edit[r].row
           w == Net(seen, x)
<1>1. IsWrite(w)
  BY NetTyped
<1>2. DOMAIN w = {c \in DOMAIN x : x[c] # seen[c]} /\ \A c \in DOMAIN w : w[c] = x[c]
  BY NetIs
<1>3. IsRow(row)
  BY DEF RowInvariant
<1> HIDE DEF w, seen
<1>4. Undated(Apply(row, w)) => Stale(seen)
  BY <1>2, <1>3, ColumnsListed, ApplyValues DEF Undated, Stale, IsRow
<1>5. DOMAIN w \cap VersionedFields = {}
  BY <1>2 DEF VersionedFields
<1> QED BY <1>1, <1>2, <1>4, <1>5, WriteKeeps DEF w, seen

LEMMA RowStep == RowInvariant /\ [MNext]_mvars => RowInvariant'
<1> SUFFICES ASSUME RowInvariant, [MNext]_mvars PROVE RowInvariant'
  OBVIOUS
<1>1. ASSUME NEW u \in Owners, NEW status \in MaterialStatus, NEW visibility \in MaterialVisibility,
             NEW t \in Texts, Create(u, status, visibility, t)
      PROVE  RowInvariant'
  BY <1>1, CreateKeeps
<1>2. ASSUME NEW r \in Editing, Load(r) PROVE RowInvariant'
  <2> DEFINE e == [stage |-> "loaded", row |-> row]
  <2>1. Pend(r, e) /\ e.stage = "loaded" /\ e.row = row
    BY <1>2 DEF Load
  <2>2. IsRow(row)
    BY DEF RowInvariant
  <2> HIDE DEF e
  <2> QED BY <2>1, <2>2, PendKeeps
<1>3. ASSUME NEW r \in Editing, Abandon(r) PROVE RowInvariant'
  BY <1>3, PendKeeps DEF Abandon, Idle
<1>4. ASSUME NEW r \in Editing, Commit(r) PROVE RowInvariant'
  <2>1. /\ life' = edit[r].life /\ row' = edit[r].row /\ versions' = edit[r].versions
        /\ edit' = [edit EXCEPT ![r] = Idle] /\ author' = author
        /\ edit[r].stage = "flushed"
    BY <1>4 DEF Commit
  <2>2. Prepared(edit[r]) /\ \A s \in Editing : edit[s].stage = "flushed" => s = r
    BY <2>1 DEF RowInvariant
  <2>3. /\ IsRow(row') /\ IsHistory(versions') /\ life' \in {"live", "deleted"}
        /\ life' = "live" => versions'.latest = Snapshot(row')
    BY <2>1, <2>2 DEF Prepared
  <2>4. IsRow(row)' /\ IsHistory(versions)' /\ Snapshot(row)' = Snapshot(row')
    BY <2>3 DEF IsRow, IsHistory, Snapshot
  <2>5. \A s \in Editing : edit'[s].stage # "flushed"
    BY <2>1, <2>2 DEF RowInvariant, Idle
  <2>6. \A s \in Editing :
          /\ edit'[s].stage \in {"idle", "loaded"}
          /\ edit'[s].stage = "loaded" => IsRow(edit'[s].row)
    BY <2>1, <2>2 DEF RowInvariant, Idle
  <2>7. DOMAIN edit' = Editing /\ author' \in Owners
    BY <2>1 DEF RowInvariant
  <2>8. life' = "live" => versions'.latest = Snapshot(row)'
    BY <2>3, <2>4
  <2>9. \A s \in Editing :
          /\ edit'[s].stage \in {"idle", "loaded", "flushed"}
          /\ edit'[s].stage = "loaded" => IsRow(edit'[s].row)
          /\ edit'[s].stage # "flushed"
    BY <2>5, <2>6
  <2>10. life' \in {"absent", "live", "deleted"}
    BY <2>3
  <2> QED BY <2>4, <2>7, <2>8, <2>9, <2>10 DEF RowInvariant
<1>5. ASSUME NEW r \in Editing, NEW u \in Owners, Handle(r, u) PROVE RowInvariant'
  <2>1. ASSUME NEW patch \in Patches, Update(r, u, patch) PROVE RowInvariant'
    BY <2>1, UpdateKeeps
  <2>2. CASE Publish(r, u)
    BY <2>2, PublishKeeps
  <2>3. CASE Archive(r, u)
    <3> DEFINE x == [status |-> "archived"]
    <3>1. edit[r].stage = "loaded" /\ Write(r, u, Net(edit[r].row, x), FALSE)
      BY <2>3 DEF Archive
    <3>2. DOMAIN x = {"status"} /\ x["status"] = "archived"
      OBVIOUS
    <3>3. IsWrite(x)
      BY <3>2, ColumnsListed DEF IsWrite, MaterialStatus
    <3> HIDE DEF x
    <3> QED BY <3>1, <3>2, <3>3, WithdrawKeeps
  <2>4. CASE Restore(r, u)
    <3> DEFINE x == [status |-> "draft", published_at |-> FALSE]
    <3>1. edit[r].stage = "loaded" /\ Write(r, u, Net(edit[r].row, x), FALSE)
      BY <2>4 DEF Restore
    <3>2. DOMAIN x = {"status", "published_at"} /\ x["status"] = "draft" /\ x["published_at"] = FALSE
      OBVIOUS
    <3>3. IsWrite(x)
      BY <3>2, ColumnsListed DEF IsWrite, MaterialStatus
    <3> HIDE DEF x
    <3> QED BY <3>1, <3>2, <3>3, WithdrawKeeps
  <2>5. CASE Delete(r, u)
    <3> DEFINE stale == Stale(edit[r].row)
               found == edit[r].row.visibility
               e == [stage |-> "flushed", by |-> u, found |-> found, life |-> "deleted", row |-> NoRow,
                     versions |-> NoVersions, stale |-> stale]
    <3>1. life = "live" /\ ~Locked /\ Pend(r, e)
      BY <2>5, Zenon DEF Delete, Flushed
    <3>2. e.stage = "flushed" /\ e.life = "deleted" /\ e.row = NoRow /\ e.versions = NoVersions
      BY DEF e
    <3> HIDE DEF e
    <3>3. Prepared(e)
      BY <3>2, NoRowTyped, NoVersionsTyped DEF Prepared, Undated
    <3> QED BY <3>1, <3>2, <3>3, PendKeeps
  <2> QED BY <1>5, <2>1, <2>2, <2>3, <2>4, <2>5 DEF Handle
<1>6. CASE UNCHANGED mvars
  BY <1>6 DEF mvars, RowInvariant, IsRow, IsHistory, Snapshot, Prepared, Undated
<1> QED BY <1>1, <1>2, <1>3, <1>4, <1>5, <1>6 DEF MNext

LEMMA RowStart == MInit => RowInvariant
BY NoRowTyped, NoVersionsTyped DEF MInit, RowInvariant, Idle

LEMMA RowKept == MSpec => []RowInvariant
BY RowStart, RowStep, PTL DEF MSpec

(* Materials: the numbers of the versions have no gap, and the latest one  *)
(* is the text that is shown, however edits overlap.                       *)
THEOREM VersionsFollow == MSpec => []VersionsFollowText
<1>1. RowInvariant => VersionsFollowText
  <2> SUFFICES ASSUME RowInvariant, life = "live" PROVE
               /\ versions.numbers = 1..Cardinality(versions.numbers)
               /\ versions.latest = Snapshot(row)
    BY DEF VersionsFollowText
  <2>1. PICK n \in Nat : versions.numbers = 1..n
    BY DEF RowInvariant, IsHistory
  <2>2. Cardinality(1..n) = n
    <3>1. Cardinality(1..n) = IF 1 > n THEN 0 ELSE n - 1 + 1
      BY FS_Interval
    <3> QED BY <3>1
  <2> QED BY <2>1, <2>2 DEF RowInvariant
<1> QED BY <1>1, RowKept, PTL

(* Only a commit changes a row that is there.                              *)
LEMMA RowChanges ==
    ASSUME MNext, life # "absent"
    PROVE  row' = row \/ \E r \in Editing : edit[r].stage = "flushed" /\ row' = edit[r].row
BY DEF MNext, Handle, Create, Load, Commit, Abandon, Update, Publish, Archive, Restore, Delete,
       Write, Pend, material

(* Materials: a new material is public only with a superuser for its       *)
(* author, and afterwards its visibility changes only by the commit of a   *)
(* request that has read the other value - a superuser's, if it becomes    *)
(* public.                                                                 *)
THEOREM VisibilityKept == MSpec => PublicBySuperuser
<1>1. ASSUME RowInvariant, MNext PROVE VisibilityGuarded
  <2>1. ASSUME life = "absent", row'.visibility = "public", life' = "live"
        PROVE  author' \in Superusers
    <3>1. PICK u \in Owners, status \in MaterialStatus, visibility \in MaterialVisibility, t \in Texts :
            Create(u, status, visibility, t)
      BY <1>1, <2>1 DEF RowInvariant, MNext, Handle, Load, Commit, Abandon, Update, Publish, Archive,
         Restore, Delete, Write, Pend, material
    <3>2. row'.visibility = visibility
      BY <3>1 DEF Create, NewRow
    <3> QED BY <2>1, <3>1, <3>2 DEF Create
  <2>2. ASSUME life = "live", life' = "live", row'.visibility # row.visibility
        PROVE  \E r \in Editing :
                 /\ CommitsEdit(r)
                 /\ edit[r].found # row'.visibility
                 /\ row'.visibility = "public" => edit[r].by \in Superusers
    <3>1. PICK r \in Editing : Commit(r)
      BY <1>1, <2>2 DEF MNext, Handle, Create, Load, Abandon, Update, Publish, Archive, Restore,
         Delete, Write, Pend, material
    <3>2. Prepared(edit[r]) /\ edit[r].life = "live" /\ row' = edit[r].row /\ CommitsEdit(r)
      BY <1>1, <2>2, <3>1 DEF Commit, CommitsEdit, RowInvariant
    <3> QED BY <2>2, <3>2 DEF Prepared
  <2> QED BY <2>1, <2>2 DEF VisibilityGuarded
<1>2. RowInvariant /\ [MNext]_mvars => [VisibilityGuarded]_mvars
  BY <1>1
<1> QED BY <1>2, RowKept, PTL DEF MSpec, PublicBySuperuser

(* Materials: a material is published without a date only by a request     *)
(* that has worked on a row somebody else has changed since.               *)
THEOREM PublicationIsDated == MSpec => PublishedHasDate
<1>1. ASSUME RowInvariant, MNext, row'.status = "published", ~row'.published_at
      PROVE  \/ row.status = "published" /\ ~row.published_at
             \/ \E r \in Editing : edit[r].stage = "flushed" /\ edit[r].stale
  <2>1. CASE life # "absent"
    BY <1>1, <2>1, RowChanges DEF RowInvariant, Prepared, Undated
  <2>2. CASE life = "absent"
    <3>1. \A r \in Editing : edit[r].stage # "flushed"
      BY <1>1, <2>2 DEF RowInvariant
    <3>2. ASSUME NEW u \in Owners, NEW status \in MaterialStatus,
                 NEW visibility \in MaterialVisibility, NEW t \in Texts,
                 Create(u, status, visibility, t)
          PROVE  FALSE
      BY <1>1, <3>2 DEF Create, NewRow
    <3>3. row' = row
      BY <1>1, <2>2, <3>1, <3>2 DEF MNext, Handle, Load, Commit, Abandon, Update, Publish, Archive,
         Restore, Delete, Write, Pend, material
    <3> QED BY <1>1, <3>3
  <2> QED BY <2>1, <2>2
<1>2. RowInvariant /\ [MNext]_mvars =>
        [row'.status = "published" /\ ~row'.published_at =>
          \/ row.status = "published" /\ ~row.published_at
          \/ \E r \in Editing : edit[r].stage = "flushed" /\ edit[r].stale]_mvars
  BY <1>1 DEF mvars
<1> QED BY <1>2, RowKept, PTL DEF MSpec, PublishedHasDate

(* Materials: what a list, a search or the popular materials offer a       *)
(* reader, `get_material` shows him.                                       *)
THEOREM FoundCanBeOpened == MSpec => []FoundIsVisible
<1>1. FoundIsVisible
  BY DEF FoundIsVisible, Found, InList, InSearch, Popular, FoundPublished, FoundByStatus, Visible,
         Readers
<1> QED BY <1>1, PTL
=============================================================================
