------------------------------ MODULE Materials ------------------------------
(***************************************************************************)
(* One material of the knowledge base, its history of versions, and the    *)
(* requests that work on it: services/material_service.py behind           *)
(* api/v1/endpoints/materials.py.                                          *)
(*                                                                         *)
(* A request is one transaction in three steps:                            *)
(*                                                                         *)
(*   Load            reads the material's row;                             *)
(*   Update, ...     checks its guards against what it has read and sends  *)
(*                   one UPDATE or DELETE.  It waits while another         *)
(*                   transaction has changed the row and not committed,    *)
(*                   and then changes the row as that one has left it.     *)
(*                   `refresh` reads the row again, and the new version,   *)
(*                   if there is one, is a snapshot of what it has read;   *)
(*   Commit          makes all of it visible, and lets the next one go on. *)
(*                                                                         *)
(* Left out: categories, summaries, the details of news and regulations    *)
(* and the counter of views (no guard reads them), audit rows, and the     *)
(* organization of the editors (they are active members of the material's).*)
(* Attachments are in MaterialFiles.                                       *)
(***************************************************************************)
EXTENDS UnitOfWork, Naturals, FiniteSets

CONSTANTS
    Owners,         \* members of the organization with the role ORG_OWNER
    Superusers,     \* superusers of the application
    Texts,          \* what a title or a body may say
    Patches,        \* what a client may send to be changed
    MaxVersions,    \* bound: no edit of a text after so many versions
    Editing         \* slots for requests under way at the same time

ASSUME MaterialAssumption == MaxVersions \in Nat \ {0} /\ Texts # {}

VARIABLES
    life,       \* has the row been inserted, has it been deleted?
    row,        \* the columns of materials
    author,     \* materials.author_id, which nothing changes
    versions,   \* material_versions: the numbers, and the latest snapshot
    edit        \* what each request is doing

mvars == <<life, row, author, versions, edit>>
material == <<life, row, author, versions>>

-----------------------------------------------------------------------------
(* The rows.                                                               *)

MaterialStatus == {"draft", "published", "archived"}
MaterialVisibility == {"org", "public"}

(* The fields a snapshot holds, of which two stand for all.                *)
VersionedFields == {"title", "content"}

ColumnType ==
    [status       |-> MaterialStatus,
     visibility   |-> MaterialVisibility,
     published_at |-> BOOLEAN,      \* is there a date?
     title        |-> Texts,
     content      |-> Texts]

Columns == DOMAIN ColumnType

(* No schema of a request has a date of publication.                       *)
ASSUME PatchAssumption ==
    \A patch \in Patches :
        /\ DOMAIN patch \subseteq Columns \ {"published_at"}
        /\ \A c \in DOMAIN patch : patch[c] \in ColumnType[c]

IsRow(x) == DOMAIN x = Columns /\ \A c \in Columns : x[c] \in ColumnType[c]

Snapshot(x) == [f \in VersionedFields |-> x[f]]

NewRow(status, visibility, text) ==
    [status |-> status, visibility |-> visibility,
     published_at |-> status = "published",
     title |-> text, content |-> text]

NoRow == NewRow("draft", "org", CHOOSE t \in Texts : TRUE)

NoVersions == [numbers |-> {}, latest |-> Snapshot(NoRow)]

(* `next_version_no`: one more than the largest number there is.           *)
NextVersionNo(history) ==
    IF history.numbers = {} THEN 1
    ELSE (CHOOSE n \in history.numbers : \A k \in history.numbers : k <= n) + 1

AddVersion(history, x) ==
    [numbers |-> history.numbers \cup {NextVersionNo(history)}, latest |-> Snapshot(x)]

-----------------------------------------------------------------------------
(* Requests.                                                               *)

Idle == [stage |-> "idle"]

(* Somebody has changed the row and holds its lock until the commit.       *)
Locked == \E r \in Editing : edit[r].stage = "flushed"

MayEdit(u) == u = author \/ u \in Superusers

(* The publication is not as it was read.                                  *)
Stale(seen) == seen.status # row.status \/ seen.published_at # row.published_at

(* A transaction that has sent its UPDATE: what it will leave behind; and, *)
(* for the properties, whose it is and what it has read.                   *)
Flushed(u, seen, left, x, history) ==
    [stage |-> "flushed", by |-> u, found |-> seen.visibility, life |-> left,
     row |-> x, versions |-> history, stale |-> Stale(seen)]

Pend(r, pending) ==
    /\ edit' = [edit EXCEPT ![r] = pending]
    /\ UNCHANGED material

(* Mutant: creation does not ask who may make a material public.           *)
CreateUnasked(u, status, visibility, text) ==
    /\ life = "absent"
    /\ u \in Owners
    /\ life' = "live"
    /\ author' = u
    /\ row' = NewRow(status, visibility, text)
    /\ versions' = AddVersion(versions, row')
    /\ UNCHANGED edit

(* The five `create_...` methods.  Nobody else knows the new row.          *)
Create(u, status, visibility, text) ==
    /\ life = "absent"
    /\ u \in Owners
    /\ visibility = "public" => u \in Superusers
    /\ life' = "live"
    /\ author' = u
    /\ row' = NewRow(status, visibility, text)
    /\ versions' = AddVersion(versions, row')
    /\ UNCHANGED edit

Load(r) ==
    /\ edit[r] = Idle
    /\ life = "live"
    /\ Pend(r, [stage |-> "loaded", row |-> row])

(* Mutant: the version is a snapshot of the object without the refresh.    *)
WriteUnrefreshed(r, u, writes, versioned) ==
    /\ life = "live"
    /\ ~Locked
    /\ DOMAIN writes # {}
    /\ LET left == Apply(row, writes)
       IN  Pend(r, Flushed(u, edit[r].row, "live", left,
                           IF versioned THEN AddVersion(versions, Apply(edit[r].row, writes))
                                        ELSE versions))

(* The UPDATE of a request, the refresh and the new version.  It fails if  *)
(* the row has been deleted, and there is none if there is nothing to      *)
(* write: both end the request without effect, as Abandon does.            *)
Write(r, u, writes, versioned) ==
    /\ life = "live"
    /\ ~Locked
    /\ DOMAIN writes # {}
    /\ LET left == Apply(row, writes)
       IN  Pend(r, Flushed(u, edit[r].row, "live", left,
                           IF versioned THEN AddVersion(versions, left) ELSE versions))

(* Mutant: an update that publishes does not look at the date.             *)
UpdateUndated(r, u, patch) ==
    /\ edit[r].stage = "loaded"
    /\ MayEdit(u)
    /\ LET seen == edit[r].row
           changed == Net(seen, patch)
       IN  /\ "visibility" \in DOMAIN changed /\ patch.visibility = "public" => u \in Superusers
           /\ Write(r, u, changed, DOMAIN changed \cap VersionedFields # {})

(* Mutant: everything the client has sent is written, changed or not, and  *)
(* the guard still compares it with what has been read.                    *)
UpdateWhole(r, u, patch) ==
    /\ edit[r].stage = "loaded"
    /\ MayEdit(u)
    /\ LET seen == edit[r].row
           dated == [published_at |-> TRUE]
           assigned == IF "status" \in DOMAIN patch /\ patch.status = "published"
                       THEN Then(patch, dated) ELSE patch
       IN  /\ "visibility" \in DOMAIN patch =>
                (patch.visibility = "public" /\ seen.visibility # "public" => u \in Superusers)
           /\ Write(r, u, assigned, DOMAIN patch \cap VersionedFields # {})

(* `update_material`: the fields that differ from what has been read; a    *)
(* publication keeps the date that has been read, or gets one.             *)
Update(r, u, patch) ==
    /\ edit[r].stage = "loaded"
    /\ MayEdit(u)
    /\ LET seen == edit[r].row
           changed == Net(seen, patch)
           dated == [published_at |-> TRUE]
           assigned == IF "status" \in DOMAIN changed /\ patch.status = "published"
                       THEN Then(changed, dated) ELSE changed
       IN  /\ "visibility" \in DOMAIN changed /\ patch.visibility = "public" => u \in Superusers
           /\ Write(r, u, Net(seen, assigned), DOMAIN changed \cap VersionedFields # {})

(* `publish`, by any owner and from any status.  Now is no date that has   *)
(* been read, so the date is always written.                               *)
Publish(r, u) ==
    /\ edit[r].stage = "loaded"
    /\ u \in Owners
    /\ Write(r, u, Then(Net(edit[r].row, [status |-> "published"]), [published_at |-> TRUE]), FALSE)

(* `archive_material`: the date stays.                                     *)
Archive(r, u) ==
    /\ edit[r].stage = "loaded"
    /\ MayEdit(u)
    /\ Write(r, u, Net(edit[r].row, [status |-> "archived"]), FALSE)

(* `restore_material`, from any status.                                    *)
Restore(r, u) ==
    /\ edit[r].stage = "loaded"
    /\ MayEdit(u)
    /\ Write(r, u, Net(edit[r].row, [status |-> "draft", published_at |-> FALSE]), FALSE)

(* `delete_material`; the cascade takes the versions along.                *)
Delete(r, u) ==
    /\ edit[r].stage = "loaded"
    /\ MayEdit(u)
    /\ life = "live"
    /\ ~Locked
    /\ Pend(r, Flushed(u, edit[r].row, "deleted", NoRow, NoVersions))

Commit(r) ==
    /\ edit[r].stage = "flushed"
    /\ life' = edit[r].life
    /\ row' = edit[r].row
    /\ versions' = edit[r].versions
    /\ edit' = [edit EXCEPT ![r] = Idle]
    /\ UNCHANGED author

(* A refused guard, an error, a crash, or nothing to do.                   *)
Abandon(r) ==
    /\ edit[r] # Idle
    /\ Pend(r, Idle)

-----------------------------------------------------------------------------
(* Reading.  A reader is a user as a member of an organization.            *)

Readers == [user : Owners, own : BOOLEAN]

(* `_ensure_visible`, and the same guard in `get_material`.                *)
Visible(reader) ==
    IF row.status = "published"
    THEN reader.own \/ row.visibility = "public"
    ELSE reader.user \in Superusers \/ reader.user = author

(* `get_published`.                                                        *)
FoundPublished(reader) ==
    /\ row.status = "published"
    /\ reader.own \/ row.visibility = "public"

(* Mutant: the author is asked for by nobody.                              *)
FoundByAnyone(reader, status) ==
    /\ row.status = status
    /\ reader.own

(* `list_by_status`, with the author that get_materials passes on: a       *)
(* superuser gets what all authors have written.                           *)
FoundByStatus(reader, status) ==
    /\ row.status = status
    /\ reader.own
    /\ reader.user \in Superusers \/ reader.user = author

(* `get_materials`, for a status or without one.                           *)
InList(reader, status) ==
    IF status = "published" THEN FoundPublished(reader) ELSE FoundByStatus(reader, status)

(* `search`, of a text that occurs in the material; it has its own query,  *)
(* and its own way of leaving the author out.                              *)
InSearch(reader, status) ==
    LET anybody == reader.user \in Superusers \/ status = "published"
    IN  /\ row.status = status
        /\ reader.own \/ (status = "published" /\ row.visibility = "public")
        /\ anybody \/ reader.user = author

(* `get_popular`, if it has been viewed often enough.                      *)
Popular(reader) == row.status = "published" /\ (reader.own \/ row.visibility = "public")

Found(reader, status) ==
    InList(reader, status) \/ InSearch(reader, status) \/ Popular(reader)

-----------------------------------------------------------------------------
MInit ==
    /\ life = "absent"
    /\ row = NoRow
    /\ author \in Owners
    /\ versions = NoVersions
    /\ edit = [r \in Editing |-> Idle]

RoomForVersions == Cardinality(versions.numbers) < MaxVersions

Handle(r, u) ==
    \/ \E patch \in Patches :
        /\ DOMAIN patch \cap VersionedFields # {} => RoomForVersions
        /\ Update(r, u, patch)
    \/ Publish(r, u) \/ Archive(r, u) \/ Restore(r, u) \/ Delete(r, u)

MNext ==
    \/ \E u \in Owners, status \in MaterialStatus, visibility \in MaterialVisibility, t \in Texts :
        Create(u, status, visibility, t)
    \/ \E r \in Editing :
        \/ Load(r) \/ Commit(r) \/ Abandon(r)
        \/ \E u \in Owners : Handle(r, u)

MSpec == MInit /\ [][MNext]_mvars

-----------------------------------------------------------------------------
MTypeOK ==
    /\ life \in {"absent", "live", "deleted"}
    /\ IsRow(row)
    /\ author \in Owners
    /\ versions.numbers \subseteq Nat
    /\ versions.latest \in [VersionedFields -> Texts]
    /\ \A r \in Editing : edit[r].stage \in {"idle", "loaded", "flushed"}

(* The history has no gap and no double number, and its latest version is  *)
(* the text that is shown, also if several editors save different fields   *)
(* of the text they have all read.                                         *)
VersionsFollowText ==
    life = "live" =>
        /\ versions.numbers = 1..Cardinality(versions.numbers)
        /\ versions.latest = Snapshot(row)

(* The request whose UPDATE a step makes visible, if it does.              *)
CommitsEdit(r) == edit[r].stage = "flushed" /\ edit'[r] = Idle

(* The column `visibility` of a new material is public only if its author  *)
(* is a superuser (`_ensure_public_allowed`).  Afterwards the column       *)
(* changes only with the commit of a request that has read the other       *)
(* value, and becomes public only with a superuser's (`update_material`):  *)
(* an author who repeats what he has read does not undo, in either         *)
(* direction, what a superuser has committed meanwhile.  (This is about    *)
(* the column; every owner may publish a draft a superuser made public.)   *)
VisibilityGuarded ==
    /\ life = "absent" /\ life' = "live" /\ row'.visibility = "public"
           => author' \in Superusers
    /\ life = "live" /\ life' = "live" /\ row'.visibility # row.visibility
           => \E r \in Editing :
                 /\ CommitsEdit(r)
                 /\ edit[r].found # row'.visibility
                 /\ row'.visibility = "public" => edit[r].by \in Superusers

PublicBySuperuser == [][VisibilityGuarded]_mvars

(* A published material has a date.  It loses the date only to a request   *)
(* that worked on a row somebody else has changed since (a restoration     *)
(* that clears the date a publication relies on).                          *)
PublishedHasDate ==
    [][ row'.status = "published" /\ ~row'.published_at =>
          \/ row.status = "published" /\ ~row.published_at
          \/ \E r \in Editing : edit[r].stage = "flushed" /\ edit[r].stale ]_mvars

(* Whatever a list, a search or the list of popular materials offers       *)
(* somebody, he can open.                                                  *)
FoundIsVisible ==
    life = "live" =>
        \A reader \in Readers, status \in MaterialStatus :
            Found(reader, status) => Visible(reader)
=============================================================================
