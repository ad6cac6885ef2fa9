SPECIFICATION OSpec
CONSTANTS
    author1 = author1
    admin = admin
    founder = founder
    t1 = t1
    t2 = t2
    Owners = {author1, admin}
    Superusers = {admin}
    Texts = {t1, t2}
    Patches <- MCPatches
    MaxVersions = 3
    Editing = {r1, r2}
    Keys = {k1, k2, k3}
    MaxAttachments = 1
    Transfers = {r1, r2}
    Editors = {author1, admin}
    Admins = {admin}
    Trees = {tree1, tree2}
    Visits = {r1, r2}
    MaxRuns = 2
    Founder = founder
    Users = {founder, u2, u3}
    MaxUsers = 1
    Desks = {r1, r2}
SYMMETRY Alike
INVARIANTS
    VersionsFollowText
    FoundIsVisible
    RowHasFile
    FileHasRow
    UploadOverrun
    RunsAreCounted
    ListedIsReadable
    LimitOverrun
PROPERTIES
    PublicBySuperuser
    PublishedHasDate
    ChecklistPublicBySuperuser
    OnlyActivationLetsIn
\* Every request may be the last one.
CHECK_DEADLOCK FALSE
