------------------------------ MODULE Members ------------------------------
(***************************************************************************)
(* The members of one organization: services/user_service.py and           *)
(* db/repositories/user_repository.py.                                     *)
(*                                                                         *)
(* Two rows say whether a member can work: that of the user and that of    *)
(* his membership.  `deactivate_user` and `activate_user` read and write   *)
(* first the membership and then the user, `update_user` reads and writes  *)
(* the user.  `create_user` counts the active memberships before it        *)
(* inserts another.                                                        *)
(*                                                                         *)
(* Who asks is left out, as a superuser may ask for all of it, and so are  *)
(* names and roles: nothing here looks at them.  Passwords and sessions    *)
(* are in RefreshSessions, emails in Registration.                         *)
(***************************************************************************)
EXTENDS UnitOfWork, Integers, FiniteSets

CONSTANTS
    Users,          \* those who may become members
    Founder,        \* the owner that `register` has inserted
    MaxUsers,       \* tariffs.max_users
    Desks           \* slots for requests under way at the same time

ASSUME MemberAssumption ==
    /\ IsFiniteSet(Users) /\ Founder \in Users
    /\ MaxUsers \in Nat \ {0}
    /\ IsFiniteSet(Desks) /\ Desks # {}

VARIABLES
    user,           \* per user: the row of users, or NotThere
    membership,     \* per user: the row of organization_users, or NotThere
    desk,           \* what each request is doing
    restored        \* history: those whose membership was switched on again

mbvars == <<user, membership, desk, restored>>

-----------------------------------------------------------------------------
NotThere == [is_active |-> FALSE, there |-> FALSE]
Row(is_active) == [is_active |-> is_active, there |-> TRUE]

Exists(u) == user[u].there

(* `get_users_count`.                                                      *)
Active == {u \in Users : membership[u].is_active}

(* What `_resolve_context` demands of whoever makes a request.             *)
MayWork(u) == user[u].is_active /\ membership[u].is_active

NoTask == [stage |-> "idle"]

At(r, next) ==
    /\ desk' = [desk EXCEPT ![r] = next]
    /\ UNCHANGED <<user, membership, restored>>

(* Mutant: a member more than the tariff allows.                           *)
BelowOrAtLimit(count) == count <= MaxUsers

BelowLimit(count) == count < MaxUsers

(* `create_user`: the email is free and the limit is not reached.  The     *)
(* password is hashed ...                                                  *)
CountMembers(r, u) ==
    /\ desk[r] = NoTask
    /\ ~Exists(u)
    /\ BelowLimit(Cardinality(Active))
    /\ At(r, [stage |-> "counted", who |-> u])

(* ... and user and membership are inserted.                               *)
CreateUser(r) ==
    LET u == desk[r].who
    IN  /\ desk[r].stage = "counted"
        /\ ~Exists(u)
        /\ user' = [user EXCEPT ![u] = Row(TRUE)]
        /\ membership' = [membership EXCEPT ![u] = Row(TRUE)]
        /\ desk' = [desk EXCEPT ![r] = NoTask]
        /\ UNCHANGED restored

(* `deactivate_user`, `activate_user`: `deactivate_membership` or          *)
(* `activate_membership` reads the membership ...                          *)
LoadMembership(r, u, on) ==
    /\ desk[r] = NoTask
    /\ Exists(u)
    /\ At(r, [stage |-> "membership", who |-> u, asks |-> [is_active |-> on],
              memberWrites |-> Net(membership[u], [is_active |-> on])])

(* Some other request has flushed an UPDATE of this membership.            *)
MembershipLocked(r, u) ==
    \E s \in Desks \ {r} :
        desk[s].stage = "user" /\ desk[s].who = u /\ desk[s].memberWrites # NoWrites

(* Mutant: the user is written whole, as he has been read.                 *)
FlushingWhole(u, asks, memberWrites) ==
    [stage |-> "user", who |-> u, asks |-> asks,
     memberWrites |-> memberWrites, writes |-> WholeRow(user[u], asks)]

(* `update`: the user is read, and what differs is written.                *)
Flushing(u, asks, memberWrites) ==
    [stage |-> "user", who |-> u, asks |-> asks,
     memberWrites |-> memberWrites, writes |-> Net(user[u], asks)]

(* ... and flushes it, which waits for others to commit theirs; then       *)
(* `update` reads the user ...                                             *)
LoadUser(r) ==
    LET d == desk[r]
    IN  /\ d.stage = "membership"
        /\ d.memberWrites # NoWrites => ~MembershipLocked(r, d.who)
        /\ At(r, Flushing(d.who, d.asks, d.memberWrites))

(* `update_user`: an email or a name does not matter here.                 *)
UpdateUser(r, u, patch) ==
    /\ desk[r] = NoTask
    /\ Exists(u)
    /\ At(r, Flushing(u, patch, NoWrites))

(* ... and what has changed is flushed and committed.                      *)
CommitMember(r) ==
    LET d == desk[r]
    IN  /\ d.stage = "user"
        /\ user' = [user EXCEPT ![d.who] = Apply(@, d.writes)]
        /\ membership' = [membership EXCEPT ![d.who] = Apply(@, d.memberWrites)]
        /\ restored' = restored \cup
                {u \in {d.who} : ~membership[u].is_active /\ membership'[u].is_active}
        /\ desk' = [desk EXCEPT ![r] = NoTask]

(* Refused, failed or crashed.                                             *)
Quit(r) ==
    /\ desk[r] # NoTask
    /\ At(r, NoTask)

-----------------------------------------------------------------------------
MbInit ==
    /\ user = [u \in Users |-> IF u = Founder THEN Row(TRUE) ELSE NotThere]
    /\ membership = user
    /\ desk = [r \in Desks |-> NoTask]
    /\ restored = {}

MbNext ==
    \E r \in Desks :
        \/ \E u \in Users :
            \/ CountMembers(r, u)
            \/ \E on \in BOOLEAN : LoadMembership(r, u, on)
            \/ \E patch \in {NoWrites} \cup [{"is_active"} -> BOOLEAN] : UpdateUser(r, u, patch)
        \/ CreateUser(r) \/ LoadUser(r) \/ CommitMember(r) \/ Quit(r)

MbSpec == MbInit /\ [][MbNext]_mbvars

-----------------------------------------------------------------------------
MbTypeOK ==
    /\ user \in [Users -> [is_active : BOOLEAN, there : BOOLEAN]]
    /\ membership \in [Users -> [is_active : BOOLEAN, there : BOOLEAN]]
    /\ \A u \in Users : ~Exists(u) => user[u] = NotThere /\ membership[u] = NotThere
    /\ \A r \in Desks : desk[r].stage \in {"idle", "counted", "membership", "user"}
    /\ restored \subseteq Users

(* Each request under way may add one member to those it has counted, and  *)
(* no more: apart from members who were switched on again, which no limit  *)
(* applies to, the organization exceeds its tariff by less than there are  *)
(* requests at a time.                                                     *)
LimitOverrun ==
    Cardinality(Active \ restored) <= MaxUsers - 1 + Cardinality(Desks)

(* A member who cannot work is able to again only by the commit of a       *)
(* request that wants just that: one which has read him as active, before  *)
(* he was deactivated, leaves him as he is.                                *)
OnlyActivationLetsIn ==
    [][ \A u \in Users : Exists(u) /\ ~MayWork(u) /\ MayWork(u)' =>
          \E r \in Desks :
            /\ desk[r].stage = "user" /\ desk'[r] = NoTask
            /\ desk[r].who = u
            /\ desk[r].asks = [is_active |-> TRUE] ]_mbvars

=============================================================================
