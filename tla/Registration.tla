---------------------------- MODULE Registration ----------------------------
(***************************************************************************)
(* Registering organizations and hiring users: `register` and              *)
(* `_ensure_default_tariff` (services/auth_service.py), and what of        *)
(* `create_user` (services/user_service.py) meets them.                    *)
(*                                                                         *)
(* Each looks whether what it is about to insert is there - the default    *)
(* tariff, the organization's INN, the user's email - and inserts it in    *)
(* the same transaction.  The look does not count: other transactions      *)
(* commit after it.  The unique constraints do.  An INSERT waits for a     *)
(* transaction that has inserted the same key, fails if that one commits,  *)
(* and goes on if that one rolls back.                                     *)
(*                                                                         *)
(* The owner's membership and the subscription are inserted with their     *)
(* organization and meet no constraint.  Left out: `update_user`, which    *)
(* may change an email.                                                    *)
(***************************************************************************)
EXTENDS FiniteSets

CONSTANTS
    Forms,      \* requests, each made once
    Inns,       \* organizations that may be registered
    Emails      \* addresses, in lower case

VARIABLE form   \* per request: what it is about, and how far it is

Tables == {"tariffs", "organizations", "users"}

NoForm == [stage |-> "none"]
Failed == [stage |-> "failed"]

(* A request that has made its checks.  tariff: the request that has       *)
(* inserted the default tariff, or this one if there was none.             *)
Form(kind, inn, email, tariff) ==
    [stage |-> "writing", kind |-> kind, inn |-> inn, email |-> email,
     tariff |-> tariff, inserted |-> {}]

Writing == {f \in Forms : form[f].stage = "writing"}
Committed == {f \in Forms : form[f].stage = "committed"}

(* Two requests insert the same key into a table.  There is one default    *)
(* tariff.                                                                 *)
SameKey(f, g, table) ==
    CASE table = "tariffs" -> TRUE
      [] table = "organizations" -> form[f].inn = form[g].inn
      [] table = "users" -> form[f].email = form[g].email

(* Those that have inserted this key and not committed, and those that     *)
(* have.                                                                   *)
Inserting(f, table) ==
    {g \in Writing \ {f} : table \in form[g].inserted /\ SameKey(f, g, table)}
Inserted(f, table) ==
    {g \in Committed : table \in form[g].inserted /\ SameKey(f, g, table)}

Fail(f) == form' = [form EXCEPT ![f] = Failed]

-----------------------------------------------------------------------------
(* `is_email_taken`, `is_inn_taken`.                                       *)
EmailTaken(email) == \E g \in Committed : form[g].email = email
InnTaken(inn) == \E g \in Committed : form[g].kind = "register" /\ form[g].inn = inn

(* `get_by_code` finds the tariff of a request that has committed.         *)
DefaultTariff == {g \in Committed : "tariffs" \in form[g].inserted}

(* The checks of `register`, the last of them that of                      *)
(* `_ensure_default_tariff`.                                               *)
Register(f, inn, email) ==
    /\ form[f] = NoForm
    /\ ~EmailTaken(email)
    /\ ~InnTaken(inn)
    /\ \E tariff \in IF DefaultTariff = {} THEN {f} ELSE DefaultTariff :
        form' = [form EXCEPT ![f] = Form("register", inn, email, tariff)]

(* Those of `create_user`, which needs neither INN nor tariff.             *)
Hire(f, email) ==
    /\ form[f] = NoForm
    /\ ~EmailTaken(email)
    /\ form' = [form EXCEPT ![f] = Form("hire", f, email, f)]

(* Mutant: a user is inserted whether or not his organization has been.    *)
InsertsInAnyOrder(f, table) ==
    CASE table = "tariffs"       -> form[f].kind = "register" /\ form[f].tariff = f
      [] table = "organizations" -> form[f].kind = "register"
      [] table = "users"         -> TRUE

(* What a request inserts, and in which order.                             *)
Inserts(f, table) ==
    CASE table = "tariffs"       -> form[f].kind = "register" /\ form[f].tariff = f
      [] table = "organizations" ->
            /\ form[f].kind = "register"
            /\ form[f].tariff = f => "tariffs" \in form[f].inserted
      [] table = "users"         ->
            form[f].kind = "register" => "organizations" \in form[f].inserted

Pending(f, table) == f \in Writing /\ table \notin form[f].inserted /\ Inserts(f, table)

(* Mutant: no constraint.                                                  *)
InsertAnyway(f, table) ==
    /\ Pending(f, table)
    /\ form' = [form EXCEPT ![f].inserted = @ \cup {table}]

(* The flush of an INSERT.                                                 *)
Insert(f, table) ==
    /\ Pending(f, table)
    /\ Inserting(f, table) = {}
    /\ Inserted(f, table) = {}
    /\ form' = [form EXCEPT ![f].inserted = @ \cup {table}]

(* It fails on the constraint.                                             *)
Duplicate(f, table) ==
    /\ Pending(f, table)
    /\ Inserted(f, table) # {}
    /\ Fail(f)

CommitForm(f) ==
    /\ f \in Writing
    /\ "users" \in form[f].inserted
    /\ \A table \in Tables : ~Pending(f, table)
    /\ form' = [form EXCEPT ![f].stage = "committed"]

(* An error or a crash.                                                    *)
Cancel(f) ==
    /\ f \in Writing
    /\ Fail(f)

-----------------------------------------------------------------------------
GInit == form = [f \in Forms |-> NoForm]

(* What a request that has been made does by itself.                       *)
Goes(f) ==
    \/ \E table \in Tables : Insert(f, table) \/ Duplicate(f, table)
    \/ CommitForm(f)

GNext ==
    \E f \in Forms :
        \/ \E inn \in Inns, email \in Emails : Register(f, inn, email)
        \/ \E email \in Emails : Hire(f, email)
        \/ Goes(f)
        \/ Cancel(f)

(* A handler goes on as long as it can.  Unlike Courses, nothing is        *)
(* assumed of PostgreSQL's search for deadlocks: there are none.           *)
GFairness == \A f \in Forms : WF_form(Goes(f))

GSpec == GInit /\ [][GNext]_form
FairGSpec == GSpec /\ GFairness

-----------------------------------------------------------------------------
Filled ==
    [stage : {"writing", "committed"}, kind : {"register", "hire"}, inn : Inns \cup Forms,
     email : Emails, tariff : Forms, inserted : SUBSET Tables]

GTypeOK == form \in [Forms -> {NoForm, Failed} \cup Filled]

(* However the checks and inserts of several requests interleave: there is *)
(* one organization of an INN, one user of an email and one default        *)
(* tariff, which all subscriptions refer to.                               *)
RegistrationsFit ==
    \A f, g \in Committed :
        /\ f # g => form[f].email # form[g].email
        /\ form[f].kind = "register" /\ form[g].kind = "register" =>
            /\ f # g => form[f].inn # form[g].inn
            /\ form[f].tariff = form[g].tariff
            /\ form[f].tariff \in Committed

(* f waits for g to end, whose key it is about to insert.                  *)
Behind(f, g) == \E table \in Tables : Pending(f, table) /\ g \in Inserting(f, table)

(* What Goes(f) needs: an INSERT that finds out whether its key is there,  *)
(* or nothing left to insert.                                              *)
MayGo(f) ==
    \/ \E table \in Tables :
        Pending(f, table) /\ (Inserting(f, table) = {} \/ Inserted(f, table) # {})
    \/ "users" \in form[f].inserted /\ \A table \in Tables : ~Pending(f, table)

(* Requests never wait for each other in a circle, which PostgreSQL would  *)
(* have to break, so that one of those under way can always go on: tariffs *)
(* come before organizations, and organizations before users.              *)
NobodyWaitsInACircle ==
    /\ \A circle \in (SUBSET Forms) \ {{}} : \E f \in circle : \A g \in circle : ~Behind(f, g)
    /\ Writing # {} => \E f \in Writing : MayGo(f)

(* Every request ends: all insert in the same order, so nobody waits in a  *)
(* circle.                                                                 *)
FormsEnd == \A f \in Forms : form[f].stage = "writing" ~> form[f].stage # "writing"
=============================================================================
