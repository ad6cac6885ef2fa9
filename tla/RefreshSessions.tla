--------------------------- MODULE RefreshSessions ---------------------------
(***************************************************************************)
(* The refresh sessions of one user (services/auth_service.py,             *)
(* db/repositories/refresh_session_repository.py) under concurrent logins, *)
(* refreshes and logouts and the administrator's interventions             *)
(* (services/user_service.py).                                             *)
(*                                                                         *)
(* A refresh reads its session and writes the revocation of that session   *)
(* together with its successor; the UPDATE goes by primary key and does    *)
(* not look at `revoked_at` again.  The reply leaves before the commit:    *)
(* get_session commits in the exit code of a dependency, which FastAPI     *)
(* (0.125, requirements.txt) runs after the response has been sent.  So    *)
(* the client may hold a token whose session nobody sees yet, or whose     *)
(* session never comes to be.                                              *)
(*                                                                         *)
(* A session that has expired is counted among the revoked ones: every     *)
(* check treats the two alike.                                             *)
(*                                                                         *)
(* Left out: the family of a session, which only `revoke_family` reads.    *)
(* refresh_tokens calls it before it raises, and get_session rolls it back *)
(* with the rest of the transaction: a refused refresh changes nothing.    *)
(***************************************************************************)
EXTENDS Naturals, FiniteSets

CONSTANTS
    Sessions,       \* rows of refresh_sessions that will ever exist
    Arrivals,       \* slots for requests on their way, and for their replies
    NoSession

ASSUME SessionAssumption ==
    /\ IsFiniteSet(Arrivals)
    /\ NoSession \notin Sessions

VARIABLES
    session,    \* none; pending, in a transaction under way; live; revoked;
                \* void, if that transaction was rolled back
    replaced,   \* the sessions with a successor (replaced_by)
    is_active,  \* the user's account and membership
    requests

svars == <<session, replaced, is_active, requests>>

Kind == {"none", "login", "refresh", "logout"}
Stage == {"idle", "sent", "read", "written", "done", "refused"}

(* Identifiers are random: which one is taken does not matter.             *)
Fresh == CHOOSE s \in Sessions : session[s] = "none"
Exhausted == \A s \in Sessions : session[s] # "none"

Request(kind, cookie) ==
    [kind |-> kind, stage |-> "sent", cookie |-> cookie, grant |-> NoSession,
     answered |-> FALSE]

Free == [kind |-> "none", stage |-> "idle", cookie |-> NoSession, grant |-> NoSession,
         answered |-> FALSE]

Live == {s \in Sessions : session[s] = "live"}

(* There is a reply that has not reached the client yet, nor been lost.    *)
Replied(r) == requests[r].stage \in {"written", "done", "refused"} /\ ~requests[r].answered

At(r, kind, stage) == requests[r].kind = kind /\ requests[r].stage = stage

MoveTo(r, stage) == requests' = [requests EXCEPT ![r].stage = stage]

(* The transaction of a request that has been answered ends.               *)
Settle(r) ==
    requests' = [requests EXCEPT ![r] = IF @.answered THEN Free ELSE [@ EXCEPT !.stage = "done"]]

(* The reply reaches the client, or is lost.                               *)
Finish(r) ==
    requests' = [requests EXCEPT ![r] =
                   IF @.stage = "written" THEN [@ EXCEPT !.answered = TRUE] ELSE Free]

Revoke(revoked) ==
    session' = [s \in Sessions |-> IF s \in revoked \cap Live THEN "revoked" ELSE session[s]]

-----------------------------------------------------------------------------
Send(r, kind, cookie) ==
    /\ requests[r] = Free
    /\ requests' = [requests EXCEPT ![r] = Request(kind, cookie)]
    /\ UNCHANGED <<session, replaced, is_active>>

(* login, refresh_tokens and logout, up to the last of their checks.       *)
Check(r) ==
    /\ \/ At(r, "login", "sent") /\ is_active
       \/ At(r, "refresh", "sent") /\ requests[r].cookie \in Live /\ is_active
       \/ At(r, "logout", "sent") /\ requests[r].cookie \in Live
    /\ MoveTo(r, "read")
    /\ UNCHANGED <<session, replaced, is_active>>

(* InvalidCredentialsError.                                                *)
Refuse(r) ==
    /\ \/ At(r, "login", "sent")
       \/ At(r, "refresh", "sent") /\ (requests[r].cookie \notin Live \/ ~is_active)
    /\ MoveTo(r, "refused")
    /\ UNCHANGED <<session, replaced, is_active>>

(* A logout whose session is revoked, or not to be seen yet, does nothing. *)
NothingToRevoke(r) ==
    /\ At(r, "logout", "sent") /\ requests[r].cookie \notin Live
    /\ MoveTo(r, "done")
    /\ UNCHANGED <<session, replaced, is_active>>

(* The UPDATE of the old session waits for the transaction of another      *)
(* request that has updated it.                                            *)
Locked(s) == \E r \in Arrivals : requests[r].cookie = s /\ requests[r].stage = "written"

(* The flush; what is flushed is the reply's.                              *)
Write(r) ==
    /\ requests[r].stage = "read"
    /\ ~Locked(requests[r].cookie) \/ requests[r].kind = "login"
    /\ \/ /\ requests[r].kind = "logout"
          /\ MoveTo(r, "written")
          /\ UNCHANGED session
       \/ /\ requests[r].kind # "logout"
          /\ ~Exhausted
          /\ session' = [session EXCEPT ![Fresh] = "pending"]
          /\ requests' = [requests EXCEPT ![r].stage = "written", ![r].grant = Fresh]
    /\ UNCHANGED <<replaced, is_active>>

(* Mutant: a refresh prolongs its session beside the new one, and writes   *)
(* it as it has read it.                                                   *)
CommitProlonging(r) ==
    LET old == requests[r].cookie
        new == requests[r].grant
    IN  /\ requests[r].stage = "written"
        /\ session' = [s \in Sessions |->
                         IF s = new \/ (s = old /\ requests[r].kind = "refresh") THEN "live"
                         ELSE IF s = old THEN "revoked" ELSE session[s]]
        /\ replaced' = IF requests[r].kind = "refresh" THEN replaced \cup {old} ELSE replaced
        /\ Settle(r)
        /\ UNCHANGED is_active

(* The session that the request has named is revoked, whatever has become  *)
(* of it meanwhile; the successor of a session that is logged out is not.  *)
CommitSession(r) ==
    LET old == requests[r].cookie
        new == requests[r].grant
    IN  /\ requests[r].stage = "written"
        /\ session' = [s \in Sessions |-> IF s = new THEN "live"
                                          ELSE IF s = old THEN "revoked" ELSE session[s]]
        /\ replaced' = IF requests[r].kind = "refresh" THEN replaced \cup {old} ELSE replaced
        /\ Settle(r)
        /\ UNCHANGED is_active

(* An error or a crash, before the reply ...                               *)
Fail(r) ==
    /\ requests[r].stage \in {"sent", "read"}
    /\ MoveTo(r, "refused")
    /\ UNCHANGED <<session, replaced, is_active>>

(* ... or between the reply and the commit.                                *)
Rollback(r) ==
    /\ requests[r].stage = "written"
    /\ session' = [s \in Sessions |-> IF s = requests[r].grant THEN "void" ELSE session[s]]
    /\ Settle(r)
    /\ UNCHANGED <<replaced, is_active>>

(* set_user_password.  A request that has passed its checks before still   *)
(* commits its session afterwards.                                         *)
SetPassword ==
    /\ Live # {}
    /\ Revoke(Sessions)
    /\ UNCHANGED <<replaced, is_active, requests>>

(* deactivate_user and activate_user leave the sessions alone.             *)
SetActive ==
    /\ is_active' = ~is_active
    /\ UNCHANGED <<session, replaced, requests>>

Lapse(s) ==
    /\ s \in Live
    /\ Revoke({s})
    /\ UNCHANGED <<replaced, is_active, requests>>

-----------------------------------------------------------------------------
SInit ==
    /\ session = [s \in Sessions |-> "none"]
    /\ replaced = {}
    /\ is_active = TRUE
    /\ requests = [r \in Arrivals |-> Free]

Process(r) ==
    \/ Check(r)
    \/ Refuse(r)
    \/ NothingToRevoke(r)
    \/ Write(r)
    \/ CommitSession(r)
    \/ Fail(r)
    \/ Rollback(r)

(* Any client, with any token that has ever been handed out.               *)
Arrive(r) ==
    \/ Send(r, "login", NoSession)
    \/ \E s \in Sessions \cup {NoSession} :
        /\ s = NoSession \/ session[s] # "none"
        /\ Send(r, "refresh", s) \/ Send(r, "logout", s)

Answer(r) ==
    /\ Replied(r)
    /\ Finish(r)
    /\ UNCHANGED <<session, replaced, is_active>>

SNext ==
    \/ \E r \in Arrivals : Arrive(r) \/ Process(r) \/ Answer(r)
    \/ SetPassword
    \/ SetActive
    \/ \E s \in Sessions : Lapse(s)

SSpec == SInit /\ [][SNext]_svars

-----------------------------------------------------------------------------
STypeOK ==
    /\ session \in [Sessions -> {"none", "pending", "live", "revoked", "void"}]
    /\ replaced \subseteq Sessions
    /\ is_active \in BOOLEAN
    /\ requests \in [Arrivals -> [kind : Kind, stage : Stage,
                                  cookie : Sessions \cup {NoSession},
                                  grant : Sessions \cup {NoSession},
                                  answered : BOOLEAN]]
    /\ \A r \in Arrivals : requests[r].answered => requests[r].stage = "written"

(* What has a successor stays revoked.  (Its successors may be several,    *)
(* and one of them may be alive beside the successors of another: see      *)
(* OneSuccessor.)                                                          *)
PredecessorsAreRevoked ==
    \A s \in replaced : session[s] = "revoked"

(* A token that has been exchanged is not exchanged again: no refresh      *)
(* brings a successor to life for a session that has one ("Ротация токенов *)
(* с проверкой повторного использования", refresh_tokens).  It is broken:  *)
(* two refreshes that have both read the session before either commits.    *)
OneSuccessor ==
    [][ \A r \in Arrivals :
          At(r, "refresh", "written") /\ session'[requests[r].grant] = "live" =>
              requests[r].cookie \notin replaced ]_svars

(* Nothing brings back a session that has been revoked - the commit of a   *)
(* refresh that had read it alive, a commit of somebody else, a reply that *)
(* comes late - nor one whose commit has failed; and sessions come to life *)
(* one by one.                                                             *)
EndsForGood ==
    /\ \A s \in Sessions : session[s] \in {"revoked", "void"} => session'[s] = session[s]
    /\ \A s, t \in Sessions :
          /\ session[s] # "live" /\ session'[s] = "live"
          /\ session[t] # "live" /\ session'[t] = "live"
          => s = t

SessionsEndForGood == [][EndsForGood]_svars
=============================================================================
