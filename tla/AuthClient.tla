------------------------------ MODULE AuthClient ------------------------------
(***************************************************************************)
(* The tabs of one browser beside RefreshSessions: the cookie they share,  *)
(* the access token each keeps in memory (store/authStore.ts), the         *)
(* interceptor that answers a 401 with a refresh and keeps other calls     *)
(* waiting for it (api/client.ts), and the refresh with which a tab starts *)
(* (hooks/useAuth.ts).                                                     *)
(*                                                                         *)
(* A request ends for its tab with the reply, or after 15 seconds without  *)
(* one, or when the tab is reloaded.  The server does not notice: it goes  *)
(* on, and a reply that nobody waits for may still reach the cookie.       *)
(* The browser stores a reply's cookie and runs the code that waits for it *)
(* in one step: a reload in between is a late cookie.                      *)
(***************************************************************************)
EXTENDS RefreshSessions

CONSTANTS
    Tabs,
    Calls,      \* slots for calls of the API under way
    Tab(_),     \* the tab a call belongs to
    Nobody

ASSUME ClientAssumption ==
    /\ \A c \in Calls : Tab(c) \in Tabs
    /\ Nobody \notin Tabs \cup Arrivals

VARIABLES
    cookie,         \* the refresh token in the browser
    token,          \* accessToken: none, good or expired
    isInitialized,
    refreshing,     \* isRefreshing: the request that client.ts awaits, or Nobody
    call,
    asker,          \* the tab that waits for the reply to a request
    spent           \* sessions ended by an administrator or by their age;
                    \* and sessions that the server has replaced or revoked,
                    \* or was going to, without the browser's being told

cvars == <<svars, cookie, token, isInitialized, refreshing, call, asker, spent>>
tabs == <<token, isInitialized, refreshing, call>>
server == <<session, replaced, is_active>>

(* A call has been sent with a token that is still good (`sent`) or not    *)
(* (`stale`), has started a refresh (`starting`) or waits for another's    *)
(* (`queued`), or has been sent again, with _retry (`retried`) or without  *)
(* (`resent`).                                                             *)
CallState == {"idle", "sent", "stale", "starting", "queued", "retried", "resent"}

CallsOf(t) == {c \in Calls : Tab(c) = t}

(* A tab sends a request, with the cookie as it is now.                    *)
Ask(t, r, kind) ==
    /\ Send(r, kind, IF kind = "login" THEN NoSession ELSE cookie)
    /\ asker' = [asker EXCEPT ![r] = t]
    /\ UNCHANGED <<cookie, spent>>

-----------------------------------------------------------------------------
(* Calls.                                                                  *)

MakeCall(c) ==
    LET t == Tab(c)
    IN  /\ isInitialized[t]
        /\ token[t] # "none"
        /\ call[c] = "idle"
        /\ call' = [call EXCEPT ![c] = IF token[t] = "good" THEN "sent" ELSE "stale"]
        /\ UNCHANGED <<svars, cookie, token, isInitialized, refreshing, asker, spent>>

(* Answered, failed or timed out, and never a 401 that makes a refresh.    *)
EndCall(c) ==
    /\ call[c] \in {"sent", "stale", "retried", "resent"}
    /\ call' = [call EXCEPT ![c] = "idle"]
    /\ UNCHANGED <<svars, cookie, token, isInitialized, refreshing, asker, spent>>

Unauthorized(c) ==
    \/ call[c] = "stale"
    \/ call[c] \in {"sent", "resent"} /\ ~is_active

JoinQueue(c) ==
    /\ Unauthorized(c)
    /\ refreshing[Tab(c)] # Nobody
    /\ call' = [call EXCEPT ![c] = "queued"]
    /\ UNCHANGED <<svars, cookie, token, isInitialized, refreshing, asker, spent>>

StartRefresh(c, r) ==
    /\ Unauthorized(c)
    /\ refreshing[Tab(c)] = Nobody
    /\ call' = [call EXCEPT ![c] = "starting"]
    /\ refreshing' = [refreshing EXCEPT ![Tab(c)] = r]
    /\ Ask(Tab(c), r, "refresh")
    /\ UNCHANGED <<token, isInitialized>>

(* An access token lasts half an hour: one that has just been handed out   *)
(* does not expire under the calls that are sent again with it.  (Only     *)
(* calls look at it.)                                                      *)
TokenExpires(t) ==
    /\ CallsOf(t) # {}
    /\ token[t] = "good"
    /\ token' = [token EXCEPT ![t] = "expired"]
    /\ call' = [c \in Calls |-> IF Tab(c) = t /\ call[c] = "sent" THEN "stale" ELSE call[c]]
    /\ UNCHANGED <<svars, cookie, isInitialized, refreshing, asker, spent>>

-----------------------------------------------------------------------------
(* What a tab does when a request of its own ends.                         *)

(* Mutant: a refresh that succeeds serves the call that has started it and *)
(* forgets the queue.                                                      *)
SendAgainStarter(t) ==
    call' = [c \in Calls |-> IF Tab(c) = t /\ call[c] = "starting" THEN "retried" ELSE call[c]]

(* processQueue(null, token), and the call that has started the refresh.   *)
SendAgain(t) ==
    call' = [c \in Calls |->
               CASE Tab(c) = t /\ call[c] = "queued"   -> "resent"
                 [] Tab(c) = t /\ call[c] = "starting" -> "retried"
                 [] OTHER                              -> call[c]]

(* Mutant: only the call that has started the refresh learns of its end.   *)
GiveUpStarter(t) ==
    call' = [c \in Calls |-> IF Tab(c) = t /\ call[c] = "starting" THEN "idle" ELSE call[c]]

(* processQueue(error, null).                                              *)
GiveUp(t) ==
    call' = [c \in Calls |->
               IF Tab(c) = t /\ call[c] \in {"queued", "starting"} THEN "idle" ELSE call[c]]

Refreshed(t) ==
    /\ token' = [token EXCEPT ![t] = "good"]
    /\ refreshing' = [refreshing EXCEPT ![t] = Nobody]
    /\ SendAgain(t)
    /\ UNCHANGED isInitialized

(* clearAuth, whatever the reason.                                         *)
RefreshFailed(t) ==
    /\ token' = [token EXCEPT ![t] = "none"]
    /\ refreshing' = [refreshing EXCEPT ![t] = Nobody]
    /\ GiveUp(t)
    /\ UNCHANGED isInitialized

(* setSession or clearAuth, and setInitialized in any case.                *)
BootstrapEnds(t, success) ==
    /\ token' = [token EXCEPT ![t] = IF success THEN "good" ELSE "none"]
    /\ isInitialized' = [isInitialized EXCEPT ![t] = TRUE]
    /\ UNCHANGED <<refreshing, call>>

LoggedIn(t) ==
    /\ token' = [token EXCEPT ![t] = "good"]
    /\ isInitialized' = [isInitialized EXCEPT ![t] = TRUE]
    /\ UNCHANGED <<refreshing, call>>

LoggedOut(t) ==
    /\ token' = [token EXCEPT ![t] = "none"]
    /\ UNCHANGED <<isInitialized, refreshing, call>>

(* The end of a request, as the code that has sent it sees it.             *)
End(t, r, success) ==
    LET kind == requests[r].kind
    IN  \/ r = refreshing[t] /\ success  /\ Refreshed(t)
        \/ r = refreshing[t] /\ ~success /\ RefreshFailed(t)
        \/ r # refreshing[t] /\ kind = "refresh" /\ BootstrapEnds(t, success)
        \/ kind = "login" /\ success  /\ LoggedIn(t)
        \/ kind = "login" /\ ~success /\ UNCHANGED tabs
        \/ kind = "logout" /\ LoggedOut(t)

(* Mutant: the logout leaves the cookie to the browser.                    *)
CookieAfterGrant(r) ==
    IF requests[r].grant # NoSession THEN requests[r].grant ELSE cookie

(* set_refresh_cookie; clear_refresh_cookie, for there is nothing to grant *)
(* with a logout.                                                          *)
CookieAfter(r) ==
    IF requests[r].stage = "refused" THEN cookie ELSE requests[r].grant

Reply(r) ==
    /\ Replied(r)
    /\ asker[r] # Nobody
    /\ cookie' = CookieAfter(r)
    /\ End(asker[r], r, requests[r].stage # "refused")
    /\ Finish(r)
    /\ asker' = [asker EXCEPT ![r] = Nobody]
    /\ UNCHANGED <<server, spent>>

TimeOut(r) ==
    /\ asker[r] # Nobody
    /\ End(asker[r], r, FALSE)
    /\ asker' = [asker EXCEPT ![r] = Nobody]
    /\ UNCHANGED <<svars, cookie, spent>>

(* A reply that nobody waits for reaches the browser in time for its       *)
(* cookie ...                                                              *)
LateCookie(r) ==
    /\ Replied(r)
    /\ asker[r] = Nobody
    /\ cookie' = CookieAfter(r)
    /\ Finish(r)
    /\ UNCHANGED <<server, tabs, asker, spent>>

(* ... or not at all.                                                      *)
LoseReply(r) ==
    /\ Replied(r)
    /\ asker[r] = Nobody
    /\ spent' = IF requests[r].stage = "refused" THEN spent
                ELSE spent \cup ({requests[r].cookie} \ {NoSession})
    /\ Finish(r)
    /\ UNCHANGED <<server, cookie, tabs, asker>>

-----------------------------------------------------------------------------
(* The tabs.                                                               *)

(* bootstrapSession, once for every mounting of a route's wrapper before   *)
(* the first of them has ended (React mounts twice in strict mode).  No    *)
(* page is shown before that.                                              *)
Bootstrap(t, r) ==
    /\ ~isInitialized[t]
    /\ Ask(t, r, "refresh")
    /\ UNCHANGED tabs

LogIn(t, r) ==
    /\ isInitialized[t] /\ token[t] = "none"
    /\ \A x \in Arrivals : asker[x] = t => requests[x].kind # "login"
    /\ Ask(t, r, "login")
    /\ UNCHANGED tabs

AskLogOut(t, r) ==
    /\ isInitialized[t] /\ token[t] # "none"
    /\ Ask(t, r, "logout")
    /\ UNCHANGED tabs

(* The store lives in the page: nothing of it is persisted.                *)
Reload(t) ==
    /\ token' = [token EXCEPT ![t] = "none"]
    /\ isInitialized' = [isInitialized EXCEPT ![t] = FALSE]
    /\ refreshing' = [refreshing EXCEPT ![t] = Nobody]
    /\ call' = [c \in Calls |-> IF Tab(c) = t THEN "idle" ELSE call[c]]
    /\ asker' = [r \in Arrivals |-> IF asker[r] = t THEN Nobody ELSE asker[r]]
    /\ UNCHANGED <<svars, cookie, spent>>

Ended ==
    \/ SetPassword /\ spent' = spent \cup Live
    \/ SetActive /\ UNCHANGED spent
    \/ \E s \in Sessions : Lapse(s) /\ spent' = spent \cup {s}

-----------------------------------------------------------------------------
ACInit ==
    /\ SInit
    /\ cookie = NoSession
    /\ token = [t \in Tabs |-> "none"]
    /\ isInitialized = [t \in Tabs |-> FALSE]
    /\ refreshing = [t \in Tabs |-> Nobody]
    /\ call = [c \in Calls |-> "idle"]
    /\ asker = [r \in Arrivals |-> Nobody]
    /\ spent = {}

CallStep(c) ==
    \/ MakeCall(c) \/ EndCall(c) \/ JoinQueue(c)
    \/ \E r \in Arrivals : StartRefresh(c, r)

TabStep(t) ==
    \/ TokenExpires(t) \/ Reload(t)
    \/ \E r \in Arrivals : Bootstrap(t, r) \/ LogIn(t, r) \/ AskLogOut(t, r)

RequestStep(r) ==
    \/ Process(r) /\ UNCHANGED <<cookie, tabs, asker, spent>>
    \/ Reply(r) \/ TimeOut(r) \/ LateCookie(r) \/ LoseReply(r)

ACNext ==
    \/ \E c \in Calls : CallStep(c)
    \/ \E t \in Tabs : TabStep(t)
    \/ \E r \in Arrivals : RequestStep(r)
    \/ Ended /\ UNCHANGED <<cookie, tabs, asker>>

ACSpec == ACInit /\ [][ACNext]_cvars

(* axios ends every request after 15 seconds, if nothing else does.        *)
TimeoutFairness ==
    /\ \A c \in Calls : WF_cvars(EndCall(c))
    /\ \A r \in Arrivals : WF_cvars(Reply(r) \/ TimeOut(r))

FairACSpec == ACSpec /\ TimeoutFairness

-----------------------------------------------------------------------------
ACTypeOK ==
    /\ STypeOK
    /\ cookie \in Sessions \cup {NoSession}
    /\ token \in [Tabs -> {"none", "good", "expired"}]
    /\ isInitialized \in [Tabs -> BOOLEAN]
    /\ \A t \in Tabs : token[t] # "none" => isInitialized[t]
    /\ refreshing \in [Tabs -> Arrivals \cup {Nobody}]
    /\ call \in [Calls -> CallState]
    /\ asker \in [Arrivals -> Tabs \cup {Nobody}]
    /\ spent \subseteq Sessions

(* Tabs that refresh, log in and log out at the same time do not spoil     *)
(* each other's cookie: whatever order the replies come in, the browser    *)
(* holds a live session, or one that is about to be committed, or the      *)
(* reply that will replace or remove the cookie is on its way: unless the  *)
(* session was ended from elsewhere, a reply was lost, or a commit failed  *)
(* after its reply.                                                        *)
CookieIsGood ==
    cookie # NoSession =>
        \/ session[cookie] \in {"live", "pending", "void"}
        \/ cookie \in spent
        \/ \E r \in Arrivals :
              /\ requests[r].cookie = cookie
              /\ Replied(r) /\ requests[r].stage # "refused"

(* However many calls of a tab are refused at once, one of them starts a   *)
(* refresh and the others wait, and they wait only while it is under way:  *)
(* the queue is never left behind, by a reply, an error, a timeout or a    *)
(* reload.                                                                 *)
QueueIsServed ==
    /\ \A c, d \in Calls :
          call[c] = "starting" /\ call[d] = "starting" /\ Tab(c) = Tab(d) => c = d
    /\ \A c \in Calls : call[c] \in {"queued", "starting"} =>
          refreshing[Tab(c)] # Nobody /\ asker[refreshing[Tab(c)]] = Tab(c)

(* Every call of the API ends, with a reply or with an error, unless the   *)
(* user's account is switched off and on forever: a call that has waited   *)
(* in the queue may be refused again, and wait again, each time.           *)
CallsEnd ==
    <>[]is_active \/ <>[]~is_active =>
        \A c \in Calls : (call[c] # "idle") ~> (call[c] = "idle")
=============================================================================
