--------------------------- MODULE AuthClientProofs ---------------------------
(***************************************************************************)
(* RefreshSessions and AuthClient, for any number of sessions, requests,   *)
(* tabs and calls.                                                         *)
(***************************************************************************)
EXTENDS AuthClient, TLAPS

-----------------------------------------------------------------------------
(* The server, whoever its clients are.                                    *)

(* No token is presented before it has been handed out.                    *)
CookiesAreIssued ==
    \A r \in Arrivals : requests[r].cookie # NoSession =>
        session[requests[r].cookie] # "none"

(* What a transaction is about to revoke has been committed, and what it   *)
(* is about to create is its own.                                          *)
TransactionsFit ==
    \A r \in Arrivals :
        /\ requests[r].kind = "login" => requests[r].cookie = NoSession
        /\ requests[r].stage \in {"sent", "read"} => requests[r].grant = NoSession
        /\ requests[r].stage \in {"read", "written"} =>
              /\ requests[r].cookie # NoSession =>
                    session[requests[r].cookie] \in {"live", "revoked"}
              /\ requests[r].kind = "refresh" => requests[r].cookie # NoSession
        /\ requests[r].stage = "written" /\ requests[r].grant # NoSession =>
              /\ session[requests[r].grant] = "pending"
              /\ \A other \in Arrivals \ {r} :
                    requests[other].stage = "written" =>
                        requests[other].grant # requests[r].grant

RotationInvariant ==
    /\ STypeOK
    /\ CookiesAreIssued
    /\ TransactionsFit
    /\ PredecessorsAreRevoked

LEMMA FreshIsNew == ~Exhausted => Fresh \in Sessions /\ session[Fresh] = "none"
BY DEF Exhausted, Fresh

LEMMA ServerInit == SInit => RotationInvariant
BY DEF SInit, RotationInvariant, STypeOK, CookiesAreIssued, TransactionsFit,
       PredecessorsAreRevoked, Free, Kind, Stage

(* A request whose stage is not one of a transaction disturbs nothing.     *)
LEMMA OutsideKeepsRotation ==
    ASSUME RotationInvariant, UNCHANGED <<session, replaced>>, STypeOK', CookiesAreIssued',
           NEW r \in Arrivals,
           requests'[r].stage \notin {"read", "written"},
           requests'[r].kind = "login" => requests'[r].cookie = NoSession,
           requests'[r].stage = "sent" => requests'[r].grant = NoSession,
           \A x \in Arrivals \ {r} : requests'[x] = requests[x]
    PROVE  RotationInvariant'
<1>1. TransactionsFit'
  BY DEF RotationInvariant, TransactionsFit
<1> QED BY <1>1 DEF RotationInvariant, PredecessorsAreRevoked

LEMMA SendKeepsRotation ==
    ASSUME RotationInvariant, NEW r \in Arrivals, NEW kind \in Kind,
           NEW s \in Sessions \cup {NoSession}, s # NoSession => session[s] # "none",
           kind = "login" => s = NoSession, Send(r, kind, s)
    PROVE  RotationInvariant'
<1>1. STypeOK' /\ CookiesAreIssued'
  BY DEF Send, Request, RotationInvariant, STypeOK, CookiesAreIssued, Stage
<1>2. /\ requests'[r] = Request(kind, s)
      /\ \A x \in Arrivals \ {r} : requests'[x] = requests[x]
  BY DEF Send, Request, RotationInvariant, STypeOK
<1> QED BY <1>1, <1>2, OutsideKeepsRotation DEF Send, Request

LEMMA SettledRequests ==
    ASSUME STypeOK, NEW r \in Arrivals, requests[r].stage = "written", Settle(r)
    PROVE  /\ requests' \in [Arrivals -> [kind : Kind, stage : Stage,
                                          cookie : Sessions \cup {NoSession},
                                          grant : Sessions \cup {NoSession},
                                          answered : BOOLEAN]]
           /\ \A x \in Arrivals : requests'[x].answered => requests'[x].stage = "written"
           /\ requests[r].answered => requests'[r] = Free
           /\ ~requests[r].answered => requests'[r] = [requests[r] EXCEPT !.stage = "done"]
           /\ requests'[r].stage \in {"idle", "done"}
           /\ requests'[r].cookie \in {requests[r].cookie, NoSession}
           /\ requests'[r].kind = "login" => requests[r].kind = "login"
           /\ \A x \in Arrivals \ {r} : requests'[x] = requests[x]
BY DEF Settle, STypeOK, Free, Kind, Stage

LEMMA WriteKeepsRotation ==
    ASSUME RotationInvariant, NEW r \in Arrivals, Write(r)
    PROVE  RotationInvariant'
<1>1. CASE requests[r].kind = "logout"
  <2>1. /\ session' = session /\ replaced' = replaced /\ is_active' = is_active
        /\ requests' = [requests EXCEPT ![r].stage = "written"]
        /\ requests[r].stage = "read"
    BY <1>1 DEF Write, MoveTo
  <2>2. STypeOK' /\ CookiesAreIssued'
    BY <2>1 DEF RotationInvariant, STypeOK, CookiesAreIssued, Stage
  <2>3. requests[r].grant = NoSession
    BY <2>1 DEF RotationInvariant, TransactionsFit
  <2> QED BY <2>1, <2>2, <2>3
          DEF RotationInvariant, STypeOK, TransactionsFit, PredecessorsAreRevoked
<1>2. CASE requests[r].kind # "logout"
  <2>1. /\ Fresh \in Sessions /\ session[Fresh] = "none"
        /\ session' = [session EXCEPT ![Fresh] = "pending"]
        /\ requests' = [requests EXCEPT ![r].stage = "written", ![r].grant = Fresh]
        /\ requests[r].stage = "read"
        /\ replaced' = replaced /\ is_active' = is_active
    BY <1>2, FreshIsNew DEF Write
  <2>2. STypeOK' /\ CookiesAreIssued'
    BY <2>1 DEF RotationInvariant, STypeOK, CookiesAreIssued, Stage
  <2>3. TransactionsFit'
    BY <2>1, SessionAssumption DEF RotationInvariant, STypeOK, TransactionsFit
  <2>4. PredecessorsAreRevoked'
    BY <2>1 DEF RotationInvariant, STypeOK, PredecessorsAreRevoked
  <2> QED BY <2>2, <2>3, <2>4 DEF RotationInvariant
<1> QED BY <1>1, <1>2

LEMMA CommitKeepsRotation ==
    ASSUME RotationInvariant, NEW r \in Arrivals, CommitSession(r)
    PROVE  RotationInvariant'
<1> DEFINE old == requests[r].cookie
           new == requests[r].grant
<1>1. /\ requests[r].stage = "written"
      /\ new # NoSession => session[new] = "pending"
      /\ old # NoSession => session[old] \in {"live", "revoked"}
      /\ session' = [s \in Sessions |-> IF s = new THEN "live"
                                        ELSE IF s = old THEN "revoked" ELSE session[s]]
      /\ replaced' = IF requests[r].kind = "refresh" THEN replaced \cup {old} ELSE replaced
      /\ is_active' = is_active
      /\ requests[r].kind = "refresh" => old \in Sessions
  BY DEF CommitSession, RotationInvariant, STypeOK, TransactionsFit
<1>2. /\ requests'[r].stage \in {"idle", "done"}
      /\ requests'[r].cookie \in {old, NoSession}
      /\ requests'[r].kind = "login" => requests[r].kind = "login"
      /\ \A x \in Arrivals \ {r} : requests'[x] = requests[x]
  BY SettledRequests DEF CommitSession, RotationInvariant
<1>3. STypeOK'
  <2>1. /\ requests' \in [Arrivals -> [kind : Kind, stage : Stage,
                                       cookie : Sessions \cup {NoSession},
                                       grant : Sessions \cup {NoSession},
                                       answered : BOOLEAN]]
        /\ \A x \in Arrivals : requests'[x].answered => requests'[x].stage = "written"
    BY <1>1, SettledRequests DEF CommitSession, RotationInvariant
  <2>2. session' \in [Sessions -> {"none", "pending", "live", "revoked", "void"}]
    BY <1>1 DEF RotationInvariant, STypeOK
  <2> QED BY <1>1, <2>1, <2>2 DEF RotationInvariant, STypeOK
<1>4. CookiesAreIssued'
  BY <1>1, <1>2 DEF RotationInvariant, STypeOK, CookiesAreIssued
<1>5. TransactionsFit'
  <2>0. requests'[r].kind = "login" => requests'[r].cookie = NoSession
    BY <1>2 DEF RotationInvariant, TransactionsFit
  <2> SUFFICES ASSUME NEW x \in Arrivals \ {r}
      PROVE  /\ requests[x].stage \in {"read", "written"} =>
                   /\ requests[x].cookie # NoSession =>
                         session'[requests[x].cookie] \in {"live", "revoked"}
                   /\ requests[x].kind = "refresh" => requests[x].cookie # NoSession
             /\ requests[x].stage = "written" /\ requests[x].grant # NoSession =>
                   /\ session'[requests[x].grant] = "pending"
                   /\ \A o \in Arrivals \ {x, r} :
                         requests[o].stage = "written" => requests[o].grant # requests[x].grant
    BY <1>2, <2>0 DEF RotationInvariant, TransactionsFit
  <2>1. /\ requests[x].cookie \in Sessions \cup {NoSession}
        /\ requests[x].grant \in Sessions \cup {NoSession}
    BY DEF RotationInvariant, STypeOK
  <2>2. requests[x].stage = "written" /\ requests[x].grant # NoSession =>
          requests[x].grant # new /\ requests[x].grant # old
    BY <1>1, <2>1 DEF RotationInvariant, TransactionsFit
  <2> QED BY <1>1, <2>1, <2>2 DEF RotationInvariant, TransactionsFit
<1>6. PredecessorsAreRevoked'
  BY <1>1, SessionAssumption DEF RotationInvariant, STypeOK, PredecessorsAreRevoked
<1> QED BY <1>3, <1>4, <1>5, <1>6 DEF RotationInvariant

LEMMA RollbackKeepsRotation ==
    ASSUME RotationInvariant, NEW r \in Arrivals, Rollback(r)
    PROVE  RotationInvariant'
<1> DEFINE new == requests[r].grant
<1>1. /\ requests[r].stage = "written"
      /\ new # NoSession => session[new] = "pending"
      /\ session' = [s \in Sessions |-> IF s = new THEN "void" ELSE session[s]]
      /\ replaced' = replaced /\ is_active' = is_active
  BY DEF Rollback, RotationInvariant, TransactionsFit
<1>2. /\ requests'[r].stage \in {"idle", "done"}
      /\ requests'[r].cookie \in {requests[r].cookie, NoSession}
      /\ requests'[r].kind = "login" => requests[r].kind = "login"
      /\ \A x \in Arrivals \ {r} : requests'[x] = requests[x]
  BY SettledRequests DEF Rollback, RotationInvariant
<1>3. STypeOK'
  <2>1. /\ requests' \in [Arrivals -> [kind : Kind, stage : Stage,
                                       cookie : Sessions \cup {NoSession},
                                       grant : Sessions \cup {NoSession},
                                       answered : BOOLEAN]]
        /\ \A x \in Arrivals : requests'[x].answered => requests'[x].stage = "written"
    BY <1>1, SettledRequests DEF Rollback, RotationInvariant
  <2>2. session' \in [Sessions -> {"none", "pending", "live", "revoked", "void"}]
    BY <1>1 DEF RotationInvariant, STypeOK
  <2> QED BY <1>1, <2>1, <2>2 DEF RotationInvariant, STypeOK
<1>4. CookiesAreIssued'
  BY <1>1, <1>2 DEF RotationInvariant, STypeOK, CookiesAreIssued
<1>5. TransactionsFit'
  <2>0. requests'[r].kind = "login" => requests'[r].cookie = NoSession
    BY <1>2 DEF RotationInvariant, TransactionsFit
  <2> SUFFICES ASSUME NEW x \in Arrivals \ {r}
      PROVE  /\ requests[x].stage \in {"read", "written"} =>
                   /\ requests[x].cookie # NoSession =>
                         session'[requests[x].cookie] \in {"live", "revoked"}
                   /\ requests[x].kind = "refresh" => requests[x].cookie # NoSession
             /\ requests[x].stage = "written" /\ requests[x].grant # NoSession =>
                   /\ session'[requests[x].grant] = "pending"
                   /\ \A o \in Arrivals \ {x, r} :
                         requests[o].stage = "written" => requests[o].grant # requests[x].grant
    BY <1>2, <2>0 DEF RotationInvariant, TransactionsFit
  <2>1. /\ requests[x].cookie \in Sessions \cup {NoSession}
        /\ requests[x].grant \in Sessions \cup {NoSession}
    BY DEF RotationInvariant, STypeOK
  <2>2. requests[x].stage = "written" /\ requests[x].grant # NoSession => requests[x].grant # new
    BY <1>1, <2>1 DEF RotationInvariant, TransactionsFit
  <2> QED BY <1>1, <2>1, <2>2 DEF RotationInvariant, TransactionsFit
<1>6. PredecessorsAreRevoked'
  BY <1>1, SessionAssumption DEF RotationInvariant, STypeOK, PredecessorsAreRevoked
<1> QED BY <1>3, <1>4, <1>5, <1>6 DEF RotationInvariant

LEMMA ProcessKeepsRotation ==
    ASSUME RotationInvariant, NEW r \in Arrivals, Process(r)
    PROVE  RotationInvariant'
<1>1. CASE Check(r)
  <2>1. /\ UNCHANGED <<session, replaced, is_active>>
        /\ requests[r].stage = "sent"
        /\ requests' = [requests EXCEPT ![r].stage = "read"]
        /\ requests[r].kind \in {"refresh", "logout"} =>
              requests[r].cookie \in Sessions /\ session[requests[r].cookie] = "live"
    BY <1>1 DEF Check, At, MoveTo, Live
  <2>2. STypeOK' /\ CookiesAreIssued'
    BY <2>1 DEF RotationInvariant, STypeOK, CookiesAreIssued, Stage
  <2>3. TransactionsFit'
    <3>1. /\ requests[r].kind \in {"login", "refresh", "logout"}
          /\ requests'[r] = [requests[r] EXCEPT !.stage = "read"]
          /\ \A x \in Arrivals \ {r} : requests'[x] = requests[x]
      BY <1>1, <2>1 DEF Check, At, RotationInvariant, STypeOK
    <3>2. /\ requests'[r].kind = requests[r].kind /\ requests'[r].cookie = requests[r].cookie
          /\ requests'[r].grant = requests[r].grant /\ requests'[r].stage = "read"
      BY <3>1 DEF RotationInvariant, STypeOK
    <3> QED BY <2>1, <3>1, <3>2, SessionAssumption DEF RotationInvariant, TransactionsFit
  <2> QED BY <2>1, <2>2, <2>3 DEF RotationInvariant, PredecessorsAreRevoked
<1>2. CASE Refuse(r) \/ NothingToRevoke(r) \/ Fail(r)
  <2>1. /\ UNCHANGED <<session, replaced, is_active>>
        /\ requests[r].stage \in {"sent", "read"}
        /\ \E stage \in {"refused", "done"} : requests' = [requests EXCEPT ![r].stage = stage]
    BY <1>2 DEF Refuse, NothingToRevoke, Fail, MoveTo, At
  <2>2. STypeOK' /\ CookiesAreIssued'
    BY <2>1 DEF RotationInvariant, STypeOK, CookiesAreIssued, Stage
  <2>3. /\ requests'[r].stage \in {"refused", "done"}
        /\ requests'[r].kind = "login" => requests'[r].cookie = NoSession
        /\ \A x \in Arrivals \ {r} : requests'[x] = requests[x]
    BY <2>1 DEF RotationInvariant, STypeOK, TransactionsFit
  <2> QED BY <2>1, <2>2, <2>3, OutsideKeepsRotation
<1> QED BY <1>1, <1>2, WriteKeepsRotation, CommitKeepsRotation, RollbackKeepsRotation DEF Process

LEMMA FinishKeepsRotation ==
    ASSUME RotationInvariant, NEW r \in Arrivals, Finish(r), UNCHANGED server
    PROVE  RotationInvariant'
<1>1. STypeOK' /\ CookiesAreIssued'
  BY DEF Finish, Free, server, RotationInvariant, STypeOK, CookiesAreIssued, Kind, Stage
<1>2. TransactionsFit'
  BY DEF Finish, Free, server, RotationInvariant, STypeOK, TransactionsFit
<1> QED BY <1>1, <1>2 DEF server, RotationInvariant, PredecessorsAreRevoked

(* An administrator, or time, only revokes what is live.                   *)
LEMMA RevokeKeepsRotation ==
    ASSUME RotationInvariant, NEW revoked, Revoke(revoked), replaced' = replaced,
           is_active' = is_active, requests' = requests
    PROVE  RotationInvariant'
<1>1. \A s \in Sessions : \/ session'[s] = session[s]
                          \/ session[s] = "live" /\ session'[s] = "revoked"
  BY DEF Revoke, Live, RotationInvariant, STypeOK
<1>2. STypeOK'
  BY DEF Revoke, RotationInvariant, STypeOK
<1>3. CookiesAreIssued' /\ TransactionsFit' /\ PredecessorsAreRevoked'
  BY <1>1 DEF RotationInvariant, STypeOK, CookiesAreIssued, TransactionsFit, PredecessorsAreRevoked
<1> QED BY <1>2, <1>3 DEF RotationInvariant

LEMMA EndedKeepsRotation ==
    ASSUME RotationInvariant, SetPassword \/ SetActive \/ \E s \in Sessions : Lapse(s)
    PROVE  RotationInvariant'
<1>1. CASE SetPassword
  BY <1>1, RevokeKeepsRotation DEF SetPassword
<1>2. CASE SetActive
  BY <1>2 DEF SetActive, RotationInvariant, STypeOK, CookiesAreIssued, TransactionsFit,
              PredecessorsAreRevoked
<1>3. ASSUME NEW s \in Sessions, Lapse(s) PROVE RotationInvariant'
  BY <1>3, RevokeKeepsRotation DEF Lapse
<1> QED BY <1>1, <1>2, <1>3

LEMMA ServerStep == RotationInvariant /\ [SNext]_svars => RotationInvariant'
<1> SUFFICES ASSUME RotationInvariant, [SNext]_svars PROVE RotationInvariant'
  OBVIOUS
<1>1. ASSUME NEW r \in Arrivals, Arrive(r) PROVE RotationInvariant'
  <2>1. CASE Send(r, "login", NoSession)
    BY <2>1, SendKeepsRotation DEF Kind
  <2>2. ASSUME NEW s \in Sessions \cup {NoSession}, s = NoSession \/ session[s] # "none",
               Send(r, "refresh", s) \/ Send(r, "logout", s)
        PROVE  RotationInvariant'
    BY <2>2, SendKeepsRotation DEF Kind
  <2> QED BY <1>1, <2>1, <2>2 DEF Arrive
<1>2. ASSUME NEW r \in Arrivals, Answer(r) PROVE RotationInvariant'
  BY <1>2, FinishKeepsRotation DEF Answer, server
<1>3. CASE UNCHANGED svars
  BY <1>3 DEF svars, RotationInvariant, STypeOK, CookiesAreIssued, TransactionsFit,
              PredecessorsAreRevoked
<1> QED BY <1>1, <1>2, <1>3, ProcessKeepsRotation, EndedKeepsRotation DEF SNext

(* A session that a refresh has replaced never lives again, whatever the   *)
(* clients send and whatever else revokes sessions meanwhile.              *)
THEOREM RotationHolds == SSpec => []PredecessorsAreRevoked
<1>1. RotationInvariant => PredecessorsAreRevoked
  BY DEF RotationInvariant
<1> QED BY <1>1, ServerInit, ServerStep, PTL DEF SSpec

LEMMA RevokeEnds ==
    ASSUME RotationInvariant, NEW revoked, Revoke(revoked)
    PROVE  EndsForGood
BY DEF Revoke, Live, RotationInvariant, STypeOK, EndsForGood

LEMMA CommitEnds ==
    ASSUME RotationInvariant, NEW r \in Arrivals, CommitSession(r)
    PROVE  EndsForGood
<1>1. /\ requests[r].grant # NoSession => session[requests[r].grant] = "pending"
      /\ requests[r].cookie # NoSession => session[requests[r].cookie] \in {"live", "revoked"}
  BY DEF CommitSession, RotationInvariant, TransactionsFit
<1>2. \A s \in Sessions :
        session'[s] = IF s = requests[r].grant THEN "live"
                      ELSE IF s = requests[r].cookie THEN "revoked" ELSE session[s]
  BY DEF CommitSession
<1> QED BY <1>1, <1>2, SessionAssumption DEF EndsForGood

LEMMA RollbackEnds ==
    ASSUME RotationInvariant, NEW r \in Arrivals, Rollback(r)
    PROVE  EndsForGood
<1>1. requests[r].grant # NoSession => session[requests[r].grant] = "pending"
  BY DEF Rollback, RotationInvariant, TransactionsFit
<1>2. \A s \in Sessions :
        session'[s] = IF s = requests[r].grant THEN "void" ELSE session[s]
  BY DEF Rollback
<1> QED BY <1>1, <1>2, SessionAssumption DEF EndsForGood

LEMMA StepEnds == RotationInvariant /\ [SNext]_svars => [EndsForGood]_svars
<1> SUFFICES ASSUME RotationInvariant, SNext PROVE EndsForGood
  OBVIOUS
<1>1. CASE UNCHANGED session
  BY <1>1 DEF EndsForGood
<1>2. ASSUME NEW r \in Arrivals, Write(r) PROVE EndsForGood
  <2>1. \/ UNCHANGED session
        \/ /\ Fresh \in Sessions /\ session[Fresh] = "none"
           /\ session' = [session EXCEPT ![Fresh] = "pending"]
    BY <1>2, FreshIsNew DEF Write
  <2>2. ASSUME Fresh \in Sessions, session[Fresh] = "none",
               session' = [session EXCEPT ![Fresh] = "pending"]
        PROVE  EndsForGood
    BY <2>2 DEF EndsForGood, RotationInvariant, STypeOK
  <2> QED BY <1>1, <2>1, <2>2
<1>3. ASSUME NEW r \in Arrivals, Process(r) PROVE EndsForGood
  BY <1>1, <1>2, <1>3, CommitEnds, RollbackEnds
     DEF Process, Check, Refuse, NothingToRevoke, Fail
<1> QED BY <1>1, <1>3, RevokeEnds DEF SNext, Arrive, Send, Answer, SetPassword, SetActive, Lapse

(* No step of the server brings back a session that has ended, and none    *)
(* brings two to life, whatever requests and interventions overlap.        *)
THEOREM EndedForGood == SSpec => SessionsEndForGood
BY ServerInit, ServerStep, StepEnds, PTL DEF SSpec, SessionsEndForGood

-----------------------------------------------------------------------------
(* The browser's steps, as the server and the cookie see them.             *)

browser == <<cookie, spent>>

(* A request has been sent with the cookie, or without one.                *)
Sent(r) ==
    /\ Send(r, "login", NoSession) \/ Send(r, "refresh", cookie) \/ Send(r, "logout", cookie)
    /\ UNCHANGED browser

(* The reply to a request has come or is lost.                             *)
Over(r) ==
    /\ Replied(r)
    /\ Finish(r)
    /\ UNCHANGED server
    /\ \/ cookie' = CookieAfter(r) /\ UNCHANGED spent
       \/ /\ UNCHANGED cookie
          /\ spent' = IF requests[r].stage = "refused" THEN spent
                      ELSE spent \cup ({requests[r].cookie} \ {NoSession})

BrowserStep ==
    \/ \E r \in Arrivals : Sent(r) \/ Over(r) \/ (Process(r) /\ UNCHANGED browser)
    \/ Ended /\ UNCHANGED cookie
    \/ UNCHANGED <<svars, browser>>

LEMMA StepsOfBrowser == [ACNext]_cvars => BrowserStep
<1> SUFFICES ASSUME [ACNext]_cvars PROVE BrowserStep
  OBVIOUS
<1>1. ASSUME NEW t \in Tabs, NEW r \in Arrivals, NEW kind \in {"login", "refresh", "logout"},
             Ask(t, r, kind)
      PROVE  BrowserStep
  BY <1>1 DEF Ask, Sent, BrowserStep, browser, Kind
<1>2. ASSUME NEW c \in Calls, CallStep(c) PROVE BrowserStep
  <2>1. ASSUME NEW r \in Arrivals, StartRefresh(c, r) PROVE BrowserStep
    BY <2>1, <1>1, ClientAssumption DEF StartRefresh
  <2>2. CASE MakeCall(c) \/ EndCall(c) \/ JoinQueue(c)
    BY <2>2 DEF MakeCall, EndCall, JoinQueue, BrowserStep, browser
  <2> QED BY <1>2, <2>1, <2>2 DEF CallStep
<1>3. ASSUME NEW t \in Tabs, TabStep(t) PROVE BrowserStep
  <2>1. CASE TokenExpires(t) \/ Reload(t)
    BY <2>1 DEF TokenExpires, Reload, BrowserStep, browser
  <2>2. ASSUME NEW r \in Arrivals, Bootstrap(t, r) \/ LogIn(t, r) \/ AskLogOut(t, r)
        PROVE  BrowserStep
    BY <2>2, <1>1 DEF Bootstrap, LogIn, AskLogOut
  <2> QED BY <1>3, <2>1, <2>2 DEF TabStep
<1>4. ASSUME NEW r \in Arrivals, RequestStep(r) PROVE BrowserStep
  <2>1. CASE Process(r) /\ UNCHANGED <<cookie, tabs, asker, spent>>
    BY <2>1 DEF BrowserStep, browser
  <2>2. CASE Reply(r)
    BY <2>2 DEF Reply, Over, BrowserStep
  <2>3. CASE TimeOut(r)
    BY <2>3 DEF TimeOut, BrowserStep, browser
  <2>4. CASE LateCookie(r)
    BY <2>4 DEF LateCookie, Over, BrowserStep
  <2>5. CASE LoseReply(r)
    BY <2>5 DEF LoseReply, Over, BrowserStep
  <2> QED BY <1>4, <2>1, <2>2, <2>3, <2>4, <2>5 DEF RequestStep
<1>5. CASE Ended /\ UNCHANGED <<cookie, tabs, asker>>
  BY <1>5 DEF BrowserStep
<1>6. CASE UNCHANGED cvars
  BY <1>6 DEF cvars, BrowserStep, browser
<1> QED BY <1>2, <1>3, <1>4, <1>5, <1>6 DEF ACNext

(* A session in a reply that has not arrived is known to nobody else, and  *)
(* good unless it was ended from elsewhere.                                *)
Granted(r) ==
    /\ Replied(r) /\ requests[r].stage # "refused"
    /\ requests[r].grant # NoSession

GrantsAreSecret ==
    \A r \in Arrivals : Granted(r) =>
        LET new == requests[r].grant
        IN  /\ session[new] \in {"pending", "live", "void"} \/ new \in spent
            /\ session[new] # "none"
            /\ new # cookie
            /\ \A other \in Arrivals : requests[other].cookie # new
            /\ \A other \in Arrivals \ {r} : Granted(other) => requests[other].grant # new

(* A transaction whose reply has gone does not revoke the browser's        *)
(* session behind its back.                                                *)
AnswersAreKnown ==
    \A r \in Arrivals : requests[r].answered /\ requests[r].cookie # NoSession =>
        requests[r].cookie # cookie \/ requests[r].cookie \in spent

CookieIsIssued == cookie # NoSession => session[cookie] # "none"

CookieInvariant ==
    /\ RotationInvariant
    /\ cookie \in Sessions \cup {NoSession}
    /\ spent \subseteq Sessions
    /\ CookieIsIssued
    /\ GrantsAreSecret
    /\ AnswersAreKnown
    /\ CookieIsGood

LEMMA CookieInit == ACInit => CookieInvariant
<1> SUFFICES ASSUME ACInit PROVE CookieInvariant
  OBVIOUS
<1>1. RotationInvariant
  BY ServerInit DEF ACInit
<1>2. GrantsAreSecret /\ AnswersAreKnown
  BY DEF ACInit, SInit, Free, GrantsAreSecret, AnswersAreKnown, Granted
<1> QED BY <1>1, <1>2 DEF ACInit, CookieInvariant, CookieIsIssued, CookieIsGood

LEMMA SentKeepsCookie ==
    ASSUME CookieInvariant, NEW r \in Arrivals, Sent(r)
    PROVE  CookieInvariant'
<1>1. PICK kind \in Kind, s \in {NoSession, cookie} :
        Send(r, kind, s) /\ (kind = "login" => s = NoSession)
  BY DEF Sent, Kind
<1>2. s \in Sessions \cup {NoSession} /\ (s # NoSession => session[s] # "none")
  BY DEF CookieInvariant, CookieIsIssued
<1>3. RotationInvariant'
  BY <1>1, <1>2, SendKeepsRotation DEF CookieInvariant
<1>4. /\ UNCHANGED <<session, cookie, spent>>
      /\ requests[r] = Free
      /\ requests'[r] = Request(kind, s)
      /\ \A x \in Arrivals \ {r} : requests'[x] = requests[x]
  BY <1>1 DEF Send, Sent, browser, CookieInvariant, RotationInvariant, STypeOK
<1>5. ~Granted(r)' /\ ~requests'[r].answered /\ requests'[r].cookie = s
  BY <1>4 DEF Granted, Replied, Request
<1>6. \A x \in Arrivals \ {r} : Granted(x)' <=> Granted(x)
  BY <1>4 DEF Granted, Replied
<1>7. GrantsAreSecret'
  <2> SUFFICES ASSUME NEW x \in Arrivals \ {r}, Granted(x)
               PROVE  /\ session'[requests[x].grant] \in {"pending", "live", "void"}
                           \/ requests[x].grant \in spent'
                      /\ session'[requests[x].grant] # "none"
                      /\ requests[x].grant # cookie'
                      /\ \A o \in Arrivals : requests'[o].cookie # requests[x].grant
                      /\ \A o \in Arrivals \ {x, r} : Granted(o) => requests[o].grant # requests[x].grant
    BY <1>4, <1>5, <1>6 DEF GrantsAreSecret
  <2>1. requests[x].grant # NoSession
    BY DEF Granted
  <2>2. \A o \in Arrivals : requests'[o].cookie # requests[x].grant
    BY <1>4, <1>5, <2>1 DEF CookieInvariant, GrantsAreSecret
  <2> QED BY <1>4, <2>2 DEF CookieInvariant, GrantsAreSecret
<1>8. AnswersAreKnown' /\ CookieIsIssued'
  BY <1>4, <1>5 DEF CookieInvariant, AnswersAreKnown, CookieIsIssued
<1>9. CookieIsGood'
  BY <1>4 DEF CookieInvariant, CookieIsGood, Replied, Free
<1> QED BY <1>3, <1>4, <1>7, <1>8, <1>9 DEF CookieInvariant

LEMMA OverKeepsCookie ==
    ASSUME CookieInvariant, NEW r \in Arrivals, Over(r)
    PROVE  CookieInvariant'
<1>1. RotationInvariant'
  BY FinishKeepsRotation DEF Over, CookieInvariant
<1>2. /\ session' = session
      /\ Replied(r)
      /\ requests'[r] = Free \/ requests'[r] = [requests[r] EXCEPT !.answered = TRUE]
      /\ \A x \in Arrivals \ {r} : requests'[x] = requests[x]
  BY DEF Over, Finish, server, CookieInvariant, RotationInvariant, STypeOK
<1>3. /\ ~Replied(r)'
      /\ requests'[r].cookie \in {requests[r].cookie, NoSession}
      /\ \A x \in Arrivals \ {r} : Replied(x)' <=> Replied(x)
  BY <1>2 DEF Replied, Free, CookieInvariant, RotationInvariant, STypeOK
<1>4. /\ requests[r].cookie \in Sessions \cup {NoSession}
      /\ requests[r].grant \in Sessions \cup {NoSession}
      /\ spent \subseteq spent' /\ spent' \subseteq Sessions
  BY DEF Over, CookieInvariant, RotationInvariant, STypeOK
<1>5. \/ cookie' = cookie
      \/ cookie' = NoSession
      \/ Granted(r) /\ cookie' = requests[r].grant
  BY <1>2 DEF Over, CookieAfter, Granted
<1>6. cookie' \in Sessions \cup {NoSession} /\ CookieIsIssued'
  BY <1>2, <1>4, <1>5 DEF CookieInvariant, CookieIsIssued, GrantsAreSecret
<1>7. GrantsAreSecret'
  <2>1. ~Granted(r)' /\ \A x \in Arrivals \ {r} : Granted(x)' <=> Granted(x)
    BY <1>2, <1>3 DEF Granted
  <2> SUFFICES ASSUME NEW x \in Arrivals \ {r}, Granted(x)
               PROVE  /\ session'[requests[x].grant] \in {"pending", "live", "void"}
                           \/ requests[x].grant \in spent'
                      /\ session'[requests[x].grant] # "none"
                      /\ requests[x].grant # cookie'
                      /\ \A o \in Arrivals : requests'[o].cookie # requests[x].grant
                      /\ \A o \in Arrivals \ {x, r} : Granted(o) => requests[o].grant # requests[x].grant
    BY <1>2, <2>1 DEF GrantsAreSecret
  <2>2. requests[x].grant # NoSession
    BY DEF Granted
  <2>3. requests[x].grant # cookie'
    BY <1>5, <2>2 DEF CookieInvariant, GrantsAreSecret
  <2>4. \A o \in Arrivals : requests'[o].cookie # requests[x].grant
    BY <1>2, <1>3, <2>2 DEF CookieInvariant, GrantsAreSecret
  <2> QED BY <1>2, <1>4, <2>3, <2>4 DEF CookieInvariant, GrantsAreSecret
<1>8. requests[r].stage # "refused" /\ requests[r].cookie # NoSession =>
        requests[r].cookie # cookie' \/ requests[r].cookie \in spent'
  <2> SUFFICES ASSUME requests[r].stage # "refused", cookie' = CookieAfter(r),
                      requests[r].cookie # NoSession
               PROVE  requests[r].cookie # cookie'
    BY <1>4 DEF Over
  <2>1. CASE requests[r].grant = NoSession
    BY <2>1 DEF CookieAfter
  <2>2. CASE requests[r].grant # NoSession
    BY <1>2, <2>2 DEF CookieAfter, Granted, CookieInvariant, GrantsAreSecret
  <2> QED BY <2>1, <2>2
<1>9. AnswersAreKnown'
  <2> SUFFICES ASSUME NEW x \in Arrivals, requests'[x].answered, requests'[x].cookie # NoSession
               PROVE  requests'[x].cookie # cookie' \/ requests'[x].cookie \in spent'
    BY DEF AnswersAreKnown
  <2>1. CASE x = r
    <3>1. requests'[r] = [requests[r] EXCEPT !.answered = TRUE]
      BY <1>2, <2>1 DEF Free
    <3>2. requests[r].stage = "written"
      <4>1. requests'[r].stage = "written"
        BY <1>1, <2>1 DEF RotationInvariant, STypeOK
      <4> QED BY <3>1, <4>1 DEF CookieInvariant, RotationInvariant, STypeOK
    <3>3. requests'[r].cookie = requests[r].cookie
      BY <3>1 DEF CookieInvariant, RotationInvariant, STypeOK
    <3> QED BY <1>8, <2>1, <3>2, <3>3
  <2>2. CASE x # r
    BY <1>2, <1>4, <1>5, <2>2 DEF CookieInvariant, AnswersAreKnown, GrantsAreSecret
  <2> QED BY <2>1, <2>2
<1>10. CookieIsGood'
  <2> SUFFICES ASSUME cookie' # NoSession, cookie' \notin spent',
                      session'[cookie'] \notin {"live", "pending", "void"}
               PROVE  \E x \in Arrivals : /\ requests'[x].cookie = cookie'
                                          /\ Replied(x)' /\ requests'[x].stage # "refused"
    BY DEF CookieIsGood
  <2>1. cookie' = cookie
    BY <1>2, <1>4, <1>5 DEF CookieInvariant, GrantsAreSecret
  <2>2. PICK x \in Arrivals : /\ requests[x].cookie = cookie
                              /\ Replied(x) /\ requests[x].stage # "refused"
    BY <1>2, <1>4, <2>1 DEF CookieInvariant, CookieIsGood
  <2>3. x # r
    BY <1>8, <2>1, <2>2
  <2> QED BY <1>2, <1>3, <2>1, <2>2, <2>3
<1> QED BY <1>1, <1>4, <1>6, <1>7, <1>9, <1>10 DEF CookieInvariant

(* What a step of the server does to sessions and replies, as far as the   *)
(* cookie is concerned.                                                    *)
LEMMA ServerKeepsCookie ==
    ASSUME CookieInvariant, RotationInvariant', UNCHANGED browser, NEW r \in Arrivals,
           \A x \in Arrivals \ {r} : requests'[x] = requests[x],
           requests'[r] # Free => /\ requests'[r].cookie = requests[r].cookie
                                  /\ requests'[r].answered = requests[r].answered,
           Granted(r)' => Granted(r) /\ requests'[r].grant = requests[r].grant,
           Replied(r) /\ requests[r].stage # "refused" =>
               Replied(r)' /\ requests'[r].stage # "refused" /\ requests'[r] # Free,
           \A s \in Sessions : session[s] # "none" => session'[s] # "none",
           \A s \in Sessions :
               session[s] \in {"pending", "live", "void"} =>
                   \/ session'[s] \in {"pending", "live", "void"}
                   \/ /\ s = requests[r].cookie
                      /\ \/ requests[r].answered
                         \/ Replied(r)' /\ requests'[r].stage # "refused" /\ requests'[r] # Free
    PROVE  CookieInvariant'
<1>1. cookie' = cookie /\ spent' = spent
  BY DEF browser
<1>2. /\ \A x \in Arrivals : Granted(x)' => Granted(x) /\ requests'[x].grant = requests[x].grant
      /\ \A x \in Arrivals : requests'[x].cookie \in {requests[x].cookie, NoSession}
  BY DEF Granted, Replied, Free
<1>3. GrantsAreSecret'
  <2> SUFFICES ASSUME NEW x \in Arrivals, Granted(x), Granted(x)'
               PROVE  /\ session'[requests[x].grant] \in {"pending", "live", "void"}
                           \/ requests[x].grant \in spent
                      /\ session'[requests[x].grant] # "none"
                      /\ requests[x].grant # cookie
                      /\ \A o \in Arrivals : requests'[o].cookie # requests[x].grant
                      /\ \A o \in Arrivals \ {x} : Granted(o) => requests[o].grant # requests[x].grant
    BY <1>1, <1>2 DEF GrantsAreSecret
  <2>1. /\ requests[x].grant \in Sessions
        /\ session[requests[x].grant] \in {"pending", "live", "void"} \/ requests[x].grant \in spent
        /\ session[requests[x].grant] # "none"
        /\ requests[x].grant # cookie
        /\ \A o \in Arrivals : requests[o].cookie # requests[x].grant
        /\ \A o \in Arrivals \ {x} : Granted(o) => requests[o].grant # requests[x].grant
    BY DEF Granted, CookieInvariant, GrantsAreSecret, RotationInvariant, STypeOK
  <2>2. \A o \in Arrivals : requests'[o].cookie # requests[x].grant
    BY <1>2, <2>1, SessionAssumption
  <2> QED BY <2>1, <2>2
<1>4. AnswersAreKnown'
  BY <1>1 DEF CookieInvariant, AnswersAreKnown, Free
<1>5. CookieIsIssued'
  BY <1>1 DEF CookieInvariant, CookieIsIssued
<1>6. CookieIsGood'
  <2> SUFFICES ASSUME cookie # NoSession, cookie \notin spent,
                      session'[cookie] \notin {"live", "pending", "void"}
               PROVE  \E x \in Arrivals : /\ requests'[x].cookie = cookie
                                          /\ Replied(x)' /\ requests'[x].stage # "refused"
    BY <1>1 DEF CookieIsGood
  <2>1. CASE session[cookie] \in {"live", "pending", "void"}
    <3>1. /\ cookie = requests[r].cookie
          /\ \/ requests[r].answered
             \/ Replied(r)' /\ requests'[r].stage # "refused" /\ requests'[r] # Free
      BY <2>1 DEF CookieInvariant
    <3>2. ~requests[r].answered
      BY <3>1 DEF CookieInvariant, AnswersAreKnown
    <3> QED BY <3>1, <3>2
  <2>2. CASE session[cookie] \notin {"live", "pending", "void"}
    <3>1. PICK x \in Arrivals : /\ requests[x].cookie = cookie
                                /\ Replied(x) /\ requests[x].stage # "refused"
      BY <2>2 DEF CookieInvariant, CookieIsGood
    <3>2. x # r => Replied(x)' /\ requests'[x] = requests[x]
      BY <3>1 DEF Replied
    <3>3. x = r => Replied(x)' /\ requests'[x].stage # "refused" /\ requests'[x].cookie = cookie
      BY <3>1
    <3> QED BY <3>1, <3>2, <3>3
  <2> QED BY <2>1, <2>2
<1> QED BY <1>1, <1>3, <1>4, <1>5, <1>6 DEF CookieInvariant

LEMMA WriteKeepsCookie ==
    ASSUME CookieInvariant, NEW r \in Arrivals, Write(r), UNCHANGED browser,
           requests[r].kind # "logout"
    PROVE  CookieInvariant'
<1>1. /\ RotationInvariant' /\ cookie' = cookie /\ spent' = spent
  BY WriteKeepsRotation DEF CookieInvariant, browser
<1>2. /\ Fresh \in Sessions /\ session[Fresh] = "none"
      /\ session' = [session EXCEPT ![Fresh] = "pending"]
      /\ requests[r].stage = "read"
      /\ requests'[r] = [requests[r] EXCEPT !.stage = "written", !.grant = Fresh]
      /\ \A x \in Arrivals \ {r} : requests'[x] = requests[x]
  BY FreshIsNew DEF Write, CookieInvariant, RotationInvariant, STypeOK
<1>3. /\ \A x \in Arrivals : /\ requests'[x].cookie = requests[x].cookie
                             /\ requests'[x].answered = requests[x].answered
      /\ \A x \in Arrivals \ {r} : Granted(x)' <=> Granted(x)
      /\ \A x \in Arrivals : Replied(x) /\ requests[x].stage # "refused" =>
            Replied(x)' /\ requests'[x].stage # "refused"
      /\ requests'[r].grant = Fresh
  <2>1. /\ requests'[r].cookie = requests[r].cookie
        /\ requests'[r].answered = requests[r].answered
        /\ requests'[r].grant = Fresh
    BY <1>2 DEF CookieInvariant, RotationInvariant, STypeOK
  <2>2. ~Replied(r)
    BY <1>2 DEF Replied
  <2>3. \A x \in Arrivals \ {r} : /\ Granted(x)' <=> Granted(x)
                                  /\ Replied(x)' <=> Replied(x)
    BY <1>2 DEF Granted, Replied
  <2>4. \A x \in Arrivals : Replied(x) /\ requests[x].stage # "refused" =>
          Replied(x)' /\ requests'[x].stage # "refused"
    <3> SUFFICES ASSUME NEW x \in Arrivals \ {r}, Replied(x), requests[x].stage # "refused"
                 PROVE  Replied(x)' /\ requests'[x].stage # "refused"
      BY <2>2
    <3> QED BY <1>2, <2>3
  <2>5. \A x \in Arrivals : /\ requests'[x].cookie = requests[x].cookie
                           /\ requests'[x].answered = requests[x].answered
    BY <1>2, <2>1
  <2> QED BY <2>1, <2>3, <2>4, <2>5
<1>4. /\ Fresh # cookie
      /\ \A x \in Arrivals : requests[x].cookie # Fresh
      /\ \A x \in Arrivals : Granted(x) => requests[x].grant # Fresh
  BY <1>2, SessionAssumption DEF CookieInvariant, CookieIsIssued, GrantsAreSecret,
     RotationInvariant, CookiesAreIssued
<1>5. /\ session'[Fresh] = "pending"
      /\ \A s \in Sessions \ {Fresh} : session'[s] = session[s]
  BY <1>2 DEF CookieInvariant, RotationInvariant, STypeOK
<1>6. ASSUME NEW x \in Arrivals, Granted(x)'
      PROVE  LET new == requests'[x].grant
             IN  /\ session'[new] \in {"pending", "live", "void"} \/ new \in spent'
                 /\ session'[new] # "none"
                 /\ new # cookie'
                 /\ \A o \in Arrivals : requests'[o].cookie # new
                 /\ \A o \in Arrivals \ {x} : Granted(o)' => requests'[o].grant # new
  <2>1. CASE x = r
    <3>1. session'[Fresh] = "pending" /\ Fresh # cookie'
      BY <1>1, <1>4, <1>5
    <3>2. \A o \in Arrivals : requests'[o].cookie # Fresh
      BY <1>3, <1>4
    <3>3. \A o \in Arrivals \ {r} : Granted(o)' => requests'[o].grant # Fresh
      BY <1>2, <1>3, <1>4
    <3> QED BY <1>3, <2>1, <3>1, <3>2, <3>3
  <2>2. CASE x # r
    <3>1. /\ Granted(x) /\ requests'[x] = requests[x]
          /\ requests[x].grant \in Sessions \ {Fresh}
      BY <1>2, <1>3, <1>4, <1>6, <2>2 DEF CookieInvariant, RotationInvariant, STypeOK, Granted
    <3>2. /\ session[requests[x].grant] \in {"pending", "live", "void"}
                \/ requests[x].grant \in spent
          /\ session[requests[x].grant] # "none"
          /\ requests[x].grant # cookie
          /\ \A o \in Arrivals : requests[o].cookie # requests[x].grant
          /\ \A o \in Arrivals \ {x} : Granted(o) => requests[o].grant # requests[x].grant
      BY <3>1 DEF CookieInvariant, GrantsAreSecret
    <3>3. \A o \in Arrivals \ {x} : Granted(o)' => requests'[o].grant # requests[x].grant
      BY <1>2, <1>3, <3>1, <3>2
    <3> QED BY <1>1, <1>3, <1>5, <3>1, <3>2, <3>3
  <2> QED BY <2>1, <2>2
<1>7. GrantsAreSecret'
  BY <1>6 DEF GrantsAreSecret
<1>8. AnswersAreKnown' /\ CookieIsIssued'
  BY <1>1, <1>3, <1>4, <1>5 DEF CookieInvariant, AnswersAreKnown, CookieIsIssued
<1>9. CookieIsGood'
  BY <1>1, <1>3, <1>4, <1>5 DEF CookieInvariant, CookieIsGood
<1> QED BY <1>1, <1>7, <1>8, <1>9 DEF CookieInvariant

LEMMA ProcessKeepsCookie ==
    ASSUME CookieInvariant, NEW r \in Arrivals, Process(r), UNCHANGED browser
    PROVE  CookieInvariant'
<1>1. RotationInvariant' /\ RotationInvariant /\ STypeOK
  BY ProcessKeepsRotation DEF CookieInvariant, RotationInvariant
<1>2. ASSUME NEW stage \in Stage, MoveTo(r, stage), session' = session,
             requests[r].stage \in {"sent", "read"}
      PROVE  CookieInvariant'
  <2>1. /\ requests'[r] = [requests[r] EXCEPT !.stage = stage]
        /\ \A x \in Arrivals \ {r} : requests'[x] = requests[x]
        /\ requests[r].grant = NoSession
        /\ ~requests[r].answered
    BY <1>1, <1>2 DEF MoveTo, STypeOK, RotationInvariant, TransactionsFit
  <2>2. /\ requests'[r].cookie = requests[r].cookie /\ requests'[r].grant = NoSession
        /\ requests'[r].answered = requests[r].answered
    BY <1>1, <2>1 DEF STypeOK
  <2>3. ~Granted(r)' /\ ~Replied(r)
    BY <1>2, <2>2 DEF Granted, Replied
  <2> QED BY <1>1, <1>2, <2>1, <2>2, <2>3, ServerKeepsCookie
<1>3. CASE Check(r) \/ Refuse(r) \/ NothingToRevoke(r) \/ Fail(r)
  BY <1>2, <1>3 DEF Check, Refuse, NothingToRevoke, Fail, At, Stage
<1>4. CASE Write(r)
  <2>1. CASE requests[r].kind = "logout"
    BY <1>2, <1>4, <2>1 DEF Write, Stage
  <2> QED BY <1>4, <2>1, WriteKeepsCookie
<1>5. CASE CommitSession(r) \/ Rollback(r)
  <2>1. requests[r].stage = "written" /\ Settle(r)
    BY <1>5 DEF CommitSession, Rollback
  <2>2. /\ requests[r].answered => requests'[r] = Free
        /\ ~requests[r].answered => requests'[r] = [requests[r] EXCEPT !.stage = "done"]
        /\ \A x \in Arrivals \ {r} : requests'[x] = requests[x]
    BY <1>1, <2>1, SettledRequests
  <2>3. ~requests[r].answered =>
          /\ requests'[r].cookie = requests[r].cookie /\ requests'[r].grant = requests[r].grant
          /\ requests'[r].stage = "done" /\ ~requests'[r].answered
          /\ requests'[r] # Free
    BY <1>1, <2>2 DEF STypeOK, Free
  <2>4. /\ Granted(r)' => Granted(r) /\ requests'[r].grant = requests[r].grant
        /\ ~requests[r].answered => Replied(r)' /\ requests'[r].stage # "refused"
        /\ Replied(r) => ~requests[r].answered
    BY <2>1, <2>2, <2>3 DEF Granted, Replied, Free
  <2>5. /\ \A s \in Sessions : session[s] # "none" => session'[s] # "none"
        /\ \A s \in Sessions \ {requests[r].cookie} :
             session[s] \in {"pending", "live", "void"} =>
                 session'[s] \in {"pending", "live", "void"}
    <3>1. CASE CommitSession(r)
      BY <3>1 DEF CommitSession
    <3>2. CASE Rollback(r)
      BY <3>2 DEF Rollback
    <3> QED BY <1>5, <3>1, <3>2
  <2>6. /\ requests'[r] # Free => /\ requests'[r].cookie = requests[r].cookie
                                  /\ requests'[r].answered = requests[r].answered
        /\ Replied(r) /\ requests[r].stage # "refused" =>
              Replied(r)' /\ requests'[r].stage # "refused" /\ requests'[r] # Free
    BY <1>1, <2>2, <2>3, <2>4 DEF STypeOK
  <2>7. \A s \in Sessions :
          session[s] \in {"pending", "live", "void"} =>
              \/ session'[s] \in {"pending", "live", "void"}
              \/ /\ s = requests[r].cookie
                 /\ \/ requests[r].answered
                    \/ Replied(r)' /\ requests'[r].stage # "refused" /\ requests'[r] # Free
    BY <2>3, <2>4, <2>5
  <2> QED BY <1>1, <2>2, <2>4, <2>5, <2>6, <2>7, ServerKeepsCookie
<1> QED BY <1>3, <1>4, <1>5 DEF Process

LEMMA EndedKeepsCookie ==
    ASSUME CookieInvariant, Ended, UNCHANGED cookie
    PROVE  CookieInvariant'
<1>1. RotationInvariant'
  BY EndedKeepsRotation DEF Ended, CookieInvariant
<1>2. requests' = requests
  BY DEF Ended, SetPassword, SetActive, Lapse
<1>3. /\ \A s \in Sessions : session[s] # "none" => session'[s] # "none"
      /\ \A s \in Sessions : session[s] \in {"pending", "live", "void"} =>
            session'[s] \in {"pending", "live", "void"} \/ s \in spent'
      /\ spent \subseteq spent' /\ spent' \subseteq Sessions
  <2>1. CASE SetPassword /\ spent' = spent \cup Live
    BY <2>1 DEF SetPassword, Revoke, Live, CookieInvariant, RotationInvariant, STypeOK
  <2>2. CASE SetActive /\ UNCHANGED spent
    BY <2>2 DEF SetActive, CookieInvariant
  <2>3. ASSUME NEW s \in Sessions, Lapse(s), spent' = spent \cup {s}
        PROVE  /\ \A x \in Sessions : session[x] # "none" => session'[x] # "none"
               /\ \A x \in Sessions : session[x] \in {"pending", "live", "void"} =>
                     session'[x] \in {"pending", "live", "void"} \/ x \in spent'
               /\ spent \subseteq spent' /\ spent' \subseteq Sessions
    BY <2>3 DEF Lapse, Revoke, Live, CookieInvariant, RotationInvariant, STypeOK
  <2> QED BY <2>1, <2>2, <2>3 DEF Ended
<1>4. GrantsAreSecret'
  <2>1. \A x \in Arrivals : Granted(x) => requests[x].grant \in Sessions
    BY DEF Granted, CookieInvariant, RotationInvariant, STypeOK
  <2> QED BY <1>2, <1>3, <2>1 DEF CookieInvariant, GrantsAreSecret, Granted, Replied
<1>5. AnswersAreKnown' /\ CookieIsIssued'
  BY <1>2, <1>3 DEF CookieInvariant, AnswersAreKnown, CookieIsIssued
<1>6. CookieIsGood'
  BY <1>2, <1>3 DEF CookieInvariant, CookieIsGood, Replied
<1> QED BY <1>1, <1>3, <1>4, <1>5, <1>6 DEF CookieInvariant

LEMMA CookieStep == CookieInvariant /\ [ACNext]_cvars => CookieInvariant'
<1> SUFFICES ASSUME CookieInvariant, BrowserStep PROVE CookieInvariant'
  BY StepsOfBrowser
<1>1. CASE UNCHANGED <<svars, browser>>
  BY <1>1 DEF svars, browser, CookieInvariant, RotationInvariant, STypeOK, CookiesAreIssued,
     TransactionsFit, PredecessorsAreRevoked, CookieIsIssued, GrantsAreSecret, Granted, Replied,
     AnswersAreKnown, CookieIsGood
<1> QED BY <1>1, SentKeepsCookie, OverKeepsCookie, ProcessKeepsCookie, EndedKeepsCookie
        DEF BrowserStep

(* For any number of tabs that start, refresh, log in, log out and are     *)
(* reloaded at once, and any loss and delay of requests, replies and       *)
(* commits, the cookie is a session's that is alive or about to be, or its *)
(* replacement is on its way, unless the session was ended from elsewhere, *)
(* a reply was lost or a commit failed after its reply.                    *)
THEOREM CookieHolds == ACSpec => []CookieIsGood
<1>1. CookieInvariant => CookieIsGood
  BY DEF CookieInvariant
<1> QED BY <1>1, CookieInit, CookieStep, PTL DEF ACSpec

-----------------------------------------------------------------------------
(* The browser is one of the clients that RefreshSessions reckons with.    *)

LEMMA BrowserStepIsServerStep ==
    ASSUME CookieInvariant, BrowserStep
    PROVE  [SNext]_svars
<1>1. ASSUME NEW r \in Arrivals, Sent(r) PROVE SNext
  <2>1. cookie \in Sessions \cup {NoSession} /\ (cookie = NoSession \/ session[cookie] # "none")
    BY DEF CookieInvariant, CookieIsIssued
  <2> QED BY <1>1, <2>1 DEF Sent, SNext, Arrive
<1>2. ASSUME NEW r \in Arrivals, Over(r) PROVE SNext
  BY <1>2 DEF Over, SNext, Answer, server
<1>3. ASSUME NEW r \in Arrivals, Process(r) PROVE SNext
  BY <1>3 DEF SNext
<1>4. CASE Ended
  BY <1>4 DEF Ended, SNext
<1> QED BY <1>1, <1>2, <1>3, <1>4 DEF BrowserStep, svars

(* Whatever its tabs do, the browser never presents a token it has not     *)
(* been given, and what is proved of the server's sessions for any clients *)
(* holds of its own.                                                       *)
THEOREM BrowserIsAClient == ACSpec => SSpec
<1>1. ACInit => SInit
  BY DEF ACInit
<1>2. CookieInvariant /\ [ACNext]_cvars => [SNext]_svars
  BY StepsOfBrowser, BrowserStepIsServerStep
<1> QED BY <1>1, <1>2, CookieInit, CookieStep, PTL DEF ACSpec, SSpec

(* So what is proved of the server holds beside it.                        *)
THEOREM RotationBesideBrowser == ACSpec => []PredecessorsAreRevoked /\ SessionsEndForGood
BY BrowserIsAClient, RotationHolds, EndedForGood

-----------------------------------------------------------------------------
(* The queue.                                                              *)

(* What client.ts awaits is a refresh of its own tab, whose end will find  *)
(* it waiting; calls are kept waiting for nothing else.                    *)
QueueInvariant ==
    /\ refreshing \in [Tabs -> Arrivals \cup {Nobody}]
    /\ call \in [Calls -> CallState]
    /\ asker \in [Arrivals -> Tabs \cup {Nobody}]
    /\ \A r \in Arrivals : requests[r].answered => asker[r] = Nobody
    /\ \A t \in Tabs : refreshing[t] # Nobody =>
          asker[refreshing[t]] = t /\ requests[refreshing[t]].kind = "refresh"
    /\ \A c \in Calls : call[c] \in {"queued", "starting"} => refreshing[Tab(c)] # Nobody
    /\ \A c, d \in Calls :
          call[c] = "starting" /\ call[d] = "starting" /\ Tab(c) = Tab(d) => c = d

LEMMA QueueInvariantServes == QueueInvariant => QueueIsServed
BY ClientAssumption DEF QueueInvariant, QueueIsServed

LEMMA QueueInit == ACInit => QueueInvariant
BY DEF ACInit, SInit, Free, QueueInvariant, CallState

(* A step of one request, whatever it is, unless a tab that awaits it      *)
(* loses it.                                                               *)
LEMMA SameQueue ==
    ASSUME QueueInvariant, UNCHANGED <<refreshing, call>>, NEW r \in Arrivals,
           asker' \in [Arrivals -> Tabs \cup {Nobody}],
           \A x \in Arrivals \ {r} : requests'[x] = requests[x] /\ asker'[x] = asker[x],
           requests'[r].answered => asker'[r] = Nobody,
           \A t \in Tabs : refreshing[t] = r => asker'[r] = t /\ requests'[r].kind = "refresh"
    PROVE  QueueInvariant'
BY DEF QueueInvariant

LEMMA CallsKeepQueue ==
    ASSUME QueueInvariant, UNCHANGED <<requests, asker, refreshing>>,
           call' \in [Calls -> CallState],
           \A c \in Calls : call'[c] = "starting" => call[c] = "starting",
           \A c \in Calls : call'[c] = "queued" => refreshing[Tab(c)] # Nobody
    PROVE  QueueInvariant'
BY DEF QueueInvariant

LEMMA AskedRequest ==
    ASSUME STypeOK, QueueInvariant, NEW t \in Tabs, NEW r \in Arrivals, NEW kind, Ask(t, r, kind)
    PROVE  /\ \A u \in Tabs : refreshing[u] # r
           /\ requests'[r].kind = kind /\ ~requests'[r].answered
           /\ asker' \in [Arrivals -> Tabs \cup {Nobody}] /\ asker'[r] = t
           /\ \A x \in Arrivals \ {r} : requests'[x] = requests[x] /\ asker'[x] = asker[x]
<1>1. requests[r].kind = "none"
  BY DEF Ask, Send, Free
<1>2. \A u \in Tabs : refreshing[u] # r
  BY <1>1, ClientAssumption DEF QueueInvariant
<1> QED BY <1>2 DEF Ask, Send, Request, STypeOK, QueueInvariant

LEMMA CallKeepsQueue ==
    ASSUME STypeOK, QueueInvariant, NEW c \in Calls, CallStep(c)
    PROVE  QueueInvariant'
<1>1. CASE MakeCall(c) \/ EndCall(c) \/ JoinQueue(c)
  <2>1. /\ UNCHANGED <<requests, asker, refreshing>>
        /\ call' \in [Calls -> CallState]
        /\ \A d \in Calls \ {c} : call'[d] = call[d]
        /\ call'[c] # "starting"
        /\ call'[c] = "queued" => refreshing[Tab(c)] # Nobody
    BY <1>1 DEF MakeCall, EndCall, JoinQueue, svars, QueueInvariant, CallState
  <2>2. /\ \A d \in Calls : call'[d] = "starting" => call[d] = "starting"
        /\ \A d \in Calls : call'[d] = "queued" => refreshing[Tab(d)] # Nobody
    BY <2>1 DEF QueueInvariant
  <2> QED BY <2>1, <2>2, CallsKeepQueue
<1>2. ASSUME NEW r \in Arrivals, StartRefresh(c, r) PROVE QueueInvariant'
  <2> DEFINE t == Tab(c)
  <2>1. /\ t \in Tabs /\ refreshing[t] = Nobody
        /\ call' = [call EXCEPT ![c] = "starting"]
        /\ refreshing' = [refreshing EXCEPT ![t] = r]
        /\ Ask(t, r, "refresh")
    BY <1>2, ClientAssumption DEF StartRefresh
  <2>2. /\ \A u \in Tabs : refreshing[u] # r
        /\ requests'[r].kind = "refresh" /\ ~requests'[r].answered
        /\ asker' \in [Arrivals -> Tabs \cup {Nobody}] /\ asker'[r] = t
        /\ \A x \in Arrivals \ {r} : requests'[x] = requests[x] /\ asker'[x] = asker[x]
    BY <2>1, AskedRequest
  <2>3. refreshing' \in [Tabs -> Arrivals \cup {Nobody}] /\ call' \in [Calls -> CallState]
    BY <2>1 DEF QueueInvariant, CallState
  <2>4. \A x \in Arrivals : requests'[x].answered => asker'[x] = Nobody
    BY <2>2 DEF QueueInvariant
  <2>5. \A u \in Tabs : refreshing'[u] # Nobody =>
          asker'[refreshing'[u]] = u /\ requests'[refreshing'[u]].kind = "refresh"
    BY <2>1, <2>2 DEF QueueInvariant
  <2>6. \A d \in Calls : call'[d] \in {"queued", "starting"} => refreshing'[Tab(d)] # Nobody
    BY <2>1, ClientAssumption DEF QueueInvariant
  <2>7. \A d \in Calls : call[d] = "starting" => Tab(d) # t
    BY <2>1 DEF QueueInvariant
  <2>8. \A d, e \in Calls :
          call'[d] = "starting" /\ call'[e] = "starting" /\ Tab(d) = Tab(e) => d = e
    BY <2>1, <2>7 DEF QueueInvariant
  <2> QED BY <2>2, <2>3, <2>4, <2>5, <2>6, <2>8 DEF QueueInvariant
<1> QED BY <1>1, <1>2 DEF CallStep

LEMMA TabKeepsQueue ==
    ASSUME STypeOK, QueueInvariant, NEW t \in Tabs, TabStep(t)
    PROVE  QueueInvariant'
<1>1. CASE TokenExpires(t)
  <2>1. /\ UNCHANGED <<requests, asker, refreshing>>
        /\ call' \in [Calls -> CallState]
        /\ \A c \in Calls : call'[c] \in {"queued", "starting"} => call[c] = call'[c]
    BY <1>1 DEF TokenExpires, svars, QueueInvariant, CallState
  <2>2. /\ \A c \in Calls : call'[c] = "starting" => call[c] = "starting"
        /\ \A c \in Calls : call'[c] = "queued" => refreshing[Tab(c)] # Nobody
    BY <2>1 DEF QueueInvariant
  <2> QED BY <2>1, <2>2, CallsKeepQueue
<1>2. CASE Reload(t)
  <2>1. /\ requests' = requests
        /\ asker' \in [Arrivals -> Tabs \cup {Nobody}]
        /\ \A r \in Arrivals : asker'[r] = IF asker[r] = t THEN Nobody ELSE asker[r]
        /\ refreshing' = [refreshing EXCEPT ![t] = Nobody]
        /\ refreshing' \in [Tabs -> Arrivals \cup {Nobody}]
        /\ call' \in [Calls -> CallState]
        /\ \A c \in Calls : call'[c] = IF Tab(c) = t THEN "idle" ELSE call[c]
    BY <1>2 DEF Reload, svars, QueueInvariant, CallState
  <2>2. \A u \in Tabs : refreshing'[u] # Nobody =>
          asker'[refreshing'[u]] = u /\ requests'[refreshing'[u]].kind = "refresh"
    BY <2>1 DEF QueueInvariant
  <2>3. \A c \in Calls : call'[c] \in {"queued", "starting"} => refreshing'[Tab(c)] # Nobody
    BY <2>1, ClientAssumption DEF QueueInvariant
  <2> QED BY <2>1, <2>2, <2>3 DEF QueueInvariant
<1>3. ASSUME NEW r \in Arrivals, Bootstrap(t, r) \/ LogIn(t, r) \/ AskLogOut(t, r)
      PROVE  QueueInvariant'
  <2>1. UNCHANGED tabs /\ \E kind \in Kind : Ask(t, r, kind)
    BY <1>3 DEF Bootstrap, LogIn, AskLogOut, Kind
  <2> QED BY <2>1, AskedRequest, SameQueue DEF tabs
<1> QED BY <1>1, <1>2, <1>3 DEF TabStep

LEMMA EndKeepsQueue ==
    ASSUME QueueInvariant, NEW r \in Arrivals, asker[r] # Nobody, NEW success \in BOOLEAN,
           asker' = [asker EXCEPT ![r] = Nobody],
           \A x \in Arrivals \ {r} : requests'[x] = requests[x],
           End(asker[r], r, success)
    PROVE  QueueInvariant'
<1> DEFINE t == asker[r]
<1>1. /\ t \in Tabs
      /\ asker' \in [Arrivals -> Tabs \cup {Nobody}] /\ asker'[r] = Nobody
      /\ \A x \in Arrivals \ {r} : requests'[x] = requests[x] /\ asker'[x] = asker[x]
      /\ \A u \in Tabs \ {t} : refreshing[u] # r
  BY ClientAssumption DEF QueueInvariant
<1>2. CASE r = refreshing[t]
  <2>1. /\ refreshing' = [refreshing EXCEPT ![t] = Nobody]
        /\ refreshing' \in [Tabs -> Arrivals \cup {Nobody}]
        /\ call' \in [Calls -> CallState]
        /\ \A c \in Calls : Tab(c) = t => call'[c] \notin {"queued", "starting"}
        /\ \A c \in Calls : Tab(c) # t => call'[c] = call[c]
    <3>1. CASE Refreshed(t)
      BY <3>1 DEF Refreshed, SendAgain, QueueInvariant, CallState
    <3>2. CASE RefreshFailed(t)
      BY <3>2 DEF RefreshFailed, GiveUp, QueueInvariant, CallState
    <3>3. requests[r].kind = "refresh"
      BY <1>1, <1>2, ClientAssumption DEF QueueInvariant
    <3> QED BY <1>2, <3>1, <3>2, <3>3 DEF End
  <2>2. \A x \in Arrivals : requests'[x].answered => asker'[x] = Nobody
    BY <1>1 DEF QueueInvariant
  <2>3. \A u \in Tabs : refreshing'[u] # Nobody =>
          asker'[refreshing'[u]] = u /\ requests'[refreshing'[u]].kind = "refresh"
    BY <1>1, <2>1 DEF QueueInvariant
  <2>4. \A c \in Calls : call'[c] \in {"queued", "starting"} => refreshing'[Tab(c)] # Nobody
    BY <2>1, ClientAssumption DEF QueueInvariant
  <2> QED BY <1>1, <2>1, <2>2, <2>3, <2>4 DEF QueueInvariant
<1>3. CASE r # refreshing[t]
  <2>1. UNCHANGED <<refreshing, call>>
    BY <1>3 DEF End, BootstrapEnds, LoggedIn, LoggedOut, tabs
  <2> QED BY <1>1, <1>3, <2>1, SameQueue
<1> QED BY <1>2, <1>3

LEMMA RequestKeepsQueue ==
    ASSUME STypeOK, QueueInvariant, NEW r \in Arrivals, RequestStep(r)
    PROVE  QueueInvariant'
<1>1. ASSUME UNCHANGED <<tabs, asker>>,
             \A x \in Arrivals \ {r} : requests'[x] = requests[x],
             \/ requests'[r].kind = requests[r].kind /\ requests'[r].answered = requests[r].answered
             \/ asker[r] = Nobody
      PROVE  QueueInvariant'
  <2>1. requests'[r].answered => asker[r] = Nobody
    BY <1>1 DEF QueueInvariant
  <2>2. \A t \in Tabs : refreshing[t] = r => asker[r] = t /\ requests'[r].kind = "refresh"
    BY <1>1, ClientAssumption DEF QueueInvariant
  <2>3. asker' = asker /\ asker \in [Arrivals -> Tabs \cup {Nobody}] /\ UNCHANGED <<refreshing, call>>
    BY <1>1 DEF tabs, QueueInvariant
  <2> QED BY <1>1, <2>1, <2>2, <2>3, SameQueue
<1>2. CASE Process(r) /\ UNCHANGED <<cookie, tabs, asker, spent>>
  <2>1. ASSUME NEW stage, MoveTo(r, stage) PROVE QueueInvariant'
    <3>1. /\ \A x \in Arrivals \ {r} : requests'[x] = requests[x]
          /\ requests'[r].kind = requests[r].kind /\ requests'[r].answered = requests[r].answered
      BY <2>1 DEF MoveTo, STypeOK
    <3> QED BY <1>1, <1>2, <3>1
  <2>2. CASE Write(r) /\ requests[r].kind # "logout"
    <3>1. /\ \A x \in Arrivals \ {r} : requests'[x] = requests[x]
          /\ requests'[r].kind = requests[r].kind /\ requests'[r].answered = requests[r].answered
      BY <2>2 DEF Write, STypeOK
    <3> QED BY <1>1, <1>2, <3>1
  <2>3. CASE CommitSession(r) \/ Rollback(r)
    <3>1. requests[r].stage = "written" /\ Settle(r)
      BY <2>3 DEF CommitSession, Rollback
    <3>2. /\ requests[r].answered => requests'[r] = Free
          /\ ~requests[r].answered => requests'[r] = [requests[r] EXCEPT !.stage = "done"]
          /\ \A x \in Arrivals \ {r} : requests'[x] = requests[x]
      BY <3>1, SettledRequests
    <3>3. CASE requests[r].answered
      BY <1>1, <1>2, <3>2, <3>3 DEF QueueInvariant
    <3>4. CASE ~requests[r].answered
      <4>1. requests'[r].kind = requests[r].kind /\ requests'[r].answered = requests[r].answered
        BY <3>2, <3>4 DEF STypeOK
      <4> QED BY <1>1, <1>2, <3>2, <4>1
    <3> QED BY <3>3, <3>4
  <2>4. CASE Write(r) /\ requests[r].kind = "logout"
    BY <2>1, <2>4 DEF Write
  <2> QED BY <1>2, <2>1, <2>2, <2>3, <2>4 DEF Process, Check, Refuse, NothingToRevoke, Fail
<1>3. CASE LateCookie(r) \/ LoseReply(r)
  <2>1. asker[r] = Nobody /\ UNCHANGED <<tabs, asker>> /\ Finish(r)
    BY <1>3 DEF LateCookie, LoseReply
  <2>2. \A x \in Arrivals \ {r} : requests'[x] = requests[x]
    BY <2>1 DEF Finish, STypeOK
  <2> QED BY <1>1, <2>1, <2>2
<1>4. CASE Reply(r)
  <2>1. \A x \in Arrivals \ {r} : requests'[x] = requests[x]
    BY <1>4 DEF Reply, Finish, STypeOK
  <2> QED BY <1>4, <2>1, EndKeepsQueue DEF Reply
<1>5. CASE TimeOut(r)
  <2>1. requests' = requests
    BY <1>5 DEF TimeOut, svars
  <2> QED BY <1>5, <2>1, EndKeepsQueue DEF TimeOut
<1> QED BY <1>2, <1>3, <1>4, <1>5 DEF RequestStep

LEMMA QueueStep == STypeOK /\ QueueInvariant /\ [ACNext]_cvars => QueueInvariant'
<1> SUFFICES ASSUME STypeOK, QueueInvariant, [ACNext]_cvars PROVE QueueInvariant'
  OBVIOUS
<1>1. CASE (Ended /\ UNCHANGED <<cookie, tabs, asker>>) \/ UNCHANGED cvars
  <2>1. UNCHANGED <<refreshing, call, asker, requests>>
    BY <1>1 DEF Ended, SetPassword, SetActive, Lapse, cvars, svars, tabs
  <2> QED BY <2>1 DEF QueueInvariant
<1> QED BY <1>1, CallKeepsQueue, TabKeepsQueue, RequestKeepsQueue DEF ACNext

(* For any number of tabs and calls: of the calls that are refused at once *)
(* one starts a refresh, and the others wait for it no longer than it      *)
(* lasts.                                                                  *)
THEOREM QueueHolds == ACSpec => []QueueIsServed
<1>1. CookieInvariant => STypeOK
  BY DEF CookieInvariant, RotationInvariant
<1> QED BY <1>1, CookieInit, CookieStep, QueueInit, QueueStep, QueueInvariantServes, PTL DEF ACSpec
=============================================================================
