------------------------- MODULE ChatSessionsProofs -------------------------
(***************************************************************************)
(* Proofs about ChatSessions, for every set of reps, tabs, logins and      *)
(* callback requests: the invariants that MCChatSessions_tabs.cfg checks   *)
(* for two tabs of one browser.                                            *)
(***************************************************************************)
EXTENDS ChatSessions, TLAPS

-----------------------------------------------------------------------------
(* The inductive invariant. *)

(* A callback that removed the pending login itself and has not failed. *)
Running == {"exchange", "insert", "redirect"}
Claimed == Running \cup {"done"}

(* Nothing is known of a login before handleLogin has begun it.              *)
Begun ==
    \A l \in Logins : tabOf[l] = None =>
        /\ l \notin pendings
        /\ code[l] = "none"
        /\ exchanges[l] = 0

(* The critical section of handleCallback gives a login to one request, and  *)
(* the request that got it is the only one that can store its session.       *)
OneClaim ==
    \A v \in Visits :
        /\ visit[v].pc \in Claimed =>
              /\ visit[v].state \in Logins
              /\ visit[v].state \notin pendings
              /\ exchanges[visit[v].state] = 1
        /\ visit[v].pc \in Claimed \ {"exchange"} => code[visit[v].state] = "used"
        /\ \A w \in Visits :
              /\ visit[v].pc \in Claimed /\ visit[w].pc \in Claimed
              /\ visit[v].state = visit[w].state
              => v = w

(* The cookie is set by the last line of a callback: whoever holds it, no    *)
(* callback of that login is under way any more.                             *)
CookieSettled ==
    cookie # None =>
        /\ cookie \notin pendings
        /\ exchanges[cookie] = 1
        /\ \A v \in Visits : visit[v].state = cookie => visit[v].pc \notin Running

(* Keycloak knows whose code it is; a session and a tool call are of a login *)
(* that was redeemed, so nobody can become its user any more.                *)
Redeemed ==
    /\ \A l \in Logins : code[l] \in {"issued", "used"} => userOf[l] \in Users
    /\ \A t \in Tabs : call[t] # None => code[call[t]] = "used"

(* A tab that is loading its page with a tool call under way is one whose    *)
(* rep signed out while the call ran: a page that was reloaded has no call.  *)
LoadingMoved ==
    \A t \in Tabs : at[t] = "loading" /\ call[t] # None => t \in moved

IInv ==
    /\ TypeOK
    /\ Begun
    /\ OneExchangePerState
    /\ OneClaim
    /\ CookieSettled
    /\ Redeemed
    /\ LoadingMoved
    /\ SameSubUnlessMoved

-----------------------------------------------------------------------------
(* One lemma per conjunct: a step of the browser, of a callback or of        *)
(* Keycloak leaves it true.                                                  *)

LEMMA TypeInit == Init => TypeOK
BY DEF Init, TypeOK

LEMMA TypeStep == ASSUME IInv, [Next]_vars PROVE TypeOK'
<1> USE DEF IInv, TypeOK
<1>1. CASE UNCHANGED vars
  BY <1>1 DEF vars, keycloakVars, tabVars
<1>2. ASSUME NEW v \in Visits, NEW l \in Logins, CallbackError(v, l)
      PROVE  TypeOK'
  BY <1>2 DEF CallbackError, keycloakVars, tabVars
<1>3. ASSUME NEW v \in Visits, NEW l \in Logins, Callback(v, l)
      PROVE  TypeOK'
  BY <1>3 DEF Callback, keycloakVars, tabVars
<1>4. ASSUME NEW v \in Visits, TokenOk(v)
      PROVE  TypeOK'
  BY <1>4 DEF TokenOk, OneClaim, Claimed, Running, keycloakVars, tabVars
<1>5. ASSUME NEW v \in Visits, TokenFails(v)
      PROVE  TypeOK'
  BY <1>5 DEF TokenFails, keycloakVars, tabVars
<1>6. ASSUME NEW v \in Visits, Insert(v)
      PROVE  TypeOK'
  BY <1>6 DEF Insert, OneClaim, Claimed, Running, keycloakVars, tabVars
<1>7. ASSUME NEW v \in Visits, Redirect(v)
      PROVE  TypeOK'
  <2> DEFINE l == visit[v].state
  <2>1. l \in Logins
    BY <1>7 DEF Redirect, OneClaim, Claimed, Running
  <2>2. visit' = [visit EXCEPT ![v].pc = "done"] /\ cookie' = l /\ moved' = Tabs
    BY <1>7 DEF Redirect
  <2>3. UNCHANGED <<pendings, sessions, tabOf, userOf, code, exchanges>>
    BY <1>7 DEF Redirect, keycloakVars
  <2>4. LoadPage(tabOf[l])
    BY <1>7 DEF Redirect
  <2> HIDE DEF l
  <2>5. /\ at' \in [Tabs -> {"loading", "page", "away"}]
        /\ me' \in [Tabs -> Users \cup {None}]
        /\ call' \in [Tabs -> Logins \cup {None}]
        /\ shown' \in [Tabs -> [sso : Users \cup {None}, api : Users] \cup {None}]
    BY <2>4 DEF LoadPage
  <2> QED
    BY <2>1, <2>2, <2>3, <2>5
<1>8. ASSUME NEW t \in Tabs, NEW l \in Logins, Login(t, l)
      PROVE  TypeOK'
  BY <1>8 DEF Login, keycloakVars, tabVars
<1>9. ASSUME NEW t \in Tabs, GoBack(t)
      PROVE  TypeOK'
  BY <1>9 DEF GoBack, LoadPage, keycloakVars, tabVars
<1>10. ASSUME NEW t \in Tabs, Refresh(t)
       PROVE  TypeOK'
  BY <1>10 DEF Refresh, handleMe, sessionFor, keycloakVars, tabVars
<1>11. ASSUME NEW t \in Tabs, StartTool(t)
       PROVE  TypeOK'
  BY <1>11 DEF StartTool, sessionFor, keycloakVars, tabVars
<1>12. ASSUME NEW t \in Tabs, ToolAnswer(t)
       PROVE  TypeOK'
  BY <1>12 DEF ToolAnswer, Redeemed, keycloakVars, tabVars
<1>13. ASSUME NEW t \in Tabs, Logout(t)
       PROVE  TypeOK'
  BY <1>13 DEF Logout, keycloakVars, tabVars
<1>14. ASSUME NEW l \in Logins, NEW u \in Users, Authenticate(l, u)
       PROVE  TypeOK'
  BY <1>14 DEF Authenticate, keycloakVars, tabVars
<1>15. ASSUME NEW l \in Logins, AuthenticateFails(l)
       PROVE  TypeOK'
  BY <1>15 DEF AuthenticateFails, keycloakVars, tabVars
<1>16. CASE RestartChat
  BY <1>16 DEF RestartChat, keycloakVars, tabVars
<1> QED
  BY <1>1, <1>2, <1>3, <1>4, <1>5, <1>6, <1>7, <1>8, <1>9, <1>10, <1>11, <1>12, <1>13, <1>14,
     <1>15, <1>16 DEF Next, CallbackNext, TabNext, KeycloakNext

(* What a step of a callback does to its own request, and to no other.       *)
LEMMA VisitSteps ==
    ASSUME TypeOK, NEW v \in Visits
    PROVE  /\ TokenOk(v) => \A w \in Visits :
                 /\ visit'[w].state = visit[w].state
                 /\ visit'[w].pc = IF w = v THEN "insert" ELSE visit[w].pc
           /\ TokenFails(v) => \A w \in Visits :
                 /\ visit'[w].state = visit[w].state
                 /\ visit'[w].pc = IF w = v THEN "failed" ELSE visit[w].pc
           /\ Insert(v) => \A w \in Visits :
                 /\ visit'[w].state = visit[w].state
                 /\ visit'[w].pc = IF w = v THEN "redirect" ELSE visit[w].pc
           /\ Redirect(v) => \A w \in Visits :
                 /\ visit'[w].state = visit[w].state
                 /\ visit'[w].pc = IF w = v THEN "done" ELSE visit[w].pc
BY DEF TypeOK, TokenOk, TokenFails, Insert, Redirect

(* A restart fails every request that was under way.                         *)
LEMMA VisitRestart ==
    ASSUME TypeOK, RestartChat
    PROVE  \A w \in Visits :
              /\ visit'[w].state = visit[w].state
              /\ visit'[w].pc = IF visit[w].pc \in Running THEN "failed" ELSE visit[w].pc
BY DEF TypeOK, RestartChat, Running

LEMMA BegunStep == ASSUME IInv, [Next]_vars PROVE Begun'
<1> USE DEF IInv, TypeOK, Begun
<1>1. CASE UNCHANGED <<pendings, tabOf, code, exchanges>>
  BY <1>1
<1>2. ASSUME NEW v \in Visits, NEW l \in Logins, Callback(v, l)
      PROVE  Begun'
  BY <1>2 DEF Callback, keycloakVars
<1>3. ASSUME NEW v \in Visits, TokenOk(v)
      PROVE  Begun'
  BY <1>3 DEF TokenOk, OneClaim, Claimed, Running
<1>4. ASSUME NEW t \in Tabs, NEW l \in Logins, Login(t, l)
      PROVE  Begun'
  BY <1>4, SessionAssumption DEF Login, keycloakVars
<1>5. ASSUME NEW l \in Logins, NEW u \in Users, Authenticate(l, u)
      PROVE  Begun'
  BY <1>5 DEF Authenticate
<1>6. ASSUME NEW l \in Logins, AuthenticateFails(l)
      PROVE  Begun'
  BY <1>6 DEF AuthenticateFails
<1>7. CASE RestartChat
  BY <1>7 DEF RestartChat, keycloakVars
<1>8. ASSUME NEW v \in Visits, NEW l \in Logins,
             CallbackError(v, l) \/ TokenFails(v) \/ Insert(v) \/ Redirect(v)
      PROVE  UNCHANGED <<pendings, tabOf, code, exchanges>>
  BY <1>8 DEF CallbackError, TokenFails, Insert, Redirect, keycloakVars
<1>9. ASSUME NEW t \in Tabs, GoBack(t) \/ Refresh(t) \/ StartTool(t) \/ ToolAnswer(t) \/ Logout(t)
      PROVE  UNCHANGED <<pendings, tabOf, code, exchanges>>
  BY <1>9 DEF GoBack, Refresh, StartTool, ToolAnswer, Logout, keycloakVars
<1> QED
  BY <1>1, <1>2, <1>3, <1>4, <1>5, <1>6, <1>7, <1>8, <1>9
     DEF Next, CallbackNext, TabNext, KeycloakNext, vars, keycloakVars

LEMMA ExchangeStep == ASSUME IInv, [Next]_vars PROVE OneExchangePerState'
<1> USE DEF IInv, TypeOK, OneExchangePerState
<1>1. CASE UNCHANGED <<pendings, sessions, code, exchanges>>
  BY <1>1
<1>2. ASSUME NEW v \in Visits, NEW l \in Logins, Callback(v, l)
      PROVE  OneExchangePerState'
  BY <1>2 DEF Callback, keycloakVars
<1>3. ASSUME NEW v \in Visits, TokenOk(v)
      PROVE  OneExchangePerState'
  BY <1>3 DEF TokenOk, OneClaim, Claimed, Running
<1>4. ASSUME NEW v \in Visits, Insert(v)
      PROVE  OneExchangePerState'
  BY <1>4 DEF Insert, OneClaim, Claimed, Running, keycloakVars
<1>5. ASSUME NEW t \in Tabs, NEW l \in Logins, Login(t, l)
      PROVE  OneExchangePerState'
  BY <1>5 DEF Login, Begun, keycloakVars
<1>6. ASSUME NEW l \in Logins, NEW u \in Users, Authenticate(l, u)
      PROVE  OneExchangePerState'
  BY <1>6 DEF Authenticate
<1>7. ASSUME NEW l \in Logins, AuthenticateFails(l)
      PROVE  OneExchangePerState'
  BY <1>7 DEF AuthenticateFails
<1>8. ASSUME NEW t \in Tabs, Logout(t)
      PROVE  OneExchangePerState'
  BY <1>8 DEF Logout, keycloakVars
<1>9. CASE RestartChat
  BY <1>9 DEF RestartChat, keycloakVars
<1>10. ASSUME NEW v \in Visits, NEW l \in Logins,
              CallbackError(v, l) \/ TokenFails(v) \/ Redirect(v)
       PROVE  UNCHANGED <<pendings, sessions, code, exchanges>>
  BY <1>10 DEF CallbackError, TokenFails, Redirect, keycloakVars
<1>11. ASSUME NEW t \in Tabs, GoBack(t) \/ Refresh(t) \/ StartTool(t) \/ ToolAnswer(t)
       PROVE  UNCHANGED <<pendings, sessions, code, exchanges>>
  BY <1>11 DEF GoBack, Refresh, StartTool, ToolAnswer, keycloakVars
<1> QED
  BY <1>1, <1>2, <1>3, <1>4, <1>5, <1>6, <1>7, <1>8, <1>9, <1>10, <1>11
     DEF Next, CallbackNext, TabNext, KeycloakNext, vars, keycloakVars

LEMMA ClaimStep == ASSUME IInv, [Next]_vars PROVE OneClaim'
<1> USE DEF IInv, TypeOK, OneClaim, Claimed, Running
<1>1. CASE UNCHANGED <<pendings, visit, code, exchanges>>
  BY <1>1
<1>2. ASSUME NEW v \in Visits, NEW l \in Logins, CallbackError(v, l)
      PROVE  OneClaim'
  <2>1. \A w \in Visits : w # v => visit'[w] = visit[w]
    BY <1>2 DEF CallbackError
  <2>2. visit'[v].pc = "failed"
    BY <1>2 DEF CallbackError
  <2> QED
    BY <1>2, <2>1, <2>2 DEF CallbackError, keycloakVars
<1>3. ASSUME NEW v \in Visits, NEW l \in Logins, Callback(v, l)
      PROVE  OneClaim'
  <2>1. \A w \in Visits : w # v => visit'[w] = visit[w]
    BY <1>3 DEF Callback
  <2>2. visit'[v].state = l /\ visit'[v].pc = IF l \in pendings THEN "exchange" ELSE "failed"
    BY <1>3 DEF Callback
  <2>3. pendings' = pendings \ {l} /\ code' = code
    BY <1>3 DEF Callback, keycloakVars
  <2>4. \A k \in Logins : exchanges'[k] = IF k = l /\ l \in pendings THEN exchanges[k] + 1
                                                                   ELSE exchanges[k]
    BY <1>3 DEF Callback
  <2>5. l \in pendings => exchanges[l] = 0
    BY DEF OneExchangePerState
  <2> QED
    BY <2>1, <2>2, <2>3, <2>4, <2>5
<1>4. ASSUME NEW v \in Visits, TokenOk(v)
      PROVE  OneClaim'
  BY <1>4, VisitSteps DEF TokenOk
<1>5. ASSUME NEW v \in Visits, TokenFails(v)
      PROVE  OneClaim'
  BY <1>5, VisitSteps DEF TokenFails, keycloakVars
<1>6. ASSUME NEW v \in Visits, Insert(v)
      PROVE  OneClaim'
  BY <1>6, VisitSteps DEF Insert, keycloakVars
<1>7. ASSUME NEW v \in Visits, Redirect(v)
      PROVE  OneClaim'
  BY <1>7, VisitSteps DEF Redirect, keycloakVars
<1>8. ASSUME NEW t \in Tabs, NEW l \in Logins, Login(t, l)
      PROVE  OneClaim'
  BY <1>8 DEF Login, Begun, keycloakVars
<1>9. ASSUME NEW l \in Logins, NEW u \in Users, Authenticate(l, u)
      PROVE  OneClaim'
  BY <1>9 DEF Authenticate
<1>10. ASSUME NEW l \in Logins, AuthenticateFails(l)
       PROVE  OneClaim'
  BY <1>10 DEF AuthenticateFails
<1>11. CASE RestartChat
  BY <1>11, VisitRestart DEF RestartChat, keycloakVars
<1>12. ASSUME NEW t \in Tabs, GoBack(t) \/ Refresh(t) \/ StartTool(t) \/ ToolAnswer(t) \/ Logout(t)
       PROVE  UNCHANGED <<pendings, visit, code, exchanges>>
  BY <1>12 DEF GoBack, Refresh, StartTool, ToolAnswer, Logout, keycloakVars
<1> QED
  BY <1>1, <1>2, <1>3, <1>4, <1>5, <1>6, <1>7, <1>8, <1>9, <1>10, <1>11, <1>12
     DEF Next, CallbackNext, TabNext, KeycloakNext, vars, keycloakVars

LEMMA CookieStep == ASSUME IInv, [Next]_vars PROVE CookieSettled'
<1> USE SessionAssumption DEF IInv, TypeOK, CookieSettled, Running
<1>1. CASE UNCHANGED <<pendings, visit, cookie, exchanges>>
  BY <1>1
<1>2. ASSUME NEW v \in Visits, NEW l \in Logins, CallbackError(v, l)
      PROVE  CookieSettled'
  <2>1. \A w \in Visits : w # v => visit'[w] = visit[w]
    BY <1>2 DEF CallbackError
  <2>2. visit'[v].pc = "failed"
    BY <1>2 DEF CallbackError
  <2> QED
    BY <1>2, <2>1, <2>2 DEF CallbackError
<1>3. ASSUME NEW v \in Visits, NEW l \in Logins, Callback(v, l)
      PROVE  CookieSettled'
  <2>1. \A w \in Visits : w # v => visit'[w] = visit[w]
    BY <1>3 DEF Callback
  <2>2. visit'[v].state = l /\ visit'[v].pc = IF l \in pendings THEN "exchange" ELSE "failed"
    BY <1>3 DEF Callback
  <2>3. pendings' = pendings \ {l} /\ cookie' = cookie
    BY <1>3 DEF Callback
  <2>4. \A k \in Logins : k \notin pendings => exchanges'[k] = exchanges[k]
    BY <1>3 DEF Callback
  <2> QED
    BY <2>1, <2>2, <2>3, <2>4
<1>4. ASSUME NEW v \in Visits, TokenOk(v)
      PROVE  CookieSettled'
  BY <1>4, VisitSteps DEF TokenOk
<1>5. ASSUME NEW v \in Visits, TokenFails(v)
      PROVE  CookieSettled'
  BY <1>5, VisitSteps DEF TokenFails
<1>6. ASSUME NEW v \in Visits, Insert(v)
      PROVE  CookieSettled'
  BY <1>6, VisitSteps DEF Insert
<1>7. ASSUME NEW v \in Visits, Redirect(v)
      PROVE  CookieSettled'
  BY <1>7, VisitSteps DEF Redirect, OneClaim, Claimed
<1>8. ASSUME NEW t \in Tabs, NEW l \in Logins, Login(t, l)
      PROVE  CookieSettled'
  BY <1>8 DEF Login, Begun
<1>9. ASSUME NEW t \in Tabs, Logout(t)
      PROVE  CookieSettled'
  BY <1>9 DEF Logout
<1>10. CASE RestartChat
  BY <1>10, VisitRestart DEF RestartChat
<1>11. ASSUME NEW t \in Tabs, GoBack(t) \/ Refresh(t) \/ StartTool(t) \/ ToolAnswer(t)
       PROVE  UNCHANGED <<pendings, visit, cookie, exchanges>>
  BY <1>11 DEF GoBack, Refresh, StartTool, ToolAnswer
<1>12. ASSUME NEW l \in Logins, KeycloakNext(l)
       PROVE  UNCHANGED <<pendings, visit, cookie, exchanges>>
  BY <1>12 DEF KeycloakNext, Authenticate, AuthenticateFails
<1> QED
  BY <1>1, <1>2, <1>3, <1>4, <1>5, <1>6, <1>7, <1>8, <1>9, <1>10, <1>11, <1>12
     DEF Next, CallbackNext, TabNext, vars

(* The code of a login leads to Keycloak and back once: what was redeemed    *)
(* stays so, and the user of a code that was given out is settled.           *)
LEMMA CodeSteps ==
    ASSUME IInv, [Next]_vars
    PROVE  \A l \in Logins :
              /\ code[l] = "used" => code'[l] = "used"
              /\ code[l] # "none" => userOf'[l] = userOf[l]
              /\ code'[l] \in {"issued", "used"} => userOf'[l] \in Users
<1> USE DEF IInv, TypeOK, Redeemed
<1>1. CASE UNCHANGED <<userOf, code>>
  BY <1>1
<1>2. ASSUME NEW v \in Visits, TokenOk(v)
      PROVE  \A l \in Logins :
                /\ code[l] = "used" => code'[l] = "used"
                /\ code[l] # "none" => userOf'[l] = userOf[l]
                /\ code'[l] \in {"issued", "used"} => userOf'[l] \in Users
  BY <1>2 DEF TokenOk, OneClaim, Claimed, Running
<1>3. ASSUME NEW k \in Logins, KeycloakNext(k)
      PROVE  \A l \in Logins :
                /\ code[l] = "used" => code'[l] = "used"
                /\ code[l] # "none" => userOf'[l] = userOf[l]
                /\ code'[l] \in {"issued", "used"} => userOf'[l] \in Users
  BY <1>3 DEF KeycloakNext, Authenticate, AuthenticateFails
<1>4. ASSUME NEW v \in Visits, CallbackNext(v), ~ TokenOk(v)
      PROVE  UNCHANGED <<userOf, code>>
  BY <1>4 DEF CallbackNext, CallbackError, Callback, TokenFails, Insert, Redirect, keycloakVars
<1>5. ASSUME NEW t \in Tabs, TabNext(t)
      PROVE  UNCHANGED <<userOf, code>>
  BY <1>5 DEF TabNext, Login, GoBack, Refresh, StartTool, ToolAnswer, Logout, keycloakVars
<1>6. CASE RestartChat
  BY <1>6 DEF RestartChat, keycloakVars
<1> QED
  BY <1>1, <1>2, <1>3, <1>4, <1>5, <1>6 DEF Next, vars, keycloakVars

(* The tool call of a tab: begun with the session of the moment, or ended.   *)
LEMMA CallSteps ==
    ASSUME IInv, [Next]_vars
    PROVE  \A t \in Tabs : call'[t] \in {call[t], None, sessionFor}
<1> USE DEF IInv, TypeOK
<1>1. CASE UNCHANGED call
  BY <1>1
<1>2. ASSUME NEW v \in Visits, CallbackNext(v), ~ Redirect(v)
      PROVE  UNCHANGED call
  BY <1>2 DEF CallbackNext, CallbackError, Callback, TokenOk, TokenFails, Insert, tabVars
<1>3. ASSUME NEW v \in Visits, Redirect(v)
      PROVE  \A t \in Tabs : call'[t] = call[t] \/ call'[t] = None
  BY <1>3 DEF Redirect, LoadPage
<1>4. ASSUME NEW k \in Tabs, GoBack(k) \/ ToolAnswer(k)
      PROVE  \A t \in Tabs : call'[t] = call[t] \/ call'[t] = None
  BY <1>4 DEF GoBack, LoadPage, ToolAnswer
<1>5. ASSUME NEW k \in Tabs, StartTool(k)
      PROVE  /\ call'[k] = sessionFor
             /\ \A t \in Tabs : t # k => call'[t] = call[t]
  BY <1>5 DEF StartTool
<1>6. ASSUME NEW k \in Tabs, (\E l \in Logins : Login(k, l)) \/ Refresh(k) \/ Logout(k)
      PROVE  UNCHANGED call
  BY <1>6 DEF Login, Refresh, Logout
<1>7. ASSUME NEW k \in Logins, KeycloakNext(k)
      PROVE  UNCHANGED call
  BY <1>7 DEF KeycloakNext, Authenticate, AuthenticateFails, tabVars
<1>8. CASE RestartChat
  BY <1>8 DEF RestartChat
<1> QED
  BY <1>1, <1>2, <1>3, <1>4, <1>5, <1>6, <1>7, <1>8 DEF Next, TabNext, vars, tabVars

(* The session of the cookie is of a login that was redeemed, by a rep.      *)
LEMMA SessionRedeemed ==
    ASSUME IInv
    PROVE  sessionFor # None =>
              sessionFor \in Logins /\ code[sessionFor] = "used" /\ handleMe \in Users
BY DEF IInv, TypeOK, OneExchangePerState, Redeemed, sessionFor, handleMe

LEMMA RedeemedStep == ASSUME IInv, [Next]_vars PROVE Redeemed'
<1>1. \A l \in Logins : code'[l] \in {"issued", "used"} => userOf'[l] \in Users
  BY CodeSteps
<1>2. \A t \in Tabs : call'[t] # None => code'[call'[t]] = "used"
  BY CodeSteps, CallSteps, SessionRedeemed DEF IInv, TypeOK, Redeemed
<1> QED
  BY <1>1, <1>2 DEF Redeemed

LEMMA LoadingStep == ASSUME IInv, [Next]_vars PROVE LoadingMoved'
<1> USE DEF IInv, TypeOK, LoadingMoved
<1>1. CASE UNCHANGED <<at, call, moved>>
  BY <1>1
<1>2. ASSUME NEW v \in Visits, CallbackNext(v), ~ Redirect(v)
      PROVE  UNCHANGED <<at, call, moved>>
  BY <1>2 DEF CallbackNext, CallbackError, Callback, TokenOk, TokenFails, Insert, tabVars
<1>3. ASSUME NEW v \in Visits, Redirect(v)
      PROVE  LoadingMoved'
  BY <1>3 DEF Redirect
<1>4. ASSUME NEW k \in Tabs, NEW l \in Logins, Login(k, l)
      PROVE  LoadingMoved'
  BY <1>4 DEF Login
<1>5. ASSUME NEW k \in Tabs, GoBack(k)
      PROVE  LoadingMoved'
  BY <1>5 DEF GoBack, LoadPage
<1>6. ASSUME NEW k \in Tabs, Refresh(k)
      PROVE  LoadingMoved'
  BY <1>6 DEF Refresh
<1>7. ASSUME NEW k \in Tabs, StartTool(k)
      PROVE  LoadingMoved'
  BY <1>7 DEF StartTool
<1>8. ASSUME NEW k \in Tabs, ToolAnswer(k)
      PROVE  LoadingMoved'
  BY <1>8 DEF ToolAnswer
<1>9. ASSUME NEW k \in Tabs, Logout(k)
      PROVE  LoadingMoved'
  BY <1>9 DEF Logout
<1>10. ASSUME NEW k \in Logins, KeycloakNext(k)
       PROVE  UNCHANGED <<at, call, moved>>
  BY <1>10 DEF KeycloakNext, Authenticate, AuthenticateFails, tabVars
<1>11. CASE RestartChat
  BY <1>11 DEF RestartChat
<1> QED
  BY <1>1, <1>2, <1>3, <1>4, <1>5, <1>6, <1>7, <1>8, <1>9, <1>10, <1>11
     DEF Next, TabNext, vars, tabVars

(* The identity behind the cookie changes by a redirect or a sign-out only:  *)
(* not by the session that another callback stores meanwhile.                *)
LEMMA CookieIdentity ==
    ASSUME IInv, UNCHANGED cookie,
           \/ UNCHANGED sessions
           \/ sessions' = {}
           \/ \E v \in Visits : Insert(v),
           [Next]_vars
    PROVE  handleMe' \in {handleMe, None}
<1> USE DEF IInv, TypeOK
<1>1. cookie \in sessions' => cookie \in sessions
  BY SessionAssumption DEF Insert, OneClaim, Claimed, Running, CookieSettled
<1>2. sessionFor' \in {sessionFor, None}
  BY <1>1 DEF sessionFor
<1>3. sessionFor' # None => userOf'[sessionFor'] = userOf[sessionFor]
  BY <1>2, CodeSteps, SessionRedeemed
<1> QED
  BY <1>2, <1>3 DEF handleMe

LEMMA SameSubStep == ASSUME IInv, [Next]_vars PROVE SameSubUnlessMoved'
<1> USE DEF IInv, TypeOK, SameSubUnlessMoved
<1>0. \A t \in Tabs : call[t] # None => call[t] \in Logins /\ userOf'[call[t]] = userOf[call[t]]
  BY CodeSteps DEF Redeemed
<1>1. ASSUME UNCHANGED <<cookie, at, me, call, moved>>, handleMe' \in {handleMe, None}
      PROVE  SameSubUnlessMoved'
  BY <1>0, <1>1
<1>2. CASE UNCHANGED vars
  BY <1>2 DEF vars, keycloakVars, tabVars, handleMe, sessionFor
<1>3. ASSUME NEW v \in Visits, CallbackNext(v), ~ Redirect(v)
      PROVE  SameSubUnlessMoved'
  <2>1. UNCHANGED <<cookie, at, me, call, moved>>
    BY <1>3 DEF CallbackNext, CallbackError, Callback, TokenOk, TokenFails, Insert, tabVars
  <2>2. UNCHANGED sessions \/ Insert(v)
    BY <1>3 DEF CallbackNext, CallbackError, Callback, TokenOk, TokenFails
  <2> QED
    BY <2>1, <2>2, <1>1, CookieIdentity
<1>4. ASSUME NEW v \in Visits, Redirect(v)
      PROVE  SameSubUnlessMoved'
  BY <1>4 DEF Redirect
<1>5. ASSUME NEW l \in Logins, KeycloakNext(l)
      PROVE  SameSubUnlessMoved'
  <2>1. UNCHANGED <<cookie, at, me, call, moved, sessions>>
    BY <1>5 DEF KeycloakNext, Authenticate, AuthenticateFails, tabVars
  <2> QED
    BY <2>1, <1>1, CookieIdentity
<1>6. ASSUME NEW t \in Tabs, NEW l \in Logins, Login(t, l)
      PROVE  SameSubUnlessMoved'
  <2>1. UNCHANGED <<cookie, sessions, me, call, moved>> /\ at' = [at EXCEPT ![t] = "away"]
    BY <1>6 DEF Login
  <2>2. handleMe' \in {handleMe, None}
    BY <2>1, CookieIdentity
  <2> QED
    BY <1>0, <2>1, <2>2
<1>7. ASSUME NEW t \in Tabs, GoBack(t)
      PROVE  SameSubUnlessMoved'
  <2>1. UNCHANGED <<cookie, sessions, moved>> /\ LoadPage(t)
    BY <1>7 DEF GoBack
  <2>2. handleMe' \in {handleMe, None}
    BY <2>1, CookieIdentity
  <2> QED
    BY <1>0, <2>1, <2>2 DEF LoadPage
<1>8. ASSUME NEW t \in Tabs, Refresh(t)
      PROVE  SameSubUnlessMoved'
  <2>1. /\ UNCHANGED <<cookie, sessions, userOf, call>>
        /\ at[t] = "loading"
        /\ at' = [at EXCEPT ![t] = "page"]
        /\ me' = [me EXCEPT ![t] = handleMe]
        /\ moved' = IF call[t] = None THEN moved \ {t} ELSE moved
    BY <1>8 DEF Refresh, keycloakVars
  <2>2. handleMe' = handleMe
    BY <2>1 DEF handleMe, sessionFor
  <2>3. t \notin moved' => call[t] = None
    BY <2>1 DEF LoadingMoved
  <2>4. me'[t] = handleMe
    BY <2>1
  <2> HIDE DEF handleMe
  <2> QED
    BY <2>1, <2>2, <2>3, <2>4
<1>9. ASSUME NEW t \in Tabs, StartTool(t)
      PROVE  SameSubUnlessMoved'
  <2>1. /\ UNCHANGED <<cookie, sessions, userOf, at, me, moved>>
        /\ at[t] = "page"
        /\ call' = [call EXCEPT ![t] = sessionFor]
    BY <1>9 DEF StartTool, keycloakVars
  <2>2. handleMe' = handleMe
    BY <2>1 DEF handleMe, sessionFor
  <2>3. t \notin moved /\ sessionFor # None => userOf[sessionFor] = me[t]
    BY <2>1, SessionRedeemed, SessionAssumption DEF handleMe
  <2> QED
    BY <2>1, <2>2, <2>3
<1>10. ASSUME NEW t \in Tabs, ToolAnswer(t)
       PROVE  SameSubUnlessMoved'
  <2>1. /\ UNCHANGED <<cookie, sessions, userOf, at, me, moved>>
        /\ call' = [call EXCEPT ![t] = None]
    BY <1>10 DEF ToolAnswer, keycloakVars
  <2>2. handleMe' = handleMe
    BY <2>1 DEF handleMe, sessionFor
  <2> QED
    BY <2>1, <2>2
<1>11. ASSUME NEW t \in Tabs, Logout(t)
       PROVE  SameSubUnlessMoved'
  BY <1>11 DEF Logout
<1>12. CASE RestartChat
  <2>1. UNCHANGED <<cookie, at, me, moved>> /\ sessions' = {} /\ call' = [t \in Tabs |-> None]
    BY <1>12 DEF RestartChat
  <2>2. handleMe' = None
    BY <2>1 DEF handleMe, sessionFor
  <2> QED
    BY <2>1, <2>2
<1> QED
  BY <1>2, <1>3, <1>4, <1>5, <1>6, <1>7, <1>8, <1>9, <1>10, <1>11, <1>12 DEF Next, TabNext

-----------------------------------------------------------------------------
(* The inductive invariant holds in every reachable state, whatever the      *)
(* tabs, the reps, the logins and the callbacks.                             *)
THEOREM Invariant == Spec => []IInv
<1>1. Init => IInv
  BY SessionAssumption, TypeInit
     DEF Init, IInv, Begun, OneExchangePerState, OneClaim, Claimed, Running, CookieSettled,
         Redeemed, LoadingMoved, SameSubUnlessMoved, handleMe, sessionFor
<1>2. IInv /\ [Next]_vars => IInv'
  <2> SUFFICES ASSUME IInv, [Next]_vars PROVE IInv'
    OBVIOUS
  <2> QED
    BY TypeStep, BegunStep, ExchangeStep, ClaimStep, CookieStep, RedeemedStep, LoadingStep,
       SameSubStep DEF IInv
<1> QED
  BY <1>1, <1>2, PTL DEF Spec

(* Every variable keeps its type.                                            *)
THEOREM TypeCorrect == Spec => []TypeOK
<1>1. IInv => TypeOK
  BY DEF IInv
<1> QED
  BY <1>1, Invariant, PTL

(* However many callbacks a browser sends, and in whatever order they run,   *)
(* a login is redeemed at most once and only a redeemed one has a session.   *)
THEOREM OneExchange == Spec => []OneExchangePerState
<1>1. IInv => OneExchangePerState
  BY DEF IInv
<1> QED
  BY <1>1, Invariant, PTL

(* With any number of tabs and reps, a tab shows two identities only after   *)
(* somebody signed in or out behind its back.                                *)
THEOREM SameSub == Spec => []SameSubUnlessMoved
<1>1. IInv => SameSubUnlessMoved
  BY DEF IInv
<1> QED
  BY <1>1, Invariant, PTL
=============================================================================
