---------------------------- MODULE ChatSessions ----------------------------
(***************************************************************************)
(* Signing in to acme-chat: the maps `pendings' and `sessions' behind one  *)
(* mutex, the OpenID Connect round trip through Keycloak, the `sid' cookie *)
(* that all tabs of the browser share, and the variable `me' that every    *)
(* tab keeps for itself.                                                   *)
(*                                                                         *)
(* A login is named by its OAuth state; the session it leads to is named   *)
(* by the login as well (the sid is a fresh random name either way).       *)
(***************************************************************************)
EXTENDS Naturals, FiniteSets

CONSTANTS
    Users,
    Tabs,          \* tabs of one browser
    Logins,        \* bound: logins begun
    Visits,        \* bound: requests to /callback
    None

ASSUME SessionAssumption == None \notin Users \cup Tabs \cup Logins

VARIABLES
    pendings,      \* logins whose PKCE verifier acme-chat holds
    sessions,      \* logins whose session acme-chat holds
    visit,         \* visit[v]: a /callback request, its state and its progress
    tabOf,         \* tabOf[l]: the tab a login was begun in
    userOf,        \* userOf[l]: who authenticated at Keycloak
    code,          \* code[l]: Keycloak's authorization code for it
    cookie,        \* the sid cookie of the browser
    at,            \* at[t]: "loading" the page, on the "page", or "away" to sign in
    me,            \* me[t]: the rep the tab believes is signed in
    call,          \* call[t]: the session of the tab's tool call under way
    shown,         \* shown[t]: both subs in the tab's inspector
    exchanges,     \* history: token requests made for a state
    moved          \* history: tabs under which the sign-in has changed

keycloakVars == <<userOf, code>>
tabVars      == <<at, me, call, shown>>
vars == <<pendings, sessions, visit, tabOf, keycloakVars, cookie, tabVars, exchanges, moved>>

-----------------------------------------------------------------------------
Init ==
    /\ pendings = {} /\ sessions = {} /\ cookie = None /\ moved = {}
    /\ visit = [v \in Visits |-> [state |-> None, pc |-> "none"]]
    /\ tabOf = [l \in Logins |-> None]
    /\ userOf = [l \in Logins |-> None]
    /\ code = [l \in Logins |-> "none"]
    /\ at = [t \in Tabs |-> "loading"]
    /\ me = [t \in Tabs |-> None]
    /\ call = [t \in Tabs |-> None]
    /\ shown = [t \in Tabs |-> None]
    /\ exchanges = [l \in Logins |-> 0]

(* The session the browser's cookie names, if acme-chat has it. *)
sessionFor == IF cookie \in sessions THEN cookie ELSE None

(* The answer to /api/me: the rep of that session. *)
handleMe == IF sessionFor = None THEN None ELSE userOf[sessionFor]

(* A page that is (re)loaded has forgotten everything. *)
LoadPage(t) ==
    /\ at' = [at EXCEPT ![t] = "loading"]
    /\ me' = [me EXCEPT ![t] = None]
    /\ call' = [call EXCEPT ![t] = None]
    /\ shown' = [shown EXCEPT ![t] = None]

-----------------------------------------------------------------------------
(* handleLogin, and the tab leaves for Keycloak's login page. *)
Login(t, l) ==
    /\ at[t] = "page" /\ me[t] = None
    /\ tabOf[l] = None
    /\ pendings' = pendings \cup {l}
    /\ tabOf' = [tabOf EXCEPT ![l] = t]
    /\ at' = [at EXCEPT ![t] = "away"]
    /\ UNCHANGED <<sessions, visit, keycloakVars, cookie, me, call, shown, exchanges, moved>>

(* Keycloak (prompt=login: it always asks): u signs in, or it is an error. *)
Authenticate(l, u) ==
    /\ tabOf[l] # None /\ code[l] = "none"
    /\ userOf' = [userOf EXCEPT ![l] = u]
    /\ code' = [code EXCEPT ![l] = "issued"]
    /\ UNCHANGED <<pendings, sessions, visit, tabOf, cookie, tabVars, exchanges, moved>>

AuthenticateFails(l) ==
    /\ tabOf[l] # None /\ code[l] = "none"
    /\ code' = [code EXCEPT ![l] = "error"]
    /\ UNCHANGED <<pendings, sessions, visit, tabOf, userOf, cookie, tabVars, exchanges, moved>>

(* The rep gives up and opens the page anew. *)
GoBack(t) ==
    /\ at[t] = "away"
    /\ LoadPage(t)
    /\ UNCHANGED <<pendings, sessions, visit, tabOf, keycloakVars, cookie, exchanges, moved>>

-----------------------------------------------------------------------------
(* handleCallback, first lines: an error ends it before the state is read. *)
CallbackError(v, l) ==
    /\ visit[v].pc = "none" /\ code[l] = "error"
    /\ visit' = [visit EXCEPT ![v] = [state |-> l, pc |-> "failed"]]
    /\ UNCHANGED <<pendings, sessions, tabOf, keycloakVars, cookie, tabVars, exchanges, moved>>

(* Defect variant of Callback: the pending login is only removed later on. *)
CallbackWithoutRemoving(v, l) ==
    /\ visit[v].pc = "none" /\ code[l] \in {"issued", "used"}
    /\ visit' = [visit EXCEPT ![v] =
                   [state |-> l, pc |-> IF l \in pendings THEN "exchange" ELSE "failed"]]
    /\ exchanges' = [exchanges EXCEPT ![l] = IF l \in pendings THEN @ + 1 ELSE @]
    /\ UNCHANGED <<pendings, sessions, tabOf, keycloakVars, cookie, tabVars, moved>>

(* handleCallback up to the token request: the pending login is looked up    *)
(* and removed in one critical section.  The browser may send the same       *)
(* request again (a reload), also while the first is under way.              *)
Callback(v, l) ==
    /\ visit[v].pc = "none" /\ code[l] \in {"issued", "used"}
    /\ pendings' = pendings \ {l}
    /\ visit' = [visit EXCEPT ![v] =
                   [state |-> l, pc |-> IF l \in pendings THEN "exchange" ELSE "failed"]]
    /\ exchanges' = [exchanges EXCEPT ![l] = IF l \in pendings THEN @ + 1 ELSE @]
    /\ UNCHANGED <<sessions, tabOf, keycloakVars, cookie, tabVars, moved>>

(* Keycloak redeems a code once. *)
TokenOk(v) ==
    /\ visit[v].pc = "exchange" /\ code[visit[v].state] = "issued"
    /\ code' = [code EXCEPT ![visit[v].state] = "used"]
    /\ visit' = [visit EXCEPT ![v].pc = "insert"]
    /\ UNCHANGED <<pendings, sessions, tabOf, userOf, cookie, tabVars, exchanges, moved>>

TokenFails(v) ==
    /\ visit[v].pc = "exchange"
    /\ visit' = [visit EXCEPT ![v].pc = "failed"]
    /\ UNCHANGED <<pendings, sessions, tabOf, keycloakVars, cookie, tabVars, exchanges, moved>>

(* handleCallback, last lines: the session is stored ... *)
Insert(v) ==
    /\ visit[v].pc = "insert"
    /\ sessions' = sessions \cup {visit[v].state}
    /\ visit' = [visit EXCEPT ![v].pc = "redirect"]
    /\ UNCHANGED <<pendings, tabOf, keycloakVars, cookie, tabVars, exchanges, moved>>

(* ... and the answer sets the cookie and loads the page in the tab. *)
Redirect(v) ==
    /\ visit[v].pc = "redirect"
    /\ visit' = [visit EXCEPT ![v].pc = "done"]
    /\ cookie' = visit[v].state
    /\ LoadPage(tabOf[visit[v].state])
    /\ moved' = Tabs
    /\ UNCHANGED <<pendings, sessions, tabOf, keycloakVars, exchanges>>

-----------------------------------------------------------------------------
(* Defect variant of Refresh: a tab that knows somebody does not ask again. *)
RefreshOnce(t) ==
    /\ at[t] = "loading"
    /\ at' = [at EXCEPT ![t] = "page"]
    /\ me' = [me EXCEPT ![t] = IF @ = None THEN handleMe ELSE @]
    /\ moved' = IF call[t] = None THEN moved \ {t} ELSE moved
    /\ UNCHANGED <<pendings, sessions, visit, tabOf, keycloakVars, cookie, call, shown, exchanges>>

(* refresh(), when the page is loaded and after sign-out. *)
Refresh(t) ==
    /\ at[t] = "loading"
    /\ at' = [at EXCEPT ![t] = "page"]
    /\ me' = [me EXCEPT ![t] = handleMe]
    /\ moved' = IF call[t] = None THEN moved \ {t} ELSE moved
    /\ UNCHANGED <<pendings, sessions, visit, tabOf, keycloakVars, cookie, call, shown, exchanges>>

(* handleTool looks the session up once; a 401 leaves the tab as it was. *)
StartTool(t) ==
    /\ at[t] = "page" /\ me[t] # None /\ call[t] = None
    /\ call' = [call EXCEPT ![t] = sessionFor]
    /\ UNCHANGED <<pendings, sessions, visit, tabOf, keycloakVars, cookie, at, me, shown,
                   exchanges, moved>>

(* renderInspector: the tab's own token beside the one the API received. *)
ToolAnswer(t) ==
    /\ call[t] # None
    /\ shown' = [shown EXCEPT ![t] = [sso |-> me[t], api |-> userOf[call[t]]]]
    /\ call' = [call EXCEPT ![t] = None]
    /\ UNCHANGED <<pendings, sessions, visit, tabOf, keycloakVars, cookie, at, me,
                   exchanges, moved>>

(* Defect variant of Logout: the cookie is emptied, not removed. *)
LogoutEmptyCookie(t) ==
    /\ at[t] = "page" /\ me[t] # None
    /\ sessions' = sessions \ {cookie}
    /\ cookie' = ""
    /\ at' = [at EXCEPT ![t] = "loading"]
    /\ shown' = [shown EXCEPT ![t] = None]
    /\ moved' = Tabs
    /\ UNCHANGED <<pendings, visit, tabOf, keycloakVars, me, call, exchanges>>

(* handleLogout: the session of the cookie and the cookie go; the tab's      *)
(* inspector is emptied and refresh() follows.                               *)
Logout(t) ==
    /\ at[t] = "page" /\ me[t] # None
    /\ sessions' = sessions \ {cookie}
    /\ cookie' = None
    /\ at' = [at EXCEPT ![t] = "loading"]
    /\ shown' = [shown EXCEPT ![t] = None]
    /\ moved' = Tabs
    /\ UNCHANGED <<pendings, visit, tabOf, keycloakVars, me, call, exchanges>>

(* acme-chat restarts: both maps and all requests are lost, the cookie stays. *)
RestartChat ==
    /\ pendings' = {}
    /\ sessions' = {}
    /\ visit' = [v \in Visits |-> IF visit[v].pc \in {"exchange", "insert", "redirect"}
                                    THEN [visit[v] EXCEPT !.pc = "failed"] ELSE visit[v]]
    /\ call' = [t \in Tabs |-> None]
    /\ UNCHANGED <<tabOf, keycloakVars, cookie, at, me, shown, exchanges, moved>>

-----------------------------------------------------------------------------
CallbackNext(v) ==
    \/ \E l \in Logins : CallbackError(v, l) \/ Callback(v, l)
    \/ TokenOk(v)
    \/ TokenFails(v)
    \/ Insert(v)
    \/ Redirect(v)

TabNext(t) ==
    \/ \E l \in Logins : Login(t, l)
    \/ GoBack(t)
    \/ Refresh(t)
    \/ StartTool(t)
    \/ ToolAnswer(t)
    \/ Logout(t)

KeycloakNext(l) == (\E u \in Users : Authenticate(l, u)) \/ AuthenticateFails(l)

Next ==
    \/ \E v \in Visits : CallbackNext(v)
    \/ \E t \in Tabs : TabNext(t)
    \/ \E l \in Logins : KeycloakNext(l)
    \/ RestartChat

Spec == Init /\ [][Next]_vars

-----------------------------------------------------------------------------
TypeOK ==
    /\ pendings \in SUBSET Logins /\ sessions \in SUBSET Logins
    /\ visit \in [Visits -> [state : Logins \cup {None},
                             pc : {"none", "failed", "exchange", "insert", "redirect", "done"}]]
    /\ tabOf \in [Logins -> Tabs \cup {None}]
    /\ userOf \in [Logins -> Users \cup {None}]
    /\ code \in [Logins -> {"none", "issued", "used", "error"}]
    /\ cookie \in Logins \cup {None}
    /\ at \in [Tabs -> {"loading", "page", "away"}]
    /\ me \in [Tabs -> Users \cup {None}]
    /\ call \in [Tabs -> Logins \cup {None}]
    /\ shown \in [Tabs -> [sso : Users \cup {None}, api : Users] \cup {None}]
    /\ exchanges \in [Logins -> Nat]
    /\ moved \in SUBSET Tabs

(* However often the browser sends a callback, one token request is made for *)
(* a state, and a session is stored only for a login that was redeemed.      *)
OneExchangePerState ==
    \A l \in Logins :
        /\ exchanges[l] <= 1
        /\ l \in pendings => exchanges[l] = 0
        /\ l \in sessions => code[l] = "used" /\ exchanges[l] = 1

(* A tab shows two different identities only if somebody signed in or out    *)
(* since the tab last asked who it is, or since its tool call began.         *)
SameSubUnlessMoved ==
    \A t \in Tabs : t \notin moved =>
        /\ call[t] # None => userOf[call[t]] = me[t]
        /\ at[t] = "page" /\ handleMe # None => handleMe = me[t]

=============================================================================
