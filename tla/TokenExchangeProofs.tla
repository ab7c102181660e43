------------------------- MODULE TokenExchangeProofs -------------------------
(***************************************************************************)
(* Proofs about TokenExchange, for every set of calls, users and           *)
(* entitlements: the invariants that MCTokenExchange_pair.cfg checks for   *)
(* two calls, and the refinement of Delegation.                            *)
(***************************************************************************)
EXTENDS TokenExchange, TLAPS

-----------------------------------------------------------------------------
(* The inductive invariant. *)

(* acme-chat and the tools/call request agree on how far the call is. *)
InStep ==
    \A c \in Calls :
        /\ phase[c] = "idle" => exchanged[c] = None
        /\ phase[c] # "idle" => ask[c] # None
        /\ phase[c] \in {"idle", "connect", "notify", "call"} => pc[c] = "none"
        /\ effect[c] # None => pc[c] \in {"answered", "lost", "done"}
        /\ shown[c] # None => pc[c] = "done"
        /\ verdict[c] = "denied" => pc[c] = "done"

(* The handler waits for a request that the resource API still has; one that *)
(* it has was not acted upon yet, and the handler may be gone or answered.   *)
AtApi ==
    \A c \in Calls :
        /\ pc[c] = "resource" => c \in atApi
        /\ c \in atApi => /\ pc[c] \in {"resource", "answered", "lost", "done"}
                          /\ effect[c] = None

(* Whoever is past the hook has been granted a token, and rightly. *)
Granted(c) ==
    /\ ask[c] # None
    /\ Covers(ask[c].user, ask[c].tool)
    /\ exchanged[c] = mint_exchanged_token(ask[c].user, TOOL_SCOPES[ask[c].tool])

GrantsRight ==
    \A c \in Calls :
        /\ exchanged[c] # None => Granted(c)
        /\ pc[c] \in {"inbound", "bearer", "trace", "send", "answered"} \/ c \in atApi =>
              exchanged[c] # None

(* A plugin token that is anywhere in the tool server was minted for a call. *)
Vouched(t) == t \in PluginTokens => \E d \in Calls : exchanged[d] = t

HeadersVouched ==
    /\ Vouched(meta.bearer)
    /\ \A c \in Calls :
          /\ Vouched(bearer[c])
          /\ c \in atApi => bearer[c] \in PluginTokens

(* A call whose headers were not replaced works with headers of its own: of  *)
(* the exchanged request, or (its caller gave up) of the DELETE after it.    *)
OwnBearer(c, t) == t = exchanged[c] \/ t = SsoToken(ask[c].user)

OwnHeaders ==
    \A c \in Calls : c \notin overwritten =>
        /\ pc[c] = "bearer" => OwnBearer(c, meta.bearer)
        /\ pc[c] \in {"bearer", "trace"} => meta.trace = c
        /\ pc[c] \in {"trace", "send"} \/ c \in atApi => OwnBearer(c, bearer[c])
        /\ pc[c] = "send" \/ c \in atApi => trace[c] = c

(* A refusal is the end of the request, and a success comes after the act.   *)
(* The two other answers, a failure of the request and an error of the       *)
(* gateway, tell nothing: the resource API may have acted, or may act yet.   *)
AnswersTrue ==
    \A c \in Calls : pc[c] = "answered" =>
        /\ status[c] \in {"unauthorized", "insufficient_scope"} =>
              effect[c] = None /\ c \notin atApi
        /\ status[c] = "ok" =>
              /\ bearer[c] \in PluginTokens
              /\ effect[c] # None
              /\ effect[c].sub = bearer[c].sub
              /\ requiredScope(effect[c].op) = bearer[c].scope

IInv ==
    /\ TypeOK
    /\ InStep
    /\ AtApi
    /\ GrantsRight
    /\ HeadersVouched
    /\ OwnHeaders
    /\ AnswersTrue
    /\ EffectAuthorised
    /\ OnBehalfOfUnlessOverwritten
    /\ ScopeRefusedOnlyIfOverwritten
    /\ RefusedHasNoEffect
    /\ InspectorShowsTokenUsed

-----------------------------------------------------------------------------
(* Lemmas about the tokens and the tables. *)

(* What each kind of token is, and that nothing is both. *)
LEMMA TokenKinds ==
    /\ \A u \in Users : /\ SsoToken(u) \in Tokens
                         /\ SsoToken(u) \notin PluginTokens
                         /\ SsoToken(u).iss = "keycloak"
    /\ \A u \in Users, s \in Scopes : mint_exchanged_token(u, s) \in PluginTokens
    /\ \A t \in PluginTokens : /\ t \in Tokens
                                 /\ t # None
                                 /\ t.sub \in Users
                                 /\ t.scope \in Scopes
                                 /\ t = mint_exchanged_token(t.sub, t.scope)
    /\ \A t \in Tokens : t.iss = "plugin" => t \in PluginTokens
    /\ None \notin Tokens
<1>1. \A u \in Users : SsoToken(u) \in Tokens
  BY DEF Tokens, SsoTokens
<1>2. \A u : SsoToken(u).iss = "keycloak"
  BY DEF SsoToken
<1>3. \A u, s : /\ mint_exchanged_token(u, s).iss = "plugin"
                /\ mint_exchanged_token(u, s).sub = u
                /\ mint_exchanged_token(u, s).scope = s
  BY DEF mint_exchanged_token
<1>4. \A u \in Users, s \in Scopes : mint_exchanged_token(u, s) \in PluginTokens
  BY DEF PluginTokens
<1>5. \A t \in PluginTokens : \E u \in Users, s \in Scopes : t = mint_exchanged_token(u, s)
  BY DEF PluginTokens
<1>6. \A t \in PluginTokens : t.iss = "plugin"
  BY <1>3, <1>5
<1>7. \A t \in Tokens : t \in PluginTokens \/ \E u \in Users : t = SsoToken(u)
  BY DEF Tokens, SsoTokens
<1>8. \A t \in PluginTokens : t \in Tokens
  BY DEF Tokens
<1>9. None \notin Tokens
  BY NoneAssumption DEF NoneAssumption
<1> QED
  BY <1>1, <1>2, <1>3, <1>4, <1>5, <1>6, <1>7, <1>8, <1>9

(* A minted token has the sub and the scope it was minted with. *)
LEMMA MintedFields ==
    ASSUME NEW u, NEW s
    PROVE  /\ mint_exchanged_token(u, s).sub = u
           /\ mint_exchanged_token(u, s).scope = s
BY DEF mint_exchanged_token

(* The plugin's table and the scopes of the handlers agree: the scope a tool *)
(* is granted is the one its operation demands.                              *)
LEMMA TablesAgree ==
    ASSUME NEW t \in Tools
    PROVE  /\ TOOL_SCOPES[t] \in Scopes
           /\ OperationOf[t] \in Operations
           /\ requiredScope(OperationOf[t]) = TOOL_SCOPES[t]
<1>1. t \in {"lookup_customer", "recent_orders", "update_customer", "issue_refund"}
  BY DEF Tools, TOOL_SCOPES
<1>2. CASE t = "lookup_customer"
  BY <1>2 DEF TOOL_SCOPES, OperationOf, Operations, requiredScope, Scopes
<1>3. CASE t = "recent_orders"
  BY <1>3 DEF TOOL_SCOPES, OperationOf, Operations, requiredScope, Scopes
<1>4. CASE t = "update_customer"
  BY <1>4 DEF TOOL_SCOPES, OperationOf, Operations, requiredScope, Scopes
<1>5. CASE t = "issue_refund"
  BY <1>5 DEF TOOL_SCOPES, OperationOf, Operations, requiredScope, Scopes
<1> QED
  BY <1>1, <1>2, <1>3, <1>4, <1>5

(* The SSO token of a call that was begun is a token, and not the plugin's. *)
LEMMA OwnSsoToken ==
    ASSUME IInv, NEW c \in Calls, phase[c] # "idle"
    PROVE  /\ ask[c].user \in Users
           /\ SsoToken(ask[c].user) \in Tokens
           /\ SsoToken(ask[c].user) \notin PluginTokens
<1>1. ask[c] \in [user : Users, tool : AskedTools]
  BY DEF IInv, TypeOK, InStep
<1> QED
  BY <1>1, TokenKinds

(* What was done was done with a plugin token. *)
LEMMA EffectsTokens ==
    ASSUME IInv, NEW c \in Calls, effect[c] # None
    PROVE  mint_exchanged_token(effect[c].sub, requiredScope(effect[c].op)) \in PluginTokens
<1>1. effect[c] \in [sub : Users, op : Operations]
  BY DEF IInv, TypeOK
<1>2. requiredScope(effect[c].op) \in Entitlements[effect[c].sub]
  BY DEF IInv, EffectAuthorised
<1>3. requiredScope(effect[c].op) \in Scopes
  BY <1>1, <1>2, EntitlementsAssumption DEF EntitlementsAssumption
<1> QED
  BY <1>1, <1>3, TokenKinds

(* The end of a request at the resource API, for whoever waits for it.       *)
LEMMA FinishDoes ==
    ASSUME IInv, NEW c \in Calls, NEW s, Finish(c, s)
    PROVE  /\ c \in atApi /\ effect[c] = None
           /\ \A d \in Calls : d \in atApi' <=> d \in atApi /\ d # c
           /\ UNCHANGED <<ask, phase, verdict, shown, exchanged, meta, live, overwritten,
                          bearer, trace>>
           /\ \A d \in Calls : d # c => pc'[d] = pc[d] /\ status'[d] = status[d]
           /\ pc[c] = "resource" => pc'[c] = "answered" /\ status'[c] = s
           /\ pc[c] # "resource" => /\ pc[c] \in {"answered", "lost", "done"}
                                    /\ pc'[c] = pc[c] /\ status'[c] = status[c]
<1>1. c \in atApi /\ effect[c] = None /\ (\A d \in Calls : d \in atApi' <=> d \in atApi /\ d # c)
  BY DEF Finish, IInv, AtApi
<1>2. UNCHANGED <<ask, phase, verdict, shown, exchanged, meta, live, overwritten, bearer, trace>>
  BY DEF Finish, clientVars, serverVars
<1>3. CASE pc[c] = "resource"
  BY <1>1, <1>2, <1>3 DEF Finish, Answer, IInv, TypeOK
<1>4. CASE pc[c] # "resource"
  BY <1>1, <1>2, <1>4 DEF Finish, IInv, AtApi
<1> QED
  BY <1>3, <1>4

-----------------------------------------------------------------------------
(* Every step keeps the inductive invariant, one conjunct at a time. *)

(* The types. *)
LEMMA TypeStep ==
    ASSUME IInv, [Next]_vars
    PROVE  TypeOK'
<1>1. CASE UNCHANGED vars
  BY <1>1, TokenKinds DEF IInv, TypeOK, vars, clientVars, handlerVars, apiVars, serverVars
<1>2. ASSUME NEW c \in Calls, NEW u \in Users, NEW t \in AskedTools, StartCall(c, u, t)
      PROVE  TypeOK'
  BY <1>2, TokenKinds DEF IInv, TypeOK, StartCall, handlerVars, apiVars, serverVars
<1>3. ASSUME NEW c \in Calls, Initialize(c) \/ Initialized(c) \/ Close(c)
      PROVE  TypeOK'
  <2>1. phase[c] # "idle"
    BY <1>3 DEF Initialize, Initialized, Close
  <2>2. SsoToken(ask[c].user) \in Tokens
    BY <2>1, OwnSsoToken
  <2>3. meta' \in [bearer : Tokens \cup {None}, trace : Calls \cup {None}]
    BY <1>3, <2>2 DEF Initialize, Initialized, Close, CaptureSso, CaptureHeaders
  <2>4. overwritten' \in SUBSET Calls
    BY <1>3 DEF IInv, TypeOK, Initialize, Initialized, Close, CaptureSso, CaptureHeaders,
       Reading
  <2>5. /\ live' \in SUBSET Calls
        /\ phase' \in [Calls -> {"idle", "connect", "notify", "call", "wait", "close", "closed"}]
        /\ verdict' \in [Calls -> {None, "done", "denied", "failed"}]
    BY <1>3 DEF IInv, TypeOK, Initialize, Initialized, Close
  <2> QED
    BY <1>3, <2>3, <2>4, <2>5 DEF IInv, TypeOK, Initialize, Initialized, Close,
       handlerVars, apiVars
<1>4. ASSUME NEW c \in Calls,
              SendCall(c) \/ RespondForbidden(c) \/ GiveUp(c) \/ CloseUnsent(c)
              \/ HookDenies(c) \/ Abandon(c) \/ GatewayVerifies(c)
      PROVE  TypeOK'
  BY <1>4, TokenKinds DEF IInv, TypeOK, SendCall, RespondForbidden, GiveUp, CloseUnsent,
     HookDenies, Abandon, GatewayVerifies, clientVars, handlerVars, apiVars, serverVars
<1>5. ASSUME NEW c \in Calls, Respond(c)
      PROVE  TypeOK'
  BY <1>5, TokenKinds DEF IInv, TypeOK, Respond, clientVars, handlerVars, apiVars,
     serverVars, AnswersTrue, botReply, renderInspector, extractUpstreamToken
<1>6. ASSUME NEW c \in Calls, HookExchanges(c)
      PROVE  TypeOK'
  BY <1>6, TokenKinds, TablesAgree DEF IInv, TypeOK, HookExchanges, clientVars,
     handlerVars, apiVars, serverVars, InStep, Covers
<1>7. ASSUME NEW c \in Calls, Capture(c)
      PROVE  TypeOK'
  BY <1>7, TokenKinds DEF IInv, TypeOK, Capture, clientVars, handlerVars, apiVars,
     serverVars, CaptureHeaders, Reading
<1>8. ASSUME NEW c \in Calls, ReadBearer(c) \/ ReadTrace(c)
      PROVE  TypeOK'
  BY <1>8, TokenKinds DEF IInv, TypeOK, ReadBearer, ReadTrace, clientVars, handlerVars,
     apiVars, serverVars
<1>9. ASSUME NEW c \in Calls,
              GatewayRefuses(c) \/ UpstreamFails(c) \/ GatewayFails(c)
              \/ RefuseToken(c) \/ RefuseScope(c)
      PROVE  TypeOK'
  BY <1>9, TokenKinds DEF IInv, TypeOK, GatewayRefuses, UpstreamFails, GatewayFails,
     CutOff, Finish, RefuseToken, RefuseScope, clientVars, handlerVars, apiVars,
     serverVars, Answer
<1>10. ASSUME NEW c \in Calls, Execute(c)
      PROVE  TypeOK'
  BY <1>10, TokenKinds, TablesAgree DEF IInv, TypeOK, Finish, Execute, clientVars,
     handlerVars, apiVars, serverVars, Answer, GrantsRight, Granted, Covers,
     HeadersVouched
<1>11. CASE RestartToolServer
  BY <1>11, TokenKinds DEF IInv, TypeOK, RestartToolServer, clientVars, handlerVars,
     apiVars, InHandler, NoHeaders
<1> QED
  BY <1>1, <1>2, <1>3, <1>4, <1>5, <1>6, <1>7, <1>8, <1>9, <1>10, <1>11 DEF Next, ChatNext,
     HookNext, ToolServerNext, UpstreamNext

(* acme-chat and its request stay in step. *)
LEMMA InStepStep ==
    ASSUME IInv, [Next]_vars
    PROVE  InStep'
<1>1. CASE UNCHANGED vars
  BY <1>1 DEF IInv, TypeOK, InStep, AtApi, vars, clientVars, handlerVars, apiVars,
     serverVars
<1>2. ASSUME NEW c \in Calls, NEW u \in Users, NEW t \in AskedTools, StartCall(c, u, t)
      PROVE  InStep'
  <2>1. [user |-> u, tool |-> t] # None
    BY NoneAssumption DEF NoneAssumption
  <2> QED
    BY <1>2, <2>1 DEF IInv, TypeOK, InStep, AtApi, StartCall, handlerVars, apiVars,
       serverVars
<1>3. ASSUME NEW c \in Calls, Initialize(c) \/ Initialized(c) \/ Close(c)
      PROVE  InStep'
  BY <1>3 DEF IInv, TypeOK, InStep, AtApi, Initialize, Initialized, Close, clientVars,
     handlerVars, apiVars, serverVars, CaptureSso, CaptureHeaders, Reading
<1>4. ASSUME NEW c \in Calls,
              SendCall(c) \/ RespondForbidden(c) \/ GiveUp(c) \/ CloseUnsent(c)
              \/ HookDenies(c) \/ Abandon(c) \/ GatewayVerifies(c)
      PROVE  InStep'
  BY <1>4 DEF IInv, TypeOK, InStep, AtApi, SendCall, RespondForbidden, GiveUp,
     CloseUnsent, HookDenies, Abandon, GatewayVerifies, clientVars, handlerVars, apiVars,
     serverVars, InHandler
<1>5. ASSUME NEW c \in Calls, Respond(c)
      PROVE  InStep'
  BY <1>5 DEF IInv, TypeOK, InStep, AtApi, Respond, clientVars, handlerVars, apiVars,
     serverVars, botReply
<1>6. ASSUME NEW c \in Calls, HookExchanges(c)
      PROVE  InStep'
  BY <1>6 DEF IInv, TypeOK, InStep, AtApi, HookExchanges, clientVars, handlerVars,
     apiVars, serverVars
<1>7. ASSUME NEW c \in Calls, Capture(c)
      PROVE  InStep'
  BY <1>7 DEF IInv, TypeOK, InStep, AtApi, Capture, clientVars, handlerVars, apiVars,
     serverVars, CaptureHeaders
<1>8. ASSUME NEW c \in Calls, ReadBearer(c) \/ ReadTrace(c)
      PROVE  InStep'
  BY <1>8 DEF IInv, TypeOK, InStep, AtApi, ReadBearer, ReadTrace, clientVars, handlerVars,
     apiVars, serverVars
<1>9. ASSUME NEW c \in Calls,
              GatewayRefuses(c) \/ UpstreamFails(c) \/ GatewayFails(c)
              \/ RefuseToken(c) \/ RefuseScope(c)
      PROVE  InStep'
  BY <1>9 DEF IInv, TypeOK, InStep, AtApi, GatewayRefuses, UpstreamFails, GatewayFails,
     CutOff, Finish, RefuseToken, RefuseScope, clientVars, handlerVars, apiVars,
     serverVars, Answer
<1>10. ASSUME NEW c \in Calls, Execute(c)
      PROVE  InStep'
  BY <1>10 DEF IInv, TypeOK, InStep, AtApi, Finish, Execute, clientVars, handlerVars,
     apiVars, serverVars, Answer
<1>11. CASE RestartToolServer
  BY <1>11 DEF IInv, TypeOK, InStep, AtApi, RestartToolServer, clientVars, handlerVars,
     apiVars, InHandler, NoHeaders
<1> QED
  BY <1>1, <1>2, <1>3, <1>4, <1>5, <1>6, <1>7, <1>8, <1>9, <1>10, <1>11 DEF Next, ChatNext,
     HookNext, ToolServerNext, UpstreamNext

(* What the resource API has came through the gateway, and leaves it once. *)
LEMMA AtApiStep ==
    ASSUME IInv, [Next]_vars
    PROVE  AtApi'
<1>1. CASE UNCHANGED vars
  BY <1>1 DEF IInv, AtApi, vars, clientVars, handlerVars, apiVars, serverVars
<1>2. ASSUME NEW c \in Calls, NEW u \in Users, NEW t \in AskedTools, StartCall(c, u, t)
      PROVE  AtApi'
  BY <1>2 DEF IInv, AtApi, StartCall, handlerVars, apiVars, serverVars
<1>3. ASSUME NEW c \in Calls,
             Initialize(c) \/ Initialized(c) \/ Close(c) \/ GiveUp(c) \/ CloseUnsent(c)
      PROVE  AtApi'
  BY <1>3 DEF IInv, AtApi, Initialize, Initialized, Close, GiveUp, CloseUnsent, handlerVars,
     apiVars, serverVars
<1>4. ASSUME NEW c \in Calls,
             SendCall(c) \/ Respond(c) \/ RespondForbidden(c) \/ HookDenies(c)
             \/ HookExchanges(c)
      PROVE  AtApi'
  BY <1>4 DEF IInv, TypeOK, InStep, AtApi, SendCall, Respond, RespondForbidden, HookDenies,
     HookExchanges, handlerVars, apiVars, serverVars
<1>5. ASSUME NEW c \in Calls, Capture(c) \/ ReadBearer(c) \/ ReadTrace(c) \/ Abandon(c)
      PROVE  AtApi'
  BY <1>5 DEF IInv, TypeOK, AtApi, Capture, ReadBearer, ReadTrace, Abandon, InHandler,
     handlerVars, apiVars, serverVars
<1>6. ASSUME NEW c \in Calls, GatewayVerifies(c)
      PROVE  AtApi'
  BY <1>6 DEF IInv, TypeOK, InStep, AtApi, GatewayVerifies
<1>7. ASSUME NEW c \in Calls, GatewayRefuses(c) \/ UpstreamFails(c) \/ GatewayFails(c)
      PROVE  AtApi'
  BY <1>7 DEF IInv, TypeOK, InStep, AtApi, GatewayRefuses, UpstreamFails, GatewayFails,
     CutOff, Answer, apiVars
<1>8. ASSUME NEW c \in Calls, RefuseToken(c) \/ RefuseScope(c)
      PROVE  AtApi'
  BY <1>8, FinishDoes DEF IInv, AtApi, RefuseToken, RefuseScope
<1>9. ASSUME NEW c \in Calls, Execute(c)
      PROVE  AtApi'
  BY <1>9, FinishDoes DEF IInv, TypeOK, AtApi, Execute
<1>10. CASE RestartToolServer
  BY <1>10 DEF IInv, TypeOK, AtApi, RestartToolServer, InHandler, apiVars
<1> QED
  BY <1>1, <1>2, <1>3, <1>4, <1>5, <1>6, <1>7, <1>8, <1>9, <1>10 DEF Next, ChatNext,
     HookNext, ToolServerNext, UpstreamNext

(* Grants: only the hook makes one, and nobody changes what was asked. *)
LEMMA GrantsStep ==
    ASSUME IInv, [Next]_vars
    PROVE  GrantsRight'
<1>1. CASE UNCHANGED vars
  BY <1>1 DEF IInv, TypeOK, InStep, AtApi, GrantsRight, Granted, vars, clientVars,
     handlerVars, apiVars, serverVars
<1>2. ASSUME NEW c \in Calls, NEW u \in Users, NEW t \in AskedTools, StartCall(c, u, t)
      PROVE  GrantsRight'
  BY <1>2 DEF IInv, TypeOK, InStep, AtApi, GrantsRight, Granted, StartCall, handlerVars,
     apiVars, serverVars
<1>3. ASSUME NEW c \in Calls,
              Initialize(c) \/ Initialized(c) \/ Close(c) \/ SendCall(c) \/ Respond(c)
              \/ RespondForbidden(c) \/ GiveUp(c) \/ CloseUnsent(c)
      PROVE  GrantsRight'
  BY <1>3 DEF IInv, TypeOK, InStep, AtApi, GrantsRight, Granted, Initialize, Initialized,
     Close, SendCall, Respond, RespondForbidden, GiveUp, CloseUnsent, clientVars,
     handlerVars, apiVars, serverVars
<1>4. ASSUME NEW c \in Calls, HookDenies(c) \/ HookExchanges(c)
      PROVE  GrantsRight'
  BY <1>4, TokenKinds, TablesAgree DEF IInv, TypeOK, InStep, AtApi, GrantsRight, Granted,
     HookDenies, HookExchanges, clientVars, handlerVars, apiVars, serverVars, Covers
<1>5. ASSUME NEW c \in Calls, Capture(c) \/ ReadBearer(c) \/ ReadTrace(c) \/ Abandon(c)
      PROVE  GrantsRight'
  BY <1>5 DEF IInv, TypeOK, InStep, AtApi, GrantsRight, Granted, Capture, ReadBearer,
     ReadTrace, Abandon, clientVars, handlerVars, apiVars, serverVars, InHandler
<1>6. ASSUME NEW c \in Calls,
              GatewayVerifies(c) \/ GatewayRefuses(c) \/ UpstreamFails(c) \/ GatewayFails(c)
              \/ RefuseToken(c) \/ RefuseScope(c) \/ Execute(c)
      PROVE  GrantsRight'
  BY <1>6 DEF IInv, TypeOK, InStep, AtApi, GrantsRight, Granted, GatewayVerifies,
     GatewayRefuses, UpstreamFails, GatewayFails, CutOff, Finish, RefuseToken,
     RefuseScope, Execute, clientVars, handlerVars, apiVars, serverVars, Answer
<1>7. CASE RestartToolServer
  BY <1>7 DEF IInv, TypeOK, InStep, AtApi, GrantsRight, Granted, RestartToolServer,
     clientVars, handlerVars, apiVars, InHandler, NoHeaders
<1> QED
  BY <1>1, <1>2, <1>3, <1>4, <1>5, <1>6, <1>7 DEF Next, ChatNext, HookNext, ToolServerNext,
     UpstreamNext

(* Plugin tokens only come from the hook. *)
LEMMA VouchedStep ==
    ASSUME IInv, [Next]_vars
    PROVE  HeadersVouched'
<1>1. CASE UNCHANGED vars
  BY <1>1, TokenKinds DEF IInv, TypeOK, InStep, AtApi, HeadersVouched, Vouched, vars,
     clientVars, handlerVars, apiVars, serverVars
<1>2. ASSUME NEW c \in Calls, NEW u \in Users, NEW t \in AskedTools, StartCall(c, u, t)
      PROVE  HeadersVouched'
  BY <1>2, TokenKinds DEF IInv, TypeOK, InStep, AtApi, HeadersVouched, Vouched, StartCall,
     handlerVars, apiVars, serverVars
<1>3. ASSUME NEW c \in Calls, Initialize(c) \/ Initialized(c) \/ Close(c)
      PROVE  HeadersVouched'
  BY <1>3, TokenKinds, OwnSsoToken DEF IInv, TypeOK, InStep, AtApi, HeadersVouched,
     Vouched, Initialize, Initialized, Close, clientVars, handlerVars, apiVars,
     serverVars, CaptureSso, CaptureHeaders, Reading
<1>4. ASSUME NEW c \in Calls,
              SendCall(c) \/ Respond(c) \/ RespondForbidden(c) \/ GiveUp(c)
              \/ CloseUnsent(c) \/ HookDenies(c)
      PROVE  HeadersVouched'
  BY <1>4, TokenKinds DEF IInv, TypeOK, InStep, AtApi, HeadersVouched, Vouched, SendCall,
     Respond, RespondForbidden, GiveUp, CloseUnsent, HookDenies, clientVars, handlerVars,
     apiVars, serverVars
<1>5. ASSUME NEW c \in Calls, HookExchanges(c)
      PROVE  HeadersVouched'
  BY <1>5, TokenKinds DEF IInv, TypeOK, InStep, AtApi, HeadersVouched, Vouched,
     HookExchanges, clientVars, handlerVars, apiVars, serverVars, GrantsRight, Granted
<1>6. ASSUME NEW c \in Calls, Capture(c)
      PROVE  HeadersVouched'
  BY <1>6, TokenKinds DEF IInv, TypeOK, InStep, AtApi, HeadersVouched, Vouched, Capture,
     clientVars, handlerVars, apiVars, serverVars, CaptureHeaders, GrantsRight
<1>7. ASSUME NEW c \in Calls, ReadBearer(c) \/ ReadTrace(c) \/ Abandon(c)
      PROVE  HeadersVouched'
  BY <1>7, TokenKinds DEF IInv, TypeOK, InStep, AtApi, HeadersVouched, Vouched,
     ReadBearer, ReadTrace, Abandon, clientVars, handlerVars, apiVars, serverVars,
     InHandler
<1>8. ASSUME NEW c \in Calls, GatewayVerifies(c)
      PROVE  HeadersVouched'
  BY <1>8, TokenKinds DEF IInv, TypeOK, InStep, AtApi, HeadersVouched, Vouched,
     GatewayVerifies, clientVars, handlerVars, apiVars, serverVars
<1>9. ASSUME NEW c \in Calls,
              GatewayRefuses(c) \/ UpstreamFails(c) \/ GatewayFails(c)
              \/ RefuseToken(c) \/ RefuseScope(c)
              \/ Execute(c)
      PROVE  HeadersVouched'
  BY <1>9, TokenKinds DEF IInv, TypeOK, InStep, AtApi, HeadersVouched, Vouched,
     GatewayRefuses, UpstreamFails, GatewayFails, CutOff, Finish, RefuseToken,
     RefuseScope, Execute, clientVars, handlerVars, apiVars, serverVars, Answer
<1>10. CASE RestartToolServer
  BY <1>10, TokenKinds DEF IInv, TypeOK, InStep, AtApi, HeadersVouched, Vouched,
     RestartToolServer, clientVars, handlerVars, apiVars, InHandler, NoHeaders
<1> QED
  BY <1>1, <1>2, <1>3, <1>4, <1>5, <1>6, <1>7, <1>8, <1>9, <1>10 DEF Next, ChatNext,
     HookNext, ToolServerNext, UpstreamNext

(* Whoever is not overwritten keeps headers of its own. *)
LEMMA OwnHeadersStep ==
    ASSUME IInv, [Next]_vars
    PROVE  OwnHeaders'
<1>1. CASE UNCHANGED vars
  BY <1>1 DEF IInv, TypeOK, InStep, AtApi, OwnHeaders, OwnBearer, vars, clientVars,
     handlerVars, apiVars, serverVars
<1>2. ASSUME NEW c \in Calls, NEW u \in Users, NEW t \in AskedTools, StartCall(c, u, t)
      PROVE  OwnHeaders'
  BY <1>2 DEF IInv, TypeOK, InStep, AtApi, OwnHeaders, OwnBearer, StartCall, handlerVars,
     apiVars, serverVars, Reading
<1>3. ASSUME NEW c \in Calls, Initialize(c) \/ Initialized(c) \/ Close(c)
      PROVE  OwnHeaders'
  BY <1>3 DEF IInv, TypeOK, InStep, AtApi, OwnHeaders, OwnBearer, Initialize, Initialized,
     Close, clientVars, handlerVars, apiVars, serverVars, CaptureSso, CaptureHeaders,
     Reading
<1>4. ASSUME NEW c \in Calls,
              SendCall(c) \/ Respond(c) \/ RespondForbidden(c) \/ GiveUp(c)
              \/ CloseUnsent(c) \/ HookDenies(c)
      PROVE  OwnHeaders'
  BY <1>4 DEF IInv, TypeOK, InStep, AtApi, OwnHeaders, OwnBearer, SendCall, Respond,
     RespondForbidden, GiveUp, CloseUnsent, HookDenies, clientVars, handlerVars, apiVars,
     serverVars
<1>5. ASSUME NEW c \in Calls, HookExchanges(c)
      PROVE  OwnHeaders'
  BY <1>5 DEF IInv, TypeOK, InStep, AtApi, OwnHeaders, OwnBearer, HookExchanges,
     clientVars, handlerVars, apiVars, serverVars
<1>6. ASSUME NEW c \in Calls, Capture(c)
      PROVE  OwnHeaders'
  BY <1>6 DEF IInv, TypeOK, InStep, AtApi, OwnHeaders, OwnBearer, Capture, clientVars,
     handlerVars, apiVars, serverVars, CaptureHeaders, Reading
<1>7. ASSUME NEW c \in Calls, ReadBearer(c) \/ ReadTrace(c) \/ Abandon(c)
      PROVE  OwnHeaders'
  BY <1>7 DEF IInv, TypeOK, InStep, AtApi, OwnHeaders, OwnBearer, ReadBearer, ReadTrace,
     Abandon, clientVars, handlerVars, apiVars, serverVars, InHandler
<1>8. ASSUME NEW c \in Calls, GatewayVerifies(c)
      PROVE  OwnHeaders'
  BY <1>8 DEF IInv, TypeOK, InStep, AtApi, OwnHeaders, OwnBearer, GatewayVerifies,
     clientVars, handlerVars, apiVars, serverVars
<1>9. ASSUME NEW c \in Calls,
              GatewayRefuses(c) \/ UpstreamFails(c) \/ GatewayFails(c)
              \/ RefuseToken(c) \/ RefuseScope(c)
              \/ Execute(c)
      PROVE  OwnHeaders'
  BY <1>9 DEF IInv, TypeOK, InStep, AtApi, OwnHeaders, OwnBearer, GatewayRefuses,
     UpstreamFails, GatewayFails, CutOff, Finish, RefuseToken, RefuseScope, Execute,
     clientVars, handlerVars, apiVars, serverVars, Answer
<1>10. CASE RestartToolServer
  BY <1>10 DEF IInv, TypeOK, InStep, AtApi, OwnHeaders, OwnBearer, RestartToolServer,
     clientVars, handlerVars, apiVars, InHandler, NoHeaders
<1> QED
  BY <1>1, <1>2, <1>3, <1>4, <1>5, <1>6, <1>7, <1>8, <1>9, <1>10 DEF Next, ChatNext,
     HookNext, ToolServerNext, UpstreamNext

(* Answers stay true. *)
LEMMA AnswersStep ==
    ASSUME IInv, [Next]_vars
    PROVE  AnswersTrue'
<1>1. CASE UNCHANGED vars
  BY <1>1 DEF IInv, TypeOK, InStep, AtApi, AnswersTrue, vars, clientVars, handlerVars,
     apiVars, serverVars
<1>2. ASSUME NEW c \in Calls, NEW u \in Users, NEW t \in AskedTools, StartCall(c, u, t)
      PROVE  AnswersTrue'
  BY <1>2 DEF IInv, TypeOK, InStep, AtApi, AnswersTrue, StartCall, handlerVars, apiVars,
     serverVars
<1>3. ASSUME NEW c \in Calls, Initialize(c) \/ Initialized(c) \/ Close(c)
      PROVE  AnswersTrue'
  BY <1>3 DEF IInv, TypeOK, InStep, AtApi, AnswersTrue, Initialize, Initialized, Close,
     clientVars, handlerVars, apiVars, serverVars, CaptureSso, CaptureHeaders, Reading
<1>4. ASSUME NEW c \in Calls,
              SendCall(c) \/ Respond(c) \/ RespondForbidden(c) \/ GiveUp(c)
              \/ CloseUnsent(c) \/ HookDenies(c) \/ HookExchanges(c)
      PROVE  AnswersTrue'
  BY <1>4 DEF IInv, TypeOK, InStep, AtApi, AnswersTrue, SendCall, Respond,
     RespondForbidden, GiveUp, CloseUnsent, HookDenies, HookExchanges, clientVars,
     handlerVars, apiVars, serverVars
<1>5. ASSUME NEW c \in Calls, Capture(c) \/ ReadBearer(c) \/ ReadTrace(c) \/ Abandon(c)
      PROVE  AnswersTrue'
  BY <1>5 DEF IInv, TypeOK, InStep, AtApi, AnswersTrue, Capture, ReadBearer, ReadTrace,
     Abandon, clientVars, handlerVars, apiVars, serverVars, InHandler
<1>6. ASSUME NEW c \in Calls,
              GatewayVerifies(c) \/ GatewayRefuses(c) \/ UpstreamFails(c) \/ GatewayFails(c)
              \/ RefuseToken(c) \/ RefuseScope(c)
      PROVE  AnswersTrue'
  BY <1>6 DEF IInv, TypeOK, InStep, AtApi, AnswersTrue, GatewayVerifies, GatewayRefuses,
     UpstreamFails, GatewayFails, CutOff, Finish, RefuseToken, RefuseScope, clientVars,
     handlerVars, apiVars, serverVars, Answer
<1>7. ASSUME NEW c \in Calls, Execute(c)
      PROVE  AnswersTrue'
  <2> DEFINE op == OperationOf[ask[c].tool]
  <2> DEFINE e == [sub |-> bearer[c].sub, op |-> op]
  <2>0. Finish(c, "ok")
    BY <1>7 DEF Execute
  <2>1. op \in Operations
    BY <2>0, TablesAgree DEF IInv, GrantsRight, Granted, Covers, Finish
  <2>2. bearer[c] \in PluginTokens
    BY <2>0, FinishDoes DEF IInv, HeadersVouched
  <2>3. e # None
    BY <2>1, <2>2, TokenKinds, NoneAssumption DEF NoneAssumption
  <2>4. /\ e.sub = bearer[c].sub
        /\ requiredScope(e.op) = bearer[c].scope
    BY <1>7 DEF Execute
  <2>5. effect' = [effect EXCEPT ![c] = e] /\ bearer' = bearer
    BY <1>7, <2>0, FinishDoes DEF Execute
  <2> HIDE DEF e
  <2>6. ASSUME NEW d \in Calls, d # c, pc'[d] = "answered"
        PROVE  /\ pc[d] = "answered"
               /\ status'[d] = status[d]
               /\ effect'[d] = effect[d]
               /\ bearer'[d] = bearer[d]
               /\ d \in atApi' => d \in atApi
    BY <2>0, <2>5, <2>6, FinishDoes DEF IInv, TypeOK
  <2>7. effect'[c] = e /\ bearer'[c] = bearer[c] /\ c \notin atApi'
    BY <2>0, <2>5, FinishDoes DEF IInv, TypeOK
  <2>8. pc'[c] = "answered" => status'[c] \notin {"unauthorized", "insufficient_scope"}
    BY <2>0, FinishDoes DEF IInv, AnswersTrue
  <2> QED
    BY <2>2, <2>3, <2>4, <2>6, <2>7, <2>8 DEF IInv, AnswersTrue
<1>8. CASE RestartToolServer
  BY <1>8 DEF IInv, TypeOK, InStep, AtApi, AnswersTrue, RestartToolServer, clientVars,
     handlerVars, apiVars, InHandler, NoHeaders
<1> QED
  BY <1>1, <1>2, <1>3, <1>4, <1>5, <1>6, <1>7, <1>8 DEF Next, ChatNext, HookNext,
     ToolServerNext, UpstreamNext

(* What is done is authorised. *)
LEMMA EffectStep ==
    ASSUME IInv, [Next]_vars
    PROVE  EffectAuthorised'
<1>1. CASE UNCHANGED vars
  BY <1>1 DEF IInv, EffectAuthorised, vars, clientVars, handlerVars, apiVars, serverVars
<1>2. ASSUME NEW c \in Calls, NEW u \in Users, NEW t \in AskedTools, StartCall(c, u, t)
      PROVE  EffectAuthorised'
  <2>1. \A d \in Calls : exchanged[d] \in PluginTokens => ask'[d] = ask[d]
    BY <1>2, TokenKinds DEF IInv, TypeOK, InStep, AtApi, StartCall
  <2>2. effect' = effect /\ exchanged' = exchanged
    BY <1>2 DEF StartCall, apiVars
  <2> QED
    BY <2>1, <2>2, EffectsTokens DEF IInv, EffectAuthorised
<1>3. ASSUME NEW c \in Calls,
              Initialize(c) \/ Initialized(c) \/ Close(c) \/ SendCall(c) \/ Respond(c)
              \/ RespondForbidden(c) \/ GiveUp(c) \/ CloseUnsent(c) \/ HookDenies(c)
      PROVE  EffectAuthorised'
  BY <1>3 DEF IInv, EffectAuthorised, Initialize, Initialized, Close, SendCall, Respond,
     RespondForbidden, GiveUp, CloseUnsent, HookDenies, clientVars, handlerVars, apiVars,
     serverVars
<1>4. ASSUME NEW c \in Calls, HookExchanges(c)
      PROVE  EffectAuthorised'
  <2>1. ASSUME exchanged[c] # None
        PROVE  exchanged'[c] = exchanged[c]
    BY <1>4, <2>1 DEF IInv, TypeOK, GrantsRight, Granted, HookExchanges
  <2>2. \A d \in Calls : exchanged[d] # None => exchanged'[d] = exchanged[d]
    BY <1>4, <2>1 DEF IInv, TypeOK, HookExchanges
  <2>3. effect' = effect /\ ask' = ask
    BY <1>4 DEF HookExchanges, clientVars, apiVars
  <2> QED
    BY <2>2, <2>3, EffectsTokens, TokenKinds DEF IInv, EffectAuthorised
<1>5. ASSUME NEW c \in Calls, Capture(c) \/ ReadBearer(c) \/ ReadTrace(c) \/ Abandon(c)
      PROVE  EffectAuthorised'
  BY <1>5 DEF IInv, EffectAuthorised, Capture, ReadBearer, ReadTrace, Abandon, clientVars,
     handlerVars, apiVars, serverVars
<1>6. ASSUME NEW c \in Calls,
              GatewayVerifies(c) \/ GatewayRefuses(c) \/ UpstreamFails(c) \/ GatewayFails(c)
              \/ RefuseToken(c) \/ RefuseScope(c)
      PROVE  EffectAuthorised'
  BY <1>6 DEF IInv, EffectAuthorised, GatewayVerifies, GatewayRefuses, UpstreamFails,
     GatewayFails, CutOff, Finish, RefuseToken, RefuseScope, clientVars, handlerVars,
     apiVars, serverVars, Answer
<1>7. ASSUME NEW c \in Calls, Execute(c)
      PROVE  EffectAuthorised'
  BY <1>7, TokenKinds, MintedFields, TablesAgree DEF IInv, EffectAuthorised, Finish,
     Execute, clientVars, handlerVars, apiVars, serverVars, TypeOK, Answer,
     HeadersVouched, Vouched, GrantsRight, Granted, Covers
<1>8. CASE RestartToolServer
  BY <1>8 DEF IInv, EffectAuthorised, RestartToolServer, clientVars, handlerVars, apiVars,
     InHandler, NoHeaders
<1> QED
  BY <1>1, <1>2, <1>3, <1>4, <1>5, <1>6, <1>7, <1>8 DEF Next, ChatNext, HookNext,
     ToolServerNext, UpstreamNext

(* Who is not overwritten acts for its own rep. *)
LEMMA OnBehalfStep ==
    ASSUME IInv, [Next]_vars
    PROVE  OnBehalfOfUnlessOverwritten'
<1>1. CASE UNCHANGED vars
  BY <1>1 DEF IInv, TypeOK, InStep, AtApi, OnBehalfOfUnlessOverwritten, vars, clientVars,
     handlerVars, apiVars, serverVars
<1>2. ASSUME NEW c \in Calls, NEW u \in Users, NEW t \in AskedTools, StartCall(c, u, t)
      PROVE  OnBehalfOfUnlessOverwritten'
  BY <1>2 DEF IInv, TypeOK, InStep, AtApi, OnBehalfOfUnlessOverwritten, StartCall,
     handlerVars, apiVars, serverVars
<1>3. ASSUME NEW c \in Calls, Initialize(c) \/ Initialized(c) \/ Close(c)
      PROVE  OnBehalfOfUnlessOverwritten'
  BY <1>3 DEF IInv, TypeOK, InStep, AtApi, OnBehalfOfUnlessOverwritten, Initialize,
     Initialized, Close, clientVars, handlerVars, apiVars, serverVars, CaptureSso,
     CaptureHeaders, Reading
<1>4. ASSUME NEW c \in Calls,
              SendCall(c) \/ Respond(c) \/ RespondForbidden(c) \/ GiveUp(c)
              \/ CloseUnsent(c) \/ HookDenies(c) \/ HookExchanges(c)
      PROVE  OnBehalfOfUnlessOverwritten'
  BY <1>4 DEF IInv, TypeOK, InStep, AtApi, OnBehalfOfUnlessOverwritten, SendCall, Respond,
     RespondForbidden, GiveUp, CloseUnsent, HookDenies, HookExchanges, clientVars,
     handlerVars, apiVars, serverVars
<1>5. ASSUME NEW c \in Calls, Capture(c) \/ ReadBearer(c) \/ ReadTrace(c) \/ Abandon(c)
      PROVE  OnBehalfOfUnlessOverwritten'
  BY <1>5 DEF IInv, TypeOK, InStep, AtApi, OnBehalfOfUnlessOverwritten, Capture,
     ReadBearer, ReadTrace, Abandon, clientVars, handlerVars, apiVars, serverVars,
     InHandler, CaptureHeaders
<1>6. ASSUME NEW c \in Calls,
              GatewayVerifies(c) \/ GatewayRefuses(c) \/ UpstreamFails(c) \/ GatewayFails(c)
              \/ RefuseToken(c) \/ RefuseScope(c)
      PROVE  OnBehalfOfUnlessOverwritten'
  BY <1>6 DEF IInv, TypeOK, InStep, AtApi, OnBehalfOfUnlessOverwritten, GatewayVerifies,
     GatewayRefuses, UpstreamFails, GatewayFails, CutOff, Finish, RefuseToken,
     RefuseScope, clientVars, handlerVars, apiVars, serverVars, Answer
<1>7. ASSUME NEW c \in Calls, Execute(c)
      PROVE  OnBehalfOfUnlessOverwritten'
  BY <1>7, TokenKinds, MintedFields, OwnSsoToken DEF IInv, TypeOK, InStep, AtApi,
     OnBehalfOfUnlessOverwritten, Finish, Execute, clientVars, handlerVars, apiVars,
     serverVars, Answer, HeadersVouched, OwnHeaders, OwnBearer, GrantsRight, Granted
<1>8. CASE RestartToolServer
  BY <1>8 DEF IInv, TypeOK, InStep, AtApi, OnBehalfOfUnlessOverwritten, RestartToolServer,
     clientVars, handlerVars, apiVars, InHandler, NoHeaders
<1> QED
  BY <1>1, <1>2, <1>3, <1>4, <1>5, <1>6, <1>7, <1>8 DEF Next, ChatNext, HookNext,
     ToolServerNext, UpstreamNext

(* The tables agree, so only somebody else's token has the wrong scope. *)
LEMMA ScopeRefusedStep ==
    ASSUME IInv, [Next]_vars
    PROVE  ScopeRefusedOnlyIfOverwritten'
<1>1. CASE UNCHANGED vars
  BY <1>1 DEF IInv, TypeOK, ScopeRefusedOnlyIfOverwritten, vars, clientVars, handlerVars,
     apiVars, serverVars
<1>2. ASSUME NEW c \in Calls, NEW u \in Users, NEW t \in AskedTools, StartCall(c, u, t)
      PROVE  ScopeRefusedOnlyIfOverwritten'
  BY <1>2 DEF IInv, TypeOK, ScopeRefusedOnlyIfOverwritten, StartCall, handlerVars, apiVars,
     serverVars
<1>3. ASSUME NEW c \in Calls, Initialize(c) \/ Initialized(c) \/ Close(c)
      PROVE  ScopeRefusedOnlyIfOverwritten'
  BY <1>3 DEF IInv, TypeOK, ScopeRefusedOnlyIfOverwritten, Initialize, Initialized, Close,
     clientVars, handlerVars, apiVars, serverVars, CaptureSso, CaptureHeaders, Reading
<1>4. ASSUME NEW c \in Calls,
              SendCall(c) \/ Respond(c) \/ RespondForbidden(c) \/ GiveUp(c)
              \/ CloseUnsent(c) \/ HookDenies(c) \/ HookExchanges(c)
      PROVE  ScopeRefusedOnlyIfOverwritten'
  BY <1>4 DEF IInv, TypeOK, ScopeRefusedOnlyIfOverwritten, SendCall, Respond,
     RespondForbidden, GiveUp, CloseUnsent, HookDenies, HookExchanges, clientVars,
     handlerVars, apiVars, serverVars
<1>5. ASSUME NEW c \in Calls, Capture(c) \/ ReadBearer(c) \/ ReadTrace(c) \/ Abandon(c)
      PROVE  ScopeRefusedOnlyIfOverwritten'
  BY <1>5 DEF IInv, TypeOK, ScopeRefusedOnlyIfOverwritten, Capture, ReadBearer, ReadTrace,
     Abandon, clientVars, handlerVars, apiVars, serverVars, CaptureHeaders
<1>6. ASSUME NEW c \in Calls,
              GatewayVerifies(c) \/ GatewayRefuses(c) \/ UpstreamFails(c) \/ GatewayFails(c)
              \/ RefuseToken(c)
              \/ Execute(c)
      PROVE  ScopeRefusedOnlyIfOverwritten'
  BY <1>6 DEF IInv, TypeOK, ScopeRefusedOnlyIfOverwritten, GatewayVerifies,
     GatewayRefuses, UpstreamFails, GatewayFails, CutOff, Finish, RefuseToken, Execute,
     clientVars, handlerVars, apiVars, serverVars, Answer
<1>7. ASSUME NEW c \in Calls, RefuseScope(c)
      PROVE  ScopeRefusedOnlyIfOverwritten'
  BY <1>7, TokenKinds, MintedFields, TablesAgree, OwnSsoToken DEF IInv, TypeOK,
     ScopeRefusedOnlyIfOverwritten, Finish, RefuseScope, clientVars, handlerVars, apiVars,
     serverVars, Answer, InStep, HeadersVouched, OwnHeaders, OwnBearer, GrantsRight,
     Granted, Covers
<1>8. CASE RestartToolServer
  BY <1>8 DEF IInv, TypeOK, ScopeRefusedOnlyIfOverwritten, RestartToolServer, clientVars,
     handlerVars, apiVars, InHandler, NoHeaders
<1> QED
  BY <1>1, <1>2, <1>3, <1>4, <1>5, <1>6, <1>7, <1>8 DEF Next, ChatNext, HookNext,
     ToolServerNext, UpstreamNext

(* A denial is never of something that is done. *)
LEMMA DeniedStep ==
    ASSUME IInv, [Next]_vars
    PROVE  RefusedHasNoEffect'
<1>1. CASE UNCHANGED vars
  BY <1>1 DEF IInv, TypeOK, InStep, AtApi, RefusedHasNoEffect, vars, clientVars,
     handlerVars, apiVars, serverVars
<1>2. ASSUME NEW c \in Calls, NEW u \in Users, NEW t \in AskedTools, StartCall(c, u, t)
      PROVE  RefusedHasNoEffect'
  BY <1>2 DEF IInv, TypeOK, InStep, AtApi, RefusedHasNoEffect, StartCall, handlerVars,
     apiVars, serverVars
<1>3. ASSUME NEW c \in Calls, Initialize(c) \/ Initialized(c) \/ Close(c) \/ SendCall(c)
      PROVE  RefusedHasNoEffect'
  BY <1>3 DEF IInv, TypeOK, InStep, AtApi, RefusedHasNoEffect, Initialize, Initialized,
     Close, SendCall, clientVars, handlerVars, apiVars, serverVars
<1>4. ASSUME NEW c \in Calls, Respond(c)
      PROVE  RefusedHasNoEffect'
  BY <1>4 DEF IInv, TypeOK, InStep, AtApi, RefusedHasNoEffect, Respond, clientVars,
     handlerVars, apiVars, serverVars, AnswersTrue, botReply
<1>5. ASSUME NEW c \in Calls,
              RespondForbidden(c) \/ GiveUp(c) \/ CloseUnsent(c) \/ HookDenies(c)
              \/ HookExchanges(c)
      PROVE  RefusedHasNoEffect'
  BY <1>5 DEF IInv, TypeOK, InStep, AtApi, RefusedHasNoEffect, RespondForbidden, GiveUp,
     CloseUnsent, HookDenies, HookExchanges, clientVars, handlerVars, apiVars, serverVars
<1>6. ASSUME NEW c \in Calls, Capture(c) \/ ReadBearer(c) \/ ReadTrace(c) \/ Abandon(c)
      PROVE  RefusedHasNoEffect'
  BY <1>6 DEF IInv, TypeOK, InStep, AtApi, RefusedHasNoEffect, Capture, ReadBearer,
     ReadTrace, Abandon, clientVars, handlerVars, apiVars, serverVars
<1>7. ASSUME NEW c \in Calls,
              GatewayVerifies(c) \/ GatewayRefuses(c) \/ UpstreamFails(c) \/ GatewayFails(c)
              \/ RefuseToken(c) \/ RefuseScope(c)
      PROVE  RefusedHasNoEffect'
  BY <1>7 DEF IInv, TypeOK, InStep, AtApi, RefusedHasNoEffect, GatewayVerifies,
     GatewayRefuses, UpstreamFails, GatewayFails, CutOff, Finish, RefuseToken,
     RefuseScope, clientVars, handlerVars, apiVars, serverVars, Answer
<1>8. ASSUME NEW c \in Calls, Execute(c)
      PROVE  RefusedHasNoEffect'
  BY <1>8 DEF IInv, TypeOK, InStep, AtApi, RefusedHasNoEffect, Finish, Execute,
     clientVars, handlerVars, apiVars, serverVars, Answer
<1>9. CASE RestartToolServer
  BY <1>9 DEF IInv, TypeOK, InStep, AtApi, RefusedHasNoEffect, RestartToolServer,
     clientVars, handlerVars, apiVars, InHandler, NoHeaders
<1> QED
  BY <1>1, <1>2, <1>3, <1>4, <1>5, <1>6, <1>7, <1>8, <1>9 DEF Next, ChatNext, HookNext,
     ToolServerNext, UpstreamNext

(* The inspector shows what was used. *)
LEMMA InspectorStep ==
    ASSUME IInv, [Next]_vars
    PROVE  InspectorShowsTokenUsed'
<1>1. CASE UNCHANGED vars
  BY <1>1 DEF IInv, TypeOK, InStep, AtApi, InspectorShowsTokenUsed, vars, clientVars,
     handlerVars, apiVars, serverVars
<1>2. ASSUME NEW c \in Calls, NEW u \in Users, NEW t \in AskedTools, StartCall(c, u, t)
      PROVE  InspectorShowsTokenUsed'
  BY <1>2 DEF IInv, TypeOK, InStep, AtApi, InspectorShowsTokenUsed, StartCall,
     handlerVars, apiVars, serverVars
<1>3. ASSUME NEW c \in Calls, Initialize(c) \/ Initialized(c) \/ Close(c) \/ SendCall(c)
      PROVE  InspectorShowsTokenUsed'
  BY <1>3 DEF IInv, TypeOK, InStep, AtApi, InspectorShowsTokenUsed, Initialize,
     Initialized, Close, SendCall, clientVars, handlerVars, apiVars, serverVars
<1>4. ASSUME NEW c \in Calls, Respond(c)
      PROVE  InspectorShowsTokenUsed'
  BY <1>4, TokenKinds DEF IInv, TypeOK, InStep, AtApi, InspectorShowsTokenUsed, Respond,
     clientVars, handlerVars, apiVars, serverVars, AnswersTrue, botReply, renderInspector,
     extractUpstreamToken
<1>5. ASSUME NEW c \in Calls,
              RespondForbidden(c) \/ GiveUp(c) \/ CloseUnsent(c) \/ HookDenies(c)
              \/ HookExchanges(c)
      PROVE  InspectorShowsTokenUsed'
  BY <1>5 DEF IInv, TypeOK, InStep, AtApi, InspectorShowsTokenUsed, RespondForbidden,
     GiveUp, CloseUnsent, HookDenies, HookExchanges, clientVars, handlerVars, apiVars,
     serverVars
<1>6. ASSUME NEW c \in Calls, Capture(c) \/ ReadBearer(c) \/ ReadTrace(c) \/ Abandon(c)
      PROVE  InspectorShowsTokenUsed'
  BY <1>6 DEF IInv, TypeOK, InStep, AtApi, InspectorShowsTokenUsed, Capture, ReadBearer,
     ReadTrace, Abandon, clientVars, handlerVars, apiVars, serverVars
<1>7. ASSUME NEW c \in Calls,
              GatewayVerifies(c) \/ GatewayRefuses(c) \/ UpstreamFails(c) \/ GatewayFails(c)
              \/ RefuseToken(c) \/ RefuseScope(c)
      PROVE  InspectorShowsTokenUsed'
  BY <1>7 DEF IInv, TypeOK, InStep, AtApi, InspectorShowsTokenUsed, GatewayVerifies,
     GatewayRefuses, UpstreamFails, GatewayFails, CutOff, Finish, RefuseToken,
     RefuseScope, clientVars, handlerVars, apiVars, serverVars, Answer
<1>8. ASSUME NEW c \in Calls, Execute(c)
      PROVE  InspectorShowsTokenUsed'
  BY <1>8 DEF IInv, TypeOK, InStep, AtApi, InspectorShowsTokenUsed, Finish, Execute,
     clientVars, handlerVars, apiVars, serverVars, Answer
<1>9. CASE RestartToolServer
  BY <1>9 DEF IInv, TypeOK, InStep, AtApi, InspectorShowsTokenUsed, RestartToolServer,
     clientVars, handlerVars, apiVars, InHandler, NoHeaders
<1> QED
  BY <1>1, <1>2, <1>3, <1>4, <1>5, <1>6, <1>7, <1>8, <1>9 DEF Next, ChatNext, HookNext,
     ToolServerNext, UpstreamNext

-----------------------------------------------------------------------------
(* Initially nothing was asked, granted or done. *)
LEMMA InitIInv == Init => IInv
<1> SUFFICES ASSUME Init PROVE IInv
  OBVIOUS
<1>1. TypeOK
  BY DEF Init, TypeOK, NoHeaders
<1>2. HeadersVouched
  BY TokenKinds DEF Init, HeadersVouched, Vouched, NoHeaders
<1>3. /\ InStep
      /\ AtApi
      /\ GrantsRight
      /\ OwnHeaders
      /\ AnswersTrue
  <2>1. InStep
    <3>1. ASSUME NEW c \in Calls
          PROVE  /\ phase[c] = "idle" /\ pc[c] = "none" /\ verdict[c] = None
                 /\ exchanged[c] = None /\ effect[c] = None /\ shown[c] = None
      BY DEF Init
    <3>2. None # "denied"
      BY NoneAssumption DEF NoneAssumption
    <3> QED
      BY <3>1, <3>2 DEF InStep
  <2>2. AtApi /\ GrantsRight
    BY DEF Init, AtApi, GrantsRight
  <2>3. OwnHeaders
    BY DEF Init, OwnHeaders
  <2>4. AnswersTrue
    BY DEF Init, AnswersTrue
  <2> QED
    BY <2>1, <2>2, <2>3, <2>4
<1>4. /\ EffectAuthorised
      /\ OnBehalfOfUnlessOverwritten
      /\ ScopeRefusedOnlyIfOverwritten
      /\ RefusedHasNoEffect
      /\ InspectorShowsTokenUsed
  BY DEF Init, EffectAuthorised, OnBehalfOfUnlessOverwritten, ScopeRefusedOnlyIfOverwritten,
         RefusedHasNoEffect, InspectorShowsTokenUsed
<1> QED
  BY <1>1, <1>2, <1>3, <1>4 DEF IInv

(* The inductive invariant holds in every reachable state, whatever the      *)
(* calls, the reps and their entitlements: what the one header variable, the *)
(* handlers and the requests at the resource API - those nobody waits for    *)
(* any more included - may hold at any time.                                 *)
THEOREM Invariant == Spec => []IInv
<1>1. Init => IInv
  BY InitIInv
<1>2. IInv /\ [Next]_vars => IInv'
  BY TypeStep, InStepStep, AtApiStep, GrantsStep, VouchedStep, OwnHeadersStep,
     AnswersStep, EffectStep, OnBehalfStep, ScopeRefusedStep, DeniedStep, InspectorStep
     DEF IInv
<1> QED
  BY <1>1, <1>2, PTL DEF Spec

(* Every variable keeps to its type; the page never shows an SSO token as    *)
(* the one the API received.                                                 *)
THEOREM TypeCorrect == Spec => []TypeOK
<1>1. IInv => TypeOK
  BY DEF IInv
<1> QED
  BY <1>1, Invariant, PTL

(* token_exchange_post_hook, requireScope: nothing is done that was not      *)
(* entitled to and exchanged for, however the tool server mixes up headers.  *)
THEOREM NothingUnauthorised == Spec => []EffectAuthorised
<1>1. IInv => EffectAuthorised
  BY DEF IInv
<1> QED
  BY <1>1, Invariant, PTL

(* currentMeta is the only place of the chain where an identity is lost.     *)
THEOREM OwnIdentity == Spec => []OnBehalfOfUnlessOverwritten
<1>1. IInv => OnBehalfOfUnlessOverwritten
  BY DEF IInv
<1> QED
  BY <1>1, Invariant, PTL

(* TOOL_SCOPES and the handlers' scopes agree on every tool: a handler       *)
(* refuses a scope only to a token that is somebody else's.                  *)
THEOREM ScopesAgree == Spec => []ScopeRefusedOnlyIfOverwritten
<1>1. IInv => ScopeRefusedOnlyIfOverwritten
  BY DEF IInv
<1> QED
  BY <1>1, Invariant, PTL

(* A denial the page shows because the hook, the gateway's check of the      *)
(* token or the resource API refused the call is of something that was not   *)
(* done and will not be.  A denial that is the gateway's own error, which    *)
(* botReply words the same way, is left out: the resource API may have acted *)
(* before it (the run exchange_denied).                                      *)
THEOREM RefusalsTrue == Spec => []RefusedHasNoEffect
<1>1. IInv => RefusedHasNoEffect
  BY DEF IInv
<1> QED
  BY <1>1, Invariant, PTL

(* The inspector shows the token the operation was done with.                *)
THEOREM InspectorTrue == Spec => []InspectorShowsTokenUsed
<1>1. IInv => InspectorShowsTokenUsed
  BY DEF IInv
<1> QED
  BY <1>1, Invariant, PTL

-----------------------------------------------------------------------------
(* The chain implements the abstract delegation. *)

(* Delegation speaks of the same scopes and operations. *)
LEMMA SameTables ==
    /\ Abstract!Scopes = Scopes
    /\ Abstract!Operations = Operations
    /\ \A op : Abstract!requiredScope(op) = requiredScope(op)
<1>1. Abstract!Scopes = Scopes /\ Abstract!Operations = Operations
  BY DEF Abstract!Scopes, Scopes, Abstract!Operations, Operations
<1>2. \A op : Abstract!requiredScope(op) = requiredScope(op)
  BY DEF Abstract!requiredScope, requiredScope
<1> QED
  BY <1>1, <1>2

(* A new token is a grant, if it is one for an entitlement. *)
LEMMA HookGrants ==
    ASSUME IInv, NEW c \in Calls, HookExchanges(c)
    PROVE  Abstract!Next
<1> DEFINE u == ask[c].user
<1> DEFINE s == TOOL_SCOPES[ask[c].tool]
<1> DEFINE tok == mint_exchanged_token(u, s)
<1>1. ask[c] # None /\ Covers(u, ask[c].tool)
  BY DEF HookExchanges, IInv, TypeOK, InStep
<1>2. u \in Users /\ s \in Scopes /\ s \in Entitlements[u]
  BY <1>1, TablesAgree DEF Covers, IInv, TypeOK
<1>3. tok # None /\ tok.sub = u /\ tok.scope = s
  BY <1>2, TokenKinds, MintedFields
<1>4. exchanged[c] # None => exchanged[c] = tok
  BY DEF IInv, GrantsRight, Granted
<1>5. exchanged' = [exchanged EXCEPT ![c] = tok]
  BY DEF HookExchanges
<1> HIDE DEF tok
<1>6. \A d \in Calls : exchanged'[d] = IF d = c THEN tok ELSE exchanged[d]
  BY <1>5 DEF IInv, TypeOK
<1>7. grantsMade' = grantsMade \cup {[sub |-> u, scope |-> s]}
  <2>1. ASSUME NEW g \in grantsMade'
        PROVE  g \in grantsMade \cup {[sub |-> u, scope |-> s]}
    BY <1>3, <1>6 DEF grantsMade
  <2>2. ASSUME NEW g \in grantsMade
        PROVE  g \in grantsMade'
    BY <1>3, <1>4, <1>6 DEF grantsMade
  <2>3. [sub |-> u, scope |-> s] \in grantsMade'
    BY <1>3, <1>6 DEF grantsMade
  <2> QED
    BY <2>1, <2>2, <2>3
<1>8. effectsDone' = effectsDone
  BY DEF HookExchanges, effectsDone, apiVars
<1>9. Abstract!Grant(u, s)
  BY <1>2, <1>7, <1>8 DEF Abstract!Grant
<1> QED
  BY <1>2, <1>9, SameTables DEF Abstract!Next

(* An operation uses a grant that was made for exactly its scope. *)
LEMMA ExecutePerforms ==
    ASSUME IInv, NEW c \in Calls, Execute(c)
    PROVE  Abstract!Next
<1> DEFINE op == OperationOf[ask[c].tool]
<1> DEFINE e == [sub |-> bearer[c].sub, op |-> op]
<1> DEFINE g == [sub |-> bearer[c].sub, scope |-> bearer[c].scope]
<1>1. op \in Operations
  BY TablesAgree DEF IInv, GrantsRight, Granted, Covers, Finish, Execute
<1>2. bearer[c] \in PluginTokens
  BY DEF IInv, HeadersVouched, Finish, Execute
<1>3. PICK d \in Calls : exchanged[d] = bearer[c]
  BY <1>2 DEF IInv, HeadersVouched, Vouched
<1>4. g \in grantsMade
  BY <1>2, <1>3, TokenKinds DEF grantsMade
<1>5. requiredScope(op) = g.scope
  BY DEF Finish, Execute
<1>6. effect[c] = None
  BY DEF IInv, AtApi, Finish, Execute
<1>7. e # None
  BY <1>1, <1>2, TokenKinds, NoneAssumption DEF NoneAssumption
<1>8. effect' = [effect EXCEPT ![c] = e]
  BY DEF Finish, Execute
<1> HIDE DEF e
<1>9. \A f \in Calls : effect'[f] = IF f = c THEN e ELSE effect[f]
  BY <1>8 DEF IInv, TypeOK
<1>10. effectsDone' = effectsDone \cup {e}
  BY <1>6, <1>7, <1>9 DEF effectsDone
<1>11. grantsMade' = grantsMade
  BY DEF Finish, Execute, grantsMade
<1>12. Abstract!Perform(g, op)
  BY <1>5, <1>10, <1>11, SameTables DEF Abstract!Perform, e
<1> QED
  BY <1>1, <1>4, <1>12, SameTables DEF Abstract!Next

(* Every other step neither grants nor does anything. *)
LEMMA OthersStutter ==
    ASSUME exchanged' = exchanged, effect' = effect
    PROVE  UNCHANGED Abstract!dvars
BY DEF Abstract!dvars, grantsMade, effectsDone

(* Every behaviour of the chain is one of Delegation: the tokens minted are  *)
(* its grants, the operations of the resource API its effects.               *)
THEOREM Refinement == Spec => ImplementsDelegation
<1>1. Init => Abstract!Init
  BY DEF Init, Abstract!Init, grantsMade, effectsDone
<1>2. IInv /\ [Next]_vars => [Abstract!Next]_(Abstract!dvars)
  <2> SUFFICES ASSUME IInv, [Next]_vars
               PROVE  [Abstract!Next]_(Abstract!dvars)
    OBVIOUS
  <2>1. CASE UNCHANGED vars
    BY <2>1, OthersStutter DEF vars, apiVars
  <2>2. ASSUME NEW c \in Calls, ChatNext(c)
        PROVE  exchanged' = exchanged /\ effect' = effect
    BY <2>2 DEF apiVars, ChatNext, StartCall, Initialize, Initialized, SendCall, Respond,
                RespondForbidden, GiveUp, Close, CloseUnsent
  <2>3. ASSUME NEW c \in Calls, HookDenies(c) \/ ToolServerNext(c) \/ RestartToolServer
        PROVE  exchanged' = exchanged /\ effect' = effect
    BY <2>3 DEF apiVars, HookDenies, ToolServerNext, Capture, ReadBearer, ReadTrace,
       Abandon, RestartToolServer
  <2>4. ASSUME NEW c \in Calls, UpstreamNext(c), ~Execute(c)
        PROVE  exchanged' = exchanged /\ effect' = effect
    BY <2>4 DEF apiVars, UpstreamNext, GatewayVerifies, GatewayRefuses, UpstreamFails,
       GatewayFails, CutOff, Finish, RefuseToken, RefuseScope
  <2>5. CASE RestartToolServer
    BY <2>5, OthersStutter DEF RestartToolServer, apiVars
  <2> QED
    BY <2>1, <2>2, <2>3, <2>4, <2>5, OthersStutter, HookGrants, ExecutePerforms DEF Next,
       HookNext
<1> QED
  BY <1>1, <1>2, Invariant, PTL DEF Spec, ImplementsDelegation, Abstract!Spec
=============================================================================
