---------------------------- MODULE TokenExchange ----------------------------
(***************************************************************************)
(* One tool call through the whole chain, many of them at once:            *)
(*                                                                         *)
(*   acme-chat --SSO token--> gateway + exchange plugin --exchanged token--> *)
(*   acme-mcp-server --replayed token--> gateway --> acme-resource-api     *)
(*                                                                         *)
(* A call is one /api/tool request of acme-chat: it opens an MCP session   *)
(* of its own (initialize, notifications/initialized), posts tools/call    *)
(* and closes the session with a DELETE.  All four requests pass the       *)
(* gateway and, in the tool server, captureMiddleware, which stores their  *)
(* headers in ONE process-wide variable; the tool handler reads its bearer *)
(* and its trace context back from that variable, later.                   *)
(*                                                                         *)
(* phase[c] is where acme-chat is in the call, pc[c] where its tools/call  *)
(* request is: "gateway" (at the hook), "inbound" (on its way to the tool  *)
(* server), "bearer", "trace", "send" (in the handler, about to read the   *)
(* bearer, read the trace context, call upstream), "resource" (the handler *)
(* waits for the answer), "answered", "refused" (by the hook), "lost".     *)
(* atApi is what the resource API is working on: it goes on, and may act,  *)
(* whether or not a handler still waits.                                   *)
(***************************************************************************)
EXTENDS AcmeScopes

CONSTANTS
    Calls,         \* /api/tool requests, each made at most once
    AskedTools,    \* tool names the browser may ask for, known or not
    None           \* "no token", "no call", "no verdict yet"

ASSUME NoneAssumption ==
    /\ None \notin Tokens
    /\ None \notin Calls
    /\ None \notin {"done", "denied", "failed"}
    /\ None \notin [user : Users, tool : AskedTools]
    /\ None \notin [sub : Users, op : Operations]

VARIABLES
    ask,           \* ask[c]: the rep of the session and the tool asked for
    phase,         \* phase[c]: progress of acme-chat's callTool
    verdict,       \* verdict[c]: what the chat page tells the rep
    shown,         \* shown[c]: the token the page's inspector shows as received
    pc,            \* pc[c]: where the tools/call request is
    exchanged,     \* exchanged[c]: the token the hook minted for it
    meta,          \* currentMeta: headers of the last request to the tool server
    live,          \* MCP sessions the tool server knows, by the call they serve
    bearer,        \* bearer[c]: the Authorization header of the upstream request
    trace,         \* trace[c]: whose trace context the upstream request carries
    status,        \* status[c]: class of the upstream answer
    atApi,         \* calls whose upstream request is in the resource API
    effect,        \* effect[c]: what the resource API did for it, in whose name
    overwritten    \* history: calls whose headers were replaced under the handler

clientVars  == <<ask, phase, verdict, shown>>
handlerVars == <<bearer, trace, status>>
apiVars     == <<atApi, effect>>
serverVars  == <<meta, live, overwritten>>
vars == <<clientVars, pc, exchanged, serverVars, handlerVars, apiVars>>

NoHeaders == [bearer |-> None, trace |-> None]

(* A handler that has entered and has not read all its headers yet. *)
Reading == {c \in Calls : pc[c] \in {"bearer", "trace"}}

(* A handler of the tool server at work, or waiting in http.DefaultClient.Do. *)
InHandler == {c \in Calls : pc[c] \in {"bearer", "trace", "send", "resource"}}

-----------------------------------------------------------------------------
Init ==
    /\ ask         = [c \in Calls |-> None]
    /\ phase       = [c \in Calls |-> "idle"]
    /\ verdict     = [c \in Calls |-> None]
    /\ shown       = [c \in Calls |-> None]
    /\ pc          = [c \in Calls |-> "none"]
    /\ exchanged   = [c \in Calls |-> None]
    /\ meta        = NoHeaders
    /\ live        = {}
    /\ bearer      = [c \in Calls |-> None]
    /\ trace       = [c \in Calls |-> None]
    /\ status      = [c \in Calls |-> "none"]
    /\ atApi       = {}
    /\ effect      = [c \in Calls |-> None]
    /\ overwritten = {}

(* captureMiddleware: whatever request arrives, its headers are the current  *)
(* ones from now on.                                                         *)
CaptureHeaders(c, t) ==
    /\ meta' = [bearer |-> t, trace |-> c]
    /\ overwritten' = overwritten \cup (Reading \ {c})

(* A request other than tools/call passes the hook on its SSO token. *)
CaptureSso(c) == CaptureHeaders(c, SsoToken(ask[c].user))

-----------------------------------------------------------------------------
(* acme-chat: handleTool and callTool, with the MCP client it drives. *)

StartCall(c, u, t) ==
    /\ phase[c] = "idle"
    /\ ask' = [ask EXCEPT ![c] = [user |-> u, tool |-> t]]
    /\ phase' = [phase EXCEPT ![c] = "connect"]
    /\ UNCHANGED <<verdict, shown, pc, exchanged, serverVars, handlerVars, apiVars>>

(* client.Connect, first request: the tool server opens a session. *)
Initialize(c) ==
    /\ phase[c] = "connect"
    /\ CaptureSso(c)
    /\ live' = live \cup {c}
    /\ phase' = [phase EXCEPT ![c] = "notify"]
    /\ UNCHANGED <<ask, verdict, shown, pc, exchanged, handlerVars, apiVars>>

(* client.Connect, second request: notifications/initialized.  A session the *)
(* server lost is a 404, which fails Connect; the headers are stored anyway. *)
Initialized(c) ==
    /\ phase[c] = "notify"
    /\ CaptureSso(c)
    /\ IF c \in live
         THEN phase' = [phase EXCEPT ![c] = "call"] /\ UNCHANGED verdict
         ELSE /\ phase' = [phase EXCEPT ![c] = "close"]
              /\ verdict' = [verdict EXCEPT ![c] = "failed"]
    /\ UNCHANGED <<ask, shown, pc, exchanged, live, handlerVars, apiVars>>

(* cs.CallTool: the tools/call request leaves with the SSO token. *)
SendCall(c) ==
    /\ phase[c] = "call"
    /\ phase' = [phase EXCEPT ![c] = "wait"]
    /\ pc' = [pc EXCEPT ![c] = "gateway"]
    /\ UNCHANGED <<ask, verdict, shown, exchanged, serverVars, handlerVars, apiVars>>

(* Defect variant of botReply: whatever is not a 200 counts as a denial. *)
botReplyStrict(s) == IF s = "ok" THEN "done" ELSE "denied"

(* What botReply makes of a tool result: every status of 400 and above is a  *)
(* denial, a 5xx of the gateway too; everything else that is not an error of *)
(* callTool itself, a transport failure too, is reported as done.            *)
botReply(s) ==
    IF s \in {"unauthorized", "insufficient_scope", "gateway_error"} THEN "denied" ELSE "done"

(* The bearer in the echo of the resource API; without its answer there is none. *)
extractUpstreamToken(c) ==
    IF status[c] \in {"none", "gateway_error"} THEN None ELSE bearer[c]

(* Defect variant of Respond: the inspector also shows the bearer of a denial. *)
RespondShowingAlways(c) ==
    /\ phase[c] = "wait"
    /\ pc[c] = "answered"
    /\ c \in live
    /\ verdict' = [verdict EXCEPT ![c] = botReply(status[c])]
    /\ shown' = [shown EXCEPT ![c] = bearer[c]]
    /\ phase' = [phase EXCEPT ![c] = "close"]
    /\ pc' = [pc EXCEPT ![c] = "done"]
    /\ UNCHANGED <<ask, exchanged, serverVars, handlerVars, apiVars>>

(* Defect variant of Respond: it shows what the plugin minted for the call,  *)
(* not what the API echoed.                                                  *)
RespondShowingMinted(c) ==
    /\ phase[c] = "wait"
    /\ pc[c] = "answered"
    /\ c \in live
    /\ verdict' = [verdict EXCEPT ![c] = botReply(status[c])]
    /\ shown' = [shown EXCEPT ![c] = IF status[c] = "ok" THEN exchanged[c] ELSE None]
    /\ phase' = [phase EXCEPT ![c] = "close"]
    /\ pc' = [pc EXCEPT ![c] = "done"]
    /\ UNCHANGED <<ask, exchanged, serverVars, handlerVars, apiVars>>

(* The inspector shows the echoed bearer, but not beside a denial. *)
renderInspector(c) ==
    IF botReply(status[c]) = "denied" THEN None ELSE extractUpstreamToken(c)

(* The tool result reaches the page. *)
Respond(c) ==
    /\ phase[c] = "wait"
    /\ pc[c] = "answered"
    /\ c \in live
    /\ verdict' = [verdict EXCEPT ![c] = botReply(status[c])]
    /\ shown' = [shown EXCEPT ![c] = renderInspector(c)]
    /\ phase' = [phase EXCEPT ![c] = "close"]
    /\ pc' = [pc EXCEPT ![c] = "done"]
    /\ UNCHANGED <<ask, exchanged, serverVars, handlerVars, apiVars>>

(* The hook's 403 fails CallTool with "Forbidden": handleTool calls it denied. *)
RespondForbidden(c) ==
    /\ phase[c] = "wait"
    /\ pc[c] = "refused"
    /\ verdict' = [verdict EXCEPT ![c] = "denied"]
    /\ phase' = [phase EXCEPT ![c] = "close"]
    /\ pc' = [pc EXCEPT ![c] = "done"]
    /\ UNCHANGED <<ask, shown, exchanged, serverVars, handlerVars, apiVars>>

(* The 35 seconds of handleTool's context are over, or a request failed with *)
(* anything but a 403: the page shows the error.                             *)
GiveUp(c) ==
    /\ phase[c] \in {"connect", "notify", "call", "wait"}
    /\ verdict' = [verdict EXCEPT ![c] = "failed"]
    /\ phase' = [phase EXCEPT ![c] = "close"]
    /\ UNCHANGED <<ask, shown, pc, exchanged, serverVars, handlerVars, apiVars>>

(* The deferred cs.Close: a DELETE that ends the session, and that is a      *)
(* request like any other to captureMiddleware.  It is not under the 35 s of *)
(* the context, and the client has no timeout: until it is answered, neither *)
(* callTool nor handleTool returns.                                          *)
Close(c) ==
    /\ phase[c] = "close"
    /\ CaptureSso(c)
    /\ live' = live \ {c}
    /\ phase' = [phase EXCEPT ![c] = "closed"]
    /\ UNCHANGED <<ask, verdict, shown, pc, exchanged, handlerVars, apiVars>>

(* No DELETE arrives: there was no session, or the request fails on its way. *)
CloseUnsent(c) ==
    /\ phase[c] = "close"
    /\ phase' = [phase EXCEPT ![c] = "closed"]
    /\ UNCHANGED <<ask, verdict, shown, pc, exchanged, serverVars, handlerVars, apiVars>>

-----------------------------------------------------------------------------
(* Gateway, acme-mcp-proxy: token_exchange_post_hook on a tools/call. *)

(* 403: the tool is unknown, or the entitlements do not cover its scope. *)
HookDenies(c) ==
    /\ pc[c] = "gateway"
    /\ ~Covers(ask[c].user, ask[c].tool)
    /\ pc' = [pc EXCEPT ![c] = "refused"]
    /\ UNCHANGED <<clientVars, exchanged, serverVars, handlerVars, apiVars>>

(* Defect variant of HookExchanges: any known tool, entitled or not. *)
HookExchangesUnentitled(c) ==
    /\ pc[c] = "gateway"
    /\ ask[c].tool \in Tools
    /\ exchanged' = [exchanged EXCEPT ![c] =
                       mint_exchanged_token(ask[c].user, TOOL_SCOPES[ask[c].tool])]
    /\ pc' = [pc EXCEPT ![c] = "inbound"]
    /\ UNCHANGED <<clientVars, serverVars, handlerVars, apiVars>>

(* Defect variant of HookExchanges: exchanged tokens reused by scope alone. *)
HookExchangesCached(c) ==
    /\ pc[c] = "gateway"
    /\ Covers(ask[c].user, ask[c].tool)
    /\ \E tok \in PluginTokens :
          /\ tok.scope = TOOL_SCOPES[ask[c].tool]
          /\ \/ tok.sub = ask[c].user
             \/ \E d \in Calls : exchanged[d] = tok
          /\ exchanged' = [exchanged EXCEPT ![c] = tok]
    /\ pc' = [pc EXCEPT ![c] = "inbound"]
    /\ UNCHANGED <<clientVars, serverVars, handlerVars, apiVars>>

(* The Authorization header is rewritten to a newly minted token. *)
HookExchanges(c) ==
    /\ pc[c] = "gateway"
    /\ Covers(ask[c].user, ask[c].tool)
    /\ exchanged' = [exchanged EXCEPT ![c] =
                       mint_exchanged_token(ask[c].user, TOOL_SCOPES[ask[c].tool])]
    /\ pc' = [pc EXCEPT ![c] = "inbound"]
    /\ UNCHANGED <<clientVars, serverVars, handlerVars, apiVars>>

-----------------------------------------------------------------------------
(* acme-mcp-server: captureMiddleware, then the tool handler. *)

(* The exchanged request arrives; without its session it ends as a 404. *)
Capture(c) ==
    /\ pc[c] = "inbound"
    /\ CaptureHeaders(c, exchanged[c])
    /\ pc' = [pc EXCEPT ![c] = IF c \in live THEN "bearer" ELSE "lost"]
    /\ UNCHANGED <<clientVars, exchanged, live, handlerVars, apiVars>>

(* doUpstreamCall: inboundBearer reads the current headers, whoever's. *)
ReadBearer(c) ==
    /\ pc[c] = "bearer"
    /\ bearer' = [bearer EXCEPT ![c] = meta.bearer]
    /\ pc' = [pc EXCEPT ![c] = "trace"]
    /\ UNCHANGED <<clientVars, exchanged, serverVars, trace, status, apiVars>>

(* forwardTraceHeaders reads them once more. *)
ReadTrace(c) ==
    /\ pc[c] = "trace"
    /\ trace' = [trace EXCEPT ![c] = meta.trace]
    /\ pc' = [pc EXCEPT ![c] = "send"]
    /\ UNCHANGED <<clientVars, exchanged, serverVars, bearer, status, apiVars>>

(* The upstream request carries the context of the inbound one, and ends     *)
(* when the tool server learns, through the gateway, that the caller is gone *)
(* - if it does; what the resource API has received goes on.                 *)
Abandon(c) ==
    /\ c \in InHandler
    /\ phase[c] # "wait"
    /\ pc' = [pc EXCEPT ![c] = "lost"]
    /\ UNCHANGED <<clientVars, exchanged, serverVars, handlerVars, apiVars>>

(* The pod restarts: no headers, no sessions, no handlers. *)
RestartToolServer ==
    /\ meta' = NoHeaders
    /\ live' = {}
    /\ pc' = [c \in Calls |-> IF c \in InHandler THEN "lost" ELSE pc[c]]
    /\ UNCHANGED <<clientVars, exchanged, overwritten, handlerVars, apiVars>>

-----------------------------------------------------------------------------
(* Gateway, acme-api, and acme-resource-api: what becomes of the request. *)

Answer(c, s) ==
    /\ status' = [status EXCEPT ![c] = s]
    /\ pc' = [pc EXCEPT ![c] = "answered"]

(* The gateway only lets through what the plugin signed. *)
GatewayVerifies(c) ==
    /\ pc[c] = "send"
    /\ bearer[c] # None
    /\ bearer[c].iss = "plugin"
    /\ pc' = [pc EXCEPT ![c] = "resource"]
    /\ atApi' = atApi \cup {c}
    /\ UNCHANGED <<clientVars, exchanged, serverVars, handlerVars, effect>>

(* It refuses the others, and a plugin token that has expired meanwhile or   *)
(* whose key it does not have.                                               *)
GatewayRefuses(c) ==
    /\ pc[c] = "send"
    /\ Answer(c, "unauthorized")
    /\ UNCHANGED <<clientVars, exchanged, serverVars, bearer, trace, apiVars>>

(* The handler is answered without the resource API: its request does not    *)
(* get there, its wait ends first, or the answer is lost after the act.      *)
CutOff(c) ==
    \/ pc[c] \in {"send", "resource"}
    \/ pc[c] = "answered" /\ status[c] = "ok"

(* http.DefaultClient.Do fails: a result with status 0. *)
UpstreamFails(c) ==
    /\ CutOff(c)
    /\ Answer(c, "none")
    /\ UNCHANGED <<clientVars, exchanged, serverVars, bearer, trace, apiVars>>

(* The gateway gives an error of its own (a 429, 500, 502 or 504), which is  *)
(* passed on as the status of the result.                                    *)
GatewayFails(c) ==
    /\ CutOff(c)
    /\ Answer(c, "gateway_error")
    /\ UNCHANGED <<clientVars, exchanged, serverVars, bearer, trace, apiVars>>

(* The resource API is done with the request and answers whoever waits.      *)
Finish(c, s) ==
    /\ c \in atApi
    /\ atApi' = atApi \ {c}
    /\ IF pc[c] = "resource" THEN Answer(c, s) ELSE UNCHANGED <<pc, status>>
    /\ UNCHANGED <<clientVars, exchanged, serverVars, bearer, trace>>

(* authorize: signature, expiry or audience do not hold. *)
RefuseToken(c) == Finish(c, "unauthorized") /\ UNCHANGED effect

(* requireScope: the token is good, its scope is not the handler's. *)
RefuseScope(c) ==
    /\ Finish(c, "insufficient_scope")
    /\ bearer[c].aud = "api.acme.internal"
    /\ bearer[c].scope # requiredScope(OperationOf[ask[c].tool])
    /\ UNCHANGED effect

(* Defect variant of Execute: the handler trusts the gateway for the scope. *)
ExecuteUnscoped(c) ==
    /\ Finish(c, "ok")
    /\ bearer[c].aud = "api.acme.internal"
    /\ effect' = [effect EXCEPT ![c] =
                    [sub |-> bearer[c].sub, op |-> OperationOf[ask[c].tool]]]

(* The handler acts, in the name of the token's sub, and echoes the bearer. *)
Execute(c) ==
    /\ Finish(c, "ok")
    /\ bearer[c].aud = "api.acme.internal"
    /\ bearer[c].scope = requiredScope(OperationOf[ask[c].tool])
    /\ effect' = [effect EXCEPT ![c] =
                    [sub |-> bearer[c].sub, op |-> OperationOf[ask[c].tool]]]

-----------------------------------------------------------------------------
ChatNext(c) ==
    \/ \E u \in Users, t \in AskedTools : StartCall(c, u, t)
    \/ Initialize(c)
    \/ Initialized(c)
    \/ SendCall(c)
    \/ Respond(c)
    \/ RespondForbidden(c)
    \/ GiveUp(c)
    \/ Close(c)
    \/ CloseUnsent(c)

HookNext(c) == HookDenies(c) \/ HookExchanges(c)

ToolServerNext(c) == Capture(c) \/ ReadBearer(c) \/ ReadTrace(c) \/ Abandon(c)

UpstreamNext(c) ==
    \/ GatewayVerifies(c)
    \/ GatewayRefuses(c)
    \/ UpstreamFails(c)
    \/ GatewayFails(c)
    \/ RefuseToken(c)
    \/ RefuseScope(c)
    \/ Execute(c)

Next ==
    \/ \E c \in Calls : ChatNext(c) \/ HookNext(c) \/ ToolServerNext(c) \/ UpstreamNext(c)
    \/ RestartToolServer

Spec == Init /\ [][Next]_vars

-----------------------------------------------------------------------------
TypeOK ==
    /\ ask \in [Calls -> [user : Users, tool : AskedTools] \cup {None}]
    /\ phase \in [Calls -> {"idle", "connect", "notify", "call", "wait", "close", "closed"}]
    /\ verdict \in [Calls -> {None, "done", "denied", "failed"}]
    /\ shown \in [Calls -> PluginTokens \cup {None}]
    /\ pc \in [Calls -> {"none", "gateway", "inbound", "bearer", "trace", "send",
                         "resource", "answered", "refused", "lost", "done"}]
    /\ exchanged \in [Calls -> PluginTokens \cup {None}]
    /\ meta \in [bearer : Tokens \cup {None}, trace : Calls \cup {None}]
    /\ live \in SUBSET Calls
    /\ bearer \in [Calls -> Tokens \cup {None}]
    /\ trace \in [Calls -> Calls \cup {None}]
    /\ status \in [Calls -> {"none", "ok", "unauthorized", "insufficient_scope",
                             "gateway_error"}]
    /\ atApi \in SUBSET Calls
    /\ effect \in [Calls -> [sub : Users, op : Operations] \cup {None}]
    /\ overwritten \in SUBSET Calls

(* No operation is done in a name that was not entitled to it, and none      *)
(* without an exchange for exactly that scope, asked for by that rep -       *)
(* whatever the tool server mixes up on the way.                             *)
EffectAuthorised ==
    \A c \in Calls : effect[c] # None =>
        /\ requiredScope(effect[c].op) \in Entitlements[effect[c].sub]
        /\ \E d \in Calls :
              /\ exchanged[d] = mint_exchanged_token(effect[c].sub, requiredScope(effect[c].op))
              /\ ask[d].user = effect[c].sub

(* A call acts in the name of the rep who made it, and in its own trace, as  *)
(* long as no other request reached the tool server between the arrival of   *)
(* its own and the moment its handler has read the headers: the one variable *)
(* is the only place of the chain where an identity can be lost.             *)
OnBehalfOfUnlessOverwritten ==
    \A c \in Calls : effect[c] # None /\ c \notin overwritten =>
        /\ effect[c].sub = ask[c].user
        /\ trace[c] = c

(* The plugin's table and the handlers' scopes agree through the OpenAPI     *)
(* binding: the resource API refuses a scope only to a request that carries  *)
(* somebody else's token.                                                    *)
ScopeRefusedOnlyIfOverwritten ==
    \A c \in Calls : status[c] = "insufficient_scope" => c \in overwritten

(* What the page calls denied because it was refused - by the hook, by the   *)
(* gateway's check of the token, by the resource API - was not done and will *)
(* not be, whatever else is still under way for the call.  An error of the   *)
(* gateway is called denied as well, and is no such refusal.                 *)
RefusedHasNoEffect ==
    \A c \in Calls : verdict[c] = "denied" /\ status[c] # "gateway_error" =>
        effect[c] = None /\ c \notin atApi

(* The token the inspector shows is the one the operation was done with.     *)
InspectorShowsTokenUsed ==
    \A c \in Calls : shown[c] # None =>
        /\ effect[c] # None
        /\ effect[c].sub = shown[c].sub
        /\ requiredScope(effect[c].op) = shown[c].scope

(* Refinement: the minted tokens are the grants, the operations done the     *)
(* effects of the abstract delegation.                                       *)
grantsMade == {[sub |-> exchanged[c].sub, scope |-> exchanged[c].scope] :
                 c \in {d \in Calls : exchanged[d] # None}}

effectsDone == {effect[c] : c \in {d \in Calls : effect[d] # None}}

Abstract == INSTANCE Delegation WITH grants <- grantsMade, effects <- effectsDone

(* The chain implements the abstract delegation. *)
ImplementsDelegation == Abstract!Spec

-----------------------------------------------------------------------------
(* Statements of the documentation that the code does not keep. *)

(* plugin.py: a token that KEEPS the caller's sub; the page's inspector:     *)
(* same sub on both sides, your identity survived the hop.                   *)
OnBehalfOf ==
    \A c \in Calls : shown[c] # None => shown[c].sub = ask[c].user

(* makeHandler marks a transport failure as an error of the tool; the page   *)
(* has an error text for it, and says done only of what was done.            *)
DoneMeansDone ==
    \A c \in Calls : verdict[c] = "done" => effect[c] # None

(* The page tells the rep who is denied that it can't complete the request,  *)
(* and that Tyk blocked it before minting any token.                         *)
DeniedHasNoEffect ==
    \A c \in Calls : verdict[c] = "denied" => effect[c] = None
=============================================================================
