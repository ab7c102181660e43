# TLA+ models of the Acme Support Copilot (kcd-agent-workshop)

The repository is a workshop on AI agents behind an API gateway. Part 1 (`src/setup.sh`,
`src/agent.py`, `src/ai-studio`) puts one agent and an MCP server behind a Tyk Gateway. Part 2
(`src/part2-token-exchange`, **P2** below) is the program these models are mostly about: a chat
page through which support reps call tools, and in which no service ever sees more of a rep's
authority than the one call needs.

```
 browser --cookie--> acme-chat --SSO token--> Tyk acme-mcp-proxy + exchange plugin
                                                     | exchanged token (60 s, one scope)
                                                     v
 Keycloak                                     acme-mcp-server  (one process-wide currentMeta)
                                                     | replayed token
                                                     v
                               Tyk acme-api  -->  acme-resource-api (JWKS cache, customers map)
```

This directory holds the models (`*.tla`), their TLC configurations (`*.cfg`), the proofs
(`*Proofs.tla`) and `PROJECT.json`, which maps every definition to the lines it models.

## 1. Inventory

| component | state | operations | what makes it correct | models |
|---|---|---|---|---|
| exchange plugin (`services/token-exchange-plugin/plugin.py`) | an RSA key made at start, published under a constant `kid` | `token_exchange_post_hook` on each request of the MCP proxy: on `tools/call` check the tool and the entitlements, mint; JWKS endpoint | mints only what the rep is entitled to; keeps the `sub`; its table agrees with the API's scopes; a restart only interrupts | `AcmeScopes`, `TokenExchange`, `JwksCache` |
| acme-mcp-server (`main.go`, `oasmcp.go`) | `currentMeta`, the headers of the last request; MCP sessions (go-sdk) | `captureMiddleware`, tool handler -> `doUpstreamCall`; tools built from the OpenAPI document | a call goes upstream with the headers of its own request; every operation has its tool, named as the plugin names it, whose request is the one meant | `TokenExchange`, `OasTools` |
| acme-resource-api, authorization (`main.go` 46-209) | `jwks.keys`, `jwks.loaded` | `keyFor`/`refresh`, `authorize`, `requireScope` | good tokens are accepted, up to a bounded outage after a key change; the key is not lost to failed or concurrent refreshes | `JwksCache`, `TokenExchange` |
| acme-resource-api, records (`main.go` 249-342) | `customers`, `customersMu` | GET and PUT of a customer; orders; refunds (no state) | updates are atomic, none is lost, nobody waits forever | `CustomerStore` |
| acme-chat, tool calls (`main.go` 127-198, 341-429; `index.html`) | one MCP session per call | `handleTool`, `callTool`, `bearerRT`; the page's `botReply`, `renderInspector` | what the page says of a call is true; a click does at most the one thing its chip says | `TokenExchange`, `OasTools` |
| acme-chat, sign-in (`main.go` 74-91, 201-339) | `pendings`, `sessions`, the `sid` cookie, each tab's `me` | login, callback, logout, `/api/me` | one token request per state; the page shows the rep who is signed in | `ChatSessions` |
| `agent.py` | message history, one MCP session id | handshake, discovery, agent loop, the run without a model | every call the model makes gets one true answer, none runs twice, the run ends | `AgentLoop` |
| gateway registration (`setup.sh`, `P2/setup.sh`) | app store of the gateway (lost on restart), keys in Redis | register, reload, poll | whatever runs after the script finds the APIs registered as what they are | `GatewayRegistry`, `WorkshopSetup` |
| AI Studio (`ai-studio/setup.sh`) | LLM, app, credential records | find or create, activate, PATCH | a re-run repairs a partial run | `StudioSetup`, `WorkshopSetup` |
| Tyk, Keycloak, the go-sdk | - | only as `src/` relies on them | - | external actions |
| `verify.sh`, OpenTelemetry, static pages, gRPC stubs, manifests | none | - | - | not modelled |

**Interactions.** acme-chat, the plugin, the tool server and the resource API only share HTTP
requests. Within the tool server all requests share `currentMeta`; within the resource API all
share the JWKS cache and the customers map; within the browser all tabs share the cookie. The
plugin and the resource API state the scope of an operation independently of each other, joined
only by the operation ids of the OpenAPI document, from which the tool server makes the tools' names. The
three setup scripts share the gateway and the AI Studio they configure, run after run.

**Hard behaviours.** Requests of several reps interleaved in the tool server between the arrival
of a request, the read of its bearer and the read of its trace headers; the DELETE of a finished
call overwriting the headers of one under way; the plugin restarted between mint and verify, or
between the answer to a JWKS fetch and its being stored; a GET reading the map while a PUT assigns
it; a callback delivered twice; two tabs; a deadline (35 s) that ends a call whose effect has
happened, or has yet to happen; transport failures reported as results, and errors of the gateway as
refusals; requests without a timeout; free text that becomes a path; fields edited while
a call is under way; reloads of the gateway that come late, and scripts that stop half way and are
run again. `PROJECT.json` lists each at its line, under
"hazards", with the properties that would catch it going wrong.

## 2. Plan

Done, in this order:

1. `AcmeScopes`, `TokenExchange` (the chain), `Delegation` (what it promises), `TokenExchangeProofs`.
2. `JwksCache`.
3. `CustomerStore` with `CustomerRegister` as its abstract specification.
4. `ChatSessions`.
5. `AgentLoop`.
6. `OasTools`: from a click on the page to what the resource API does.
7. `GatewayRegistry` and `StudioSetup`, composed in `WorkshopSetup`.
8. A restart of the resource API in `JwksCache`.
9. `WorkshopSetupProofs`.
10. `ChatSessionsProofs`, `AgentLoopProofs`.
11. `CustomerStoreProofs`, with the refinement of `CustomerRegister`.
12. `JwksCacheProofs`, `OasToolsProofs`.
13. `OasToolsLemmas`: the names and paths of the deployed document, for every text.

Every invariant and action property the runs check is proved now; the liveness properties are left to TLC (section 5).
What is left to model is small: the life of the SSO token in `ChatSessions`, query parameters in `OasTools`.

## 3. The models

### AcmeScopes, TokenExchange, Delegation

`AcmeScopes` holds the four tables that have to agree (entitlements of the realm, `TOOL_SCOPES`,
the operation a tool is bound to, the scope a handler demands) and the tokens. A token keeps the
four claims somebody decides on (`iss`, `aud`, `sub`, `scope`); signatures are abstracted to
`iss`, expiry to the possibility of a refusal.

`TokenExchange` follows any number of `/api/tool` requests (`Calls`) at once. `phase[c]` is where
`callTool` is (connect, notify, call, wait, close), `pc[c]` where its `tools/call` request is. All
four requests of an MCP session reach `captureMiddleware`, so `Initialize`, `Initialized`, `Close`
(the deferred DELETE) and `Capture` all overwrite `meta`; `ReadBearer` and `ReadTrace` read it
back separately, as `doUpstreamCall` and `forwardTraceHeaders` do. Between the gateway's check
(`GatewayVerifies`) and the end of the handler in the resource API (`Finish`, in `Execute`, `RefuseToken` and
`RefuseScope`) a call is in `atApi`, whether or not anybody still waits for it. Losses, timeouts and refusals
are actions: `GiveUp` (the 35 s context, or any error but a 403), `CloseUnsent`, `Abandon` (the
cancellation of the inbound request reaches the upstream one), `UpstreamFails` (`Do` fails) and
`GatewayFails` (the gateway of acme-api answers with an error of its own, a 5xx or a 429), both before the resource API,
while it works, or after it acted (`CutOff`), `GatewayRefuses`, `RefuseToken`, `RestartToolServer`. `overwritten` is a history variable: the
calls under whose handler the headers were replaced.

`Delegation` is the promise: grants for entitlements, effects only as granted. `ImplementsDelegation`
maps the minted tokens to its grants and the operations of the resource API to its effects.

### JwksCache

Time advances in ticks. Keys are numbered by the starts of the plugin; the kid is constant, so the
cache is one number. `keyFor` is split where the code waits for its lock or releases it: `Arrive` (a token arrives, whatever time it took), `Lookup` (and the decision
to refresh), `FetchOk`/`FetchFail` (the HTTP request), `Store`, `Reread`, `Verify`. A fetch keeps
the key it was answered with in `got` until it stores it, whatever another has stored since. `Boot`
is the goroutine of `main` that fetches at start, and again after `RestartApi`, which empties the
cache and drops the requests under way. Clocks are relative and saturate, so no bound on
the length of a behaviour is needed; `MaxKey` bounds the starts of the plugin.

### CustomerStore, CustomerRegister

`handleCustomer` after `authorize`. Everything that is not one instruction is two actions
(`SetBegin`/`SetEnd`, `StoreBegin`/`StoreEnd`), because the readers take no lock: a GET whose map
read (`Find`) meets a map assignment may abort the process (`FatalRace`, the Go runtime's check)
or go on; an encoding (`Echo`) that meets an assignment of the string may see `Torn`. Both outcomes of
these data races are choices of the model. `CustomerRegister` is the abstract specification: an
atomic register per customer, reset by a restart.

### ChatSessions

A login is named by its OAuth state; its session by the login. A `/callback` request is a `visit`
with its own progress (`exchange`, `insert`, `redirect`) since `handleCallback` releases its mutex
for the token request; a browser may send the same callback again. `at[t]`, `me[t]` and `shown[t]`
are what a tab believes and shows; `Refresh` is the page's `refresh()`. `moved` is a history
variable: tabs under which the sign-in has changed since they last asked.

### AgentLoop

One run of `agent.py`. The agent is sequential, so a request and its answer are one step; what is
not under its control comes between the steps (`RestartServer`) or in the outcome of one: `ToolOk`
(a result), `ToolEmpty` (a 2xx without a body, or whose JSON or first `data:` line has no result: `{}` to the agent),
`ToolError` (what `run` catches: a status of 400 and above, a JSON-RPC error or an answer nobody can parse)
and `ToolRaises` (what it does not catch), the last three after the tool ran or not. What the model is
told is one of `Told`: a result with content, an empty one, or an error. `session` is
what the MCP server knows of the agent's session, `executed` what it did; the agent sees neither.
`messages` is the conversation without its first two messages. An exception is an ending, as it is
in the code.

### OasTools

One rep, one click at a time, and any text in the page's two fields; who is called with which token
is left to `TokenExchange`. `Register` adds one operation of the document in any order (two Go maps
are iterated); `toolName`, `buildToolFor`, `handleToolArgs` and `makeHandler` are the functions of
the code. A name is the sequence of its words: `Snake` puts separators between them, and `NameOf` has the
names as the plugin's table and the page spell them.
A text is the sequence of its pieces between slashes and a path a sequence of such texts,
which is what escaping, cleaning and decoding tell apart: `PathOf` escapes (a text stays in one
segment), `cleanPath` drops empty and dot segments (`Cleaned` is its step for one segment) and `Redirected` follows the router's redirect
as an HTTP client does, with a GET; `routed` decodes the path and applies the routes in their
order. `parseFloat` is tabulated on the texts of the model. A request of the tool server that gets no
answer (`Perform`) has the status 0 of a transport failure or the 502 of the gateway, done or not. `Edit` may come at any time, since the
fields are never disabled; `edited` is a history variable, cleared by the next click. The reply
keeps the texts it was worded from.

### GatewayRegistry, StudioSetup, WorkshopSetup

`GatewayRegistry`: `store` is the directory of definitions in the gateway's pod, `loaded` what the
gateway serves and lists; `Reload` copies one to the other some time after `RequestReload`, and
`PodRestart` loses both. Each script is a sequence of `step`s that may `Abort` anywhere (`set -e`, or
a poll that gives up) and be begun again. `EditFile` is the presenter, who edits Part 1's definition
between runs. A definition carries whether it was posted to `/tyk/mcps`, and its version.
`ended` is a history variable, cleared by whatever happens to the gateway after the script's last look
at it. `StudioSetup`: `llms` are the entries of the script's name, each with the vendor and the key
it was left with; `clean` is a history variable, false once a request of the run was answered with an
error that the script does not read. `WorkshopSetup` runs the scripts one at a time.

## 4. The runs

| run | instance | shows |
|---|---|---|
| `exchange_pair` | 2 calls, 2 reps (one read-only), a tool of each scope and a name that is none | types, `EffectAuthorised`, `OnBehalfOfUnlessOverwritten`, `ScopeRefusedOnlyIfOverwritten`, `RefusedHasNoEffect`, `InspectorShowsTokenUsed`, refinement of `Delegation` (1.4 million states) |
| `jwks_restart` | 2 requests, 3 starts of the plugin, any number of starts of the resource API, fetches that take up to a tick, may fail at any time and may never end | types, `BoundedOutage`, `SettledUntilRestart`, `HungFetchKeepsOnlyItsRequest`, `Recovers` |
| `customers_records` | 3 requests, a known and an unknown customer, an email and none | types, `OneUpdateAtATime`, `AnswersCurrent`, refinement of `CustomerRegister`, `EveryRequestEnds` |
| `chat_tabs` | 2 tabs, 2 logins, 3 callbacks, 2 reps | types, `OneExchangePerState`, `SameSubUnlessMoved` |
| `agent_loop` | 3 turns of up to 2 tool calls, with or without a model | types, `ConversationComplete`, `ReportsTrue`, `NothingRunsTwice`, `HandshakeFirst`, `Terminates` |
| `oas_tools` | the deployed document and the same without operation ids, 2 reps, 4 texts as customer (an id, nothing, `..`, `C-1024/orders`), 3 as amount (`10`, `1,000`, `ten`) | types, `ToolsAsThePluginKnowsThem`, `EveryOperationItsTool`, `ArgumentsFitTheSchema`, `ScopeFitsWhateverIsTyped`, `ClickDoesWhatItSays`, `SaysWhatItDidUnlessEdited` |
| `workshop_setup` | 2 versions of Part 1's definition, 2 vendors, up to 2 LLM entries | types, `GovernedWhenDone`, `ServedAsRegistered`, `RerunRepairs` (3.3 million states) |

**What they show, in words.** Nothing is done that was not entitled to and exchanged for, however
the tool server mixes up requests: the blast radius of the shared variable is one rep acting
with another rep's *valid* grant. Only that variable can do it: a call whose headers were not
replaced acts in its own name and trace. What the hook, the gateway's check of the token or the resource
API refused has not happened and will not, whatever is lost, timed out or restarted; of an error of the gateway,
which the page calls a denial too, that is not so (`exchange_denied`). Good tokens are refused after a restart of the plugin, or after a fetch that failed, for at most
the 30 s the cache is fresh plus one fetch, even if a fetch answered before the restart stores the old key last; that is so as long as no fetch takes
longer than `MaxFetch`, and a fetch that hangs keeps only the request that made it. An
update of a customer is atomic although the readers ignore the mutex. Whatever fails under the
agent's tool calls, the model is asked with one answer for each call it made, a call whose result has
content was done once, and none was done twice; an error or an empty result says nothing of whether it was done. Tools are the plugin's whatever order the map iteration takes; a
customer id that is no id may lead a read to another read, but never to an operation of another scope.
Part 1's proxy is never served without its allowlist, whichever script registered it, and a script
that says Done has left the gateway as it says. A clean re-run of the AI Studio script repairs what
an earlier one left, except two entries of one name, which nothing repairs.

**Documentation the code does not keep** (runs with a counterexample):

| run | statement | what happens |
|---|---|---|
| `exchange_onbehalf` | plugin.py:21-22 and index.html:352: the exchanged token keeps the caller's `sub` | with two reps at once, the API sees the other's |
| `exchange_denied` | index.html:286, 359-360: the rep lacks the entitlement, and Tyk blocked the call before minting any token | with one refund and a gateway that answers 502 or 504 for a resource API that acted, the rep is told this of a refund that was made |
| `exchange_done` | oasmcp.go:173, index.html:278-281: a transport failure is an error | the page says "Done" |
| `jwks_fresh` | plugin.py:86-87: nothing needs to survive a restart of the plugin | new tokens are refused until the cached key of the same kid is stale |
| `oas_refund` | index.html:294: "Done — refunded" an amount to a customer | the amount is the field's text, not the number that was sent, and both are read after the answer |

Some more of the same kind, seen while modelling and left without a run of their own:

- index.html:359-360 says the same of a 401 of the resource API after a restart of the plugin, or of a
  404 of its router, where nothing happened but the reason is another.
- P2/README.md:98 says a restart of the plugin invalidates any in-flight exchange; the cached key
  goes on accepting its tokens.
- index.html:352 says "Same sub on both sides" without comparing; a tab's own `me` is stale after a
  sign-in in another tab (`SameSubUnlessMoved` states what does hold).
- `src/setup.sh:116` polls for the id only. Run again with an edited definition, it says Done while
  the gateway may still serve the old one.
- `P2/setup.sh:145` registers `acme-mcp-proxy` through `/tyk/apis/oas`, so the allowlist and rate limit in its
  definition are not enforced, for the reason the comment at 132-138 of the same script gives for Part 1's proxy.
- `ai-studio/setup.sh` run again for another vendor keeps the entry's old vendor and gives it the
  new vendor's key.

**Bounds, and why they are enough.** Every defect of `TokenExchange` needs at most two requests:
the one that reads and the one that overwrites; a third call only repeats the second's part, and
the theorems below hold for any number. Two reps give one who lacks an entitlement and one who
has all. `recent_orders` has the scope of `lookup_customer`; that its own agrees is checked in `oas_tools` and proved
(`ScopesAgree`). `JwksCache` needs two fetches to overlap a restart, and a third start of the plugin
shows a restart during an outage that an earlier one caused. `StaleAfter`, `TokenTTL` and `MaxFetch` keep
the order of the real values (30 s < 60 s) at one tick = 30 s. `CustomerStore` needs a reader beside
two writers. In `ChatSessions` two tabs and two logins are the least that can disagree, the third
callback is the repeated one. `AgentLoop` needs a second call to be asked for beside one that
fails and a turn after it; `MAX_TURNS` is 6 in the code and 3 here. In `OasTools` one text
stands for each way a path can be read differently (as it is, emptied, cleaned, split), one amount for each outcome of
`parseFloat` (the number meant, another one, none), and one click at a time is what the page allows; the
document without ids makes the names come from methods and paths. In `WorkshopSetup` a second version tells
a new definition from an old one, and a second entry is the least that can be ambiguous; the scripts repeat
without bound. Deadlock is not checked in
`agent_loop`, since the agent stops. Symmetry is used for safety only, in runs whose properties treat
the symmetric values alike.

**Fairness.** *TokenExchange* and *OasTools*: none, and no liveness property. A call need not end: the 35 s
cancel the client's requests, but `handleTool` returns only after the deferred `cs.Close`, whose DELETE is outside
those 35 s and goes through a client without a timeout (`main.go:170-187`), and the page's `fetch` has none
either; a handler of the tool server ends only when it is answered or when the cancellation comes through to it
over the network. A gateway that never answers keeps both, and to say that calls end would be to assume it does.
*JwksCache*: only the steps of a request that wait for nobody (`LocalNext`, `Store`) are fair, since
the lock is held for an access to the map only; a fetch may never end, since `http.Get` has no timeout in the code.
What `Recovers` needs beyond that is its hypothesis: the plugin comes back, a fetch that can be answered again and again is answered in the end, requests keep coming, time passes
and the resource API is left alone in the end. *CustomerStore*: handlers run on.
`sync.Mutex` is fair enough for weak fairness of `Lock` here, as each request is made once. *AgentLoop*: every request of the agent ends, after 30 s without
a byte for MCP (`httpx.post(timeout=30.0)` is per read, so an answer that trickles in for ever is left out) and by the OpenAI client's
own timeout for the model; whether with an answer is not assumed.

## 5. The proofs

One module of proofs per component, each about the specification the component's run uses (without its
fairness, which only takes behaviours away):

| module | theorems | property of the run |
|---|---|---|
| `TokenExchangeProofs` | `TypeCorrect`, `NothingUnauthorised`, `OwnIdentity`, `ScopesAgree`, `RefusalsTrue`, `InspectorTrue`, `Refinement` | `TypeOK`, `EffectAuthorised`, `OnBehalfOfUnlessOverwritten`, `ScopeRefusedOnlyIfOverwritten`, `RefusedHasNoEffect`, `InspectorShowsTokenUsed`, `ImplementsDelegation` |
| `JwksCacheProofs` | `TypeCorrect`, `Bounded`, `SettledStays` | `TypeOK`, `BoundedOutage`, `SettledUntilRestart` (an action property) |
| `CustomerStoreProofs` | `TypeCorrect`, `MutualExclusion`, `Answers`, `Refinement` | `TypeOK`, `OneUpdateAtATime`, `AnswersCurrent`, `ImplementsRegister` |
| `ChatSessionsProofs` | `TypeCorrect`, `OneExchange`, `SameSub` | `TypeOK`, `OneExchangePerState`, `SameSubUnlessMoved` |
| `AgentLoopProofs` | `TypeCorrect`, `Conversation`, `Reports`, `RunsOnce`, `Handshake` | `TypeOK`, `ConversationComplete`, `ReportsTrue`, `NothingRunsTwice`, `HandshakeFirst` |
| `OasToolsProofs`, on `OasToolsLemmas` | `TypeCorrect`, `ToolsKnown`, `OperationsKept`, `ArgumentsFit`, `ScopeFits`, `ClickDoes`, `SaysWhatItDid` | `TypeOK`, `ToolsAsThePluginKnowsThem`, `EveryOperationItsTool`, `ArgumentsFitTheSchema`, `ScopeFitsWhateverIsTyped`, `ClickDoesWhatItSays`, `SaysWhatItDidUnlessEdited` |
| `WorkshopSetupProofs` | `SetupTypeCorrect`, `Governed`, `Served`, `Repaired` | `TypeOK`, `GovernedWhenDone`, `ServedAsRegistered`, `RerunRepairs` |

All of them go the same way: hardly any property is inductive as it stands, so each module defines an inductive
invariant (`IInv`; `Inv` in `OasToolsProofs`), has one lemma per conjunct, with one step
per action or group of actions the conjunct treats alike, and concludes `Invariant`. TLC found each
of these invariants true on the instance of the component's run before it was proved.

### TokenExchange

`TokenExchangeProofs` proves, for every set of calls, reps, tool names asked for and entitlements,
what `exchange_pair` checks on two calls: `TypeCorrect`, `NothingUnauthorised`, `OwnIdentity`,
`ScopesAgree`, `RefusalsTrue`, `InspectorTrue` and `Refinement`.

Assumptions: `EntitlementsAssumption` (a set of scopes for each rep) and `NoneAssumption` (the
value `None` is none of the values it stands beside).

The argument is one inductive invariant, `IInv`, because none of the properties is inductive by
itself. A step that executes an operation only sees a bearer; that it is authorised follows from

- `HeadersVouched`: a plugin token that is anywhere in the tool server (in `meta` or in a
  handler) was minted for *some* call - closed under overwriting, which is why the property survives it;
- `GrantsRight`: a token minted for a call is for the rep and the tool of that call, and covered;
- `OwnHeaders`: a call that is not in `overwritten` finds in `meta`, and later in its bearer, the
  token exchanged for itself - or its own SSO token, if its caller gave up and the DELETE came
  in between - and its own trace;
- `AtApi`: what the resource API works on has had no effect yet, and its handler waits, is gone or was
  given an error meanwhile;
- `AnswersTrue` and `InStep`: a refusal is final (no effect, and nothing left at the resource API), a success
  comes after the act, a transport failure and an error of the gateway tell nothing; and a call that has
  been answered or given up on does not start again.

Each conjunct has one lemma (`TypeStep` ... `InspectorStep`), with one step per action or group of
actions that the conjunct treats alike. `TablesAgree` is the fact about the four tables;
`TokenKinds` those about tokens. `HookGrants` and `ExecutePerforms` are the two steps of the
refinement that do not stutter.

### JwksCache

Assumptions: `JwksAssumption` (`Boot` is no request, the durations are numbers, the bound on starts and the
tokens' life are not zero; nothing about their order). The property speaks of time since the last restart,
so the invariant says how old an old key can be, wherever one still is: a fetch that has yet to store one has taken as long
(`StaleFetch`); one in a fresh cache was stored at most one fetch after the restart, and the cache has aged since
(`StaleCache`); a request that is about to use one is within the bound, since time does not pass under a goroutine
with only local work to do (`StaleInHand`). `Decided` and `KeyLeft` say what a verdict and a stopped
plugin presuppose. `BoundedOutage` then needs one look at each of the three places that refuse. `SettledStays`
needs the types only. That a fetch takes at most `MaxFetch` is part of `Tick`'s guard and so of the
specification: the code has no such timeout (section 4, fairness).

### CustomerStore

Assumptions: `StoreAssumption` (the sets of names are disjoint where the model tells them apart, and `None` is
none of the values it stands beside). `MutexHeld` and `OneUpdateAtATime` make the steps between Lock and Unlock one update's at a
time; `LookupValid` says that the object such an update found is still the one in the map when it assigns
it - what would be lost without the mutex; `ObjectsApart` that a new object is known to nobody else before it is in
the map, and that an object never changes its customer, so a write through a pointer changes one customer only; `EmailsSet` that the object
has the new email by then; `SeenNow` that what a reader without the mutex would read at this moment is among
the values of its history variable.

The refinement maps an update to the register at the moment at which its value can be read: the end of the
assignment for an object already in the map, the assignment to the map for a new one or without an email.
`OthersUntouched` says that a step of one request leaves the others' part of the mapping alone; each other step is
either `Unseen` or one of the register's `Update`, `Acknowledge` and `Reset`.

### ChatSessions

Assumptions: `SessionAssumption` (`None` is no user, tab or login). `OneClaim` is the heart: of all callbacks with one
state at most one is past the critical section that removes the pending login, so one token request is made and one session
stored. `CookieSettled` says that a cookie is of a login no callback of which is under way, `Redeemed` that whose
code it was cannot change once it was redeemed, and `LoadingMoved` that a page loading beside a
call of its own was moved under: these three make `SameSubUnlessMoved` inductive.

### AgentLoop

Assumptions: `AgentAssumption` (at least one turn, and at least one tool call in it). `Progress` relates the counters
to the place in the run; `RunInOrder` says that what the server has run is behind the agent, so the next call has not run
and `NothingRunsTwice` is kept; `ConversationSoFar` describes the middle of a turn, where `ConversationComplete` does not
hold yet: the last message of the model is followed by the answers so far and nothing else. `Reports` follows
because a result with content is told in the step in which the call runs, and a call runs once; of empty results
and errors it claims nothing, and nothing follows.

### OasTools

The theorems hold for any reps, entitlements and texts in the fields. Assumptions: `TextsAssumption` (a text has at
least one piece between its slashes, and `None` is nothing the resource API does). Hypotheses: `OperationsKept` needs
`NamesApart` only (no two operations of a document get one name, whatever the document); the others need
`Deployed`, that the tool server is started with the document of the repository, with its operation ids or without.

`OasToolsLemmas` says what the operators compute from that document and from *any* text. The names and paths
are of fixed length, so the recursions of `cleanPath` and of decoding (`FlattenSeq`) are unfolded up to the four
segments the longest route has (`CleanFour`, `FlattenFour`), which needs no induction; the text in the third segment may be of any length and
is never unfolded. The lemmas go from there:

- names: `NamesOfTools` (the four operations get the plugin's names), `AnonymousNamesUnknown` (without ids none does) and
  `DeployedNamesApart`;
- paths: a text that is a proper segment stays where it is (`FourKept`), an empty or `.` one disappears (`FourWithout`), a `..`
  takes the segment before it along (`FourUp`); a text with a slash in it is escaped and makes the decoded path longer (`DecodedFour`);
- routes: `LookupDoes`, `OrdersDoes`, `UpdateDoes` and `RefundDoes` list what the request of each tool can be to the
  resource API, and what it is for a proper id. An update is an update of what was typed or nothing; reads lead to reads only.

`RequestOfCall` puts the four together: the request of a call is refused for no scope, and to a proper id it is what the chip says.
The inductive invariant `Inv` does the rest: the order of registration, restarts of the tool server
in the middle of a click, lost requests and answers, the 35 s and edits at any time add no other way to do the wrong
thing, to do it twice, or to claim something else. `Served` is the invariant of the tool server; `DoneOnce`,
`Answered` and `Shown` follow a click from the request over the answer to the reply; `Typed` is about what is left of earlier clicks.

### WorkshopSetup

`WorkshopSetupProofs` proves all four properties of `workshop_setup` (`SetupTypeCorrect`, `Governed`,
`Served`, `Repaired`) for any number of versions, vendors and entries. Assumptions:
`VersionsAssumption` and `StudioAssumption` (`NoApi` is no definition, `NoApp` no entry, no vendor has
the empty name). The gateway and AI Studio share no state, so `SetupInvariant` is the conjunction of
two inductive invariants. For the gateway, `ServedWasPosted` says that the directory has whatever is
served (a restart loses both), which makes a late reload harmless; `MarkedMcp` that both have
Part 1's proxy as MCP; `FreshInPart2` that after Part 2's restart any definition of Part 1's
proxy is the one this run posted, and that where it survived, so did the two posted after it: with
that the last poll alone shows that no restart came in between. For AI Studio, `RunInStep` says what a
run has reached by its step and `CleanSoFar` what it has achieved if no request failed.

### What stays with TLC

- The liveness properties (`HungFetchKeepsOnlyItsRequest`, `Recovers`, `EveryRequestEnds`, `Terminates`): they need ENABLED
  under fairness, which the prover does not handle.
- What `OasTools` does for other documents than the deployed one: only that distinct names are enough for the
  bindings is proved for every document. Other documents would need induction over names and paths of any length.
- The runs with a counterexample.

## 6. What is left out

- Requests that arrive after their sender has given up, except the `tools/call` itself: an
  `initialize` delivered late is not modelled.
- `traceparent` and `tracestate` are read one after the other; they are one read here.
- The text of requests and answers but for the customer and the amount in `OasTools`; telemetry; the refund's id.
- The life of the SSO token and of sessions. Retries by the rep: each call of `TokenExchange` is made once,
  and a second click in `OasTools` is a second wish. A call that was given up on and takes effect
  after the next click is not told apart from one that never does.
- Query parameters (no operation of the document has one), header and cookie parameters, and what a
  schema says of a single property.
- Installing and building: the scripts' helm, docker and kubectl commands but for the gateway's restart,
  `verify.sh` (a sequential smoke test), static pages, generated stubs, exporters of telemetry.
- Tyk's own JWKS cache, which appears as `GatewayRefuses`.
- Pending logins and sessions, which nothing in acme-chat ever expires (main.go:272-275, 325).
- Results that say themselves that the tool failed, which the model reads; and an answer that an intermediary
  makes up and that has a result with content.
- What the gateway does with a path of its own accord (cleaning, decoding, listen paths) between the tool server and the
  resource API: `OasTools` has the paths as the two programs of `src/` build and read them.
- A 200 whose body breaks off (`oasmcp.go:216` ignores the error): it counts as done, which it is, without the
  echo the inspector shows.
- The second refund of a rep who clicks again after a give-up: nothing in the code prevents it.
- Documents other than the deployed one and the same without operation ids; names that only `camelToSnake`
  makes equal.
- Fetches of the JWKS that take longer than `MaxFetch`: `BoundedOutage` says nothing of them.
- Requests without or with a malformed bearer: behind the gateway's own check the clients in `src/`
  send none.
