------------------------------ MODULE OasTools ------------------------------
(***************************************************************************)
(* From a click on the page to what the resource API does, through names   *)
(* and paths: acme-mcp-server turns each operation of an OpenAPI document  *)
(* into a tool (RegisterFromOAS), the page fills the arguments from two    *)
(* free text fields, the tool's handler rebuilds the HTTP request from     *)
(* them, and the resource API routes it by its path.                       *)
(*                                                                         *)
(* Who is called with which token, and what many reps do to each other, is *)
(* TokenExchange; here one rep works alone and the subject is WHAT is done.*)
(* A text is the sequence of its pieces between slashes, a path a sequence *)
(* of segments, each a text: url.PathEscape keeps a text in one segment,   *)
(* and decoding the path joins the pieces of all segments again.           *)
(***************************************************************************)
EXTENDS AcmeScopes, Integers, SequencesExt

CONSTANTS
    Documents,     \* OpenAPI documents the tool server may be started with
    CustTexts,     \* what may be in the field Customer
    None

VARIABLES
    document,      \* MCP_OAS_PATH
    todo,          \* operations of the document not registered yet
    tools,         \* tools[name]: schema and binding of a registered tool
    fields,        \* the page's fields Customer and Amount, as they are now
    call,          \* the click under way, or the last one
    stage,         \* "idle", "hook", "server", "answer": where the click is
    answer,        \* the answer of /api/tool
    effects,       \* what the resource API did for the click, in order
    edited,        \* history: the fields were edited since the click
    reply          \* what the page says of the last click

serverVars == <<document, todo, tools>>
pageVars   == <<fields, call, edited, reply>>
vars == <<serverVars, pageVars, stage, answer, effects>>

-----------------------------------------------------------------------------
(* The OpenAPI document.  An operation id is the sequence of its words:      *)
(* lookupCustomer is <<"lookup", "customer">>; no id is <<>>.  A parameter   *)
(* stands in the path without its braces.                                    *)
Param(name, where) == [name |-> name, in |-> where, required |-> TRUE]

Operation(words, method, path, parameters, body) ==
    [operationId |-> words, method |-> method, path |-> path,
     parameters |-> parameters, body |-> body]

CustomerPath == <<"anything", "customers", "customer_id">>
OrdersPath   == Append(CustomerPath, "orders")
RefundsPath  == <<"anything", "refunds">>
CustomerId   == {Param("customer_id", "path")}

AcmeApi ==
    {Operation(<<"lookup", "customer">>, "GET", CustomerPath, CustomerId, {}),
     Operation(<<"update", "customer">>, "PUT", CustomerPath, CustomerId, {"email"}),
     Operation(<<"recent", "orders">>, "GET", OrdersPath, CustomerId, {}),
     Operation(<<"issue", "refund">>, "POST", RefundsPath, {}, {"customer_id", "amount"})}

(* The same operations without their ids. *)
Anonymous(d) == {[o EXCEPT !.operationId = <<>>] : o \in d}

(* A name is the sequence of its words with a separator between them. *)
Snake(words) ==
    [i \in 1..(2 * Len(words) - 1) |-> IF i % 2 = 1 THEN words[(i + 1) \div 2] ELSE "_"]

(* Defect variants of toolName: words run together; no method in the slug. *)
toolNameTogether(o) == IF o.operationId # <<>> THEN o.operationId ELSE <<o.method>> \o o.path
toolNameOfPath(o) == Snake(IF o.operationId # <<>> THEN o.operationId ELSE o.path)

(* snake_case(operationId), or method and path when there is none. *)
toolName(o) == Snake(IF o.operationId # <<>> THEN o.operationId ELSE <<o.method>> \o o.path)

(* The tools' names as the plugin's table and the page spell them. *)
NameOf ==
    [lookup_customer |-> <<"lookup", "_", "customer">>,
     recent_orders   |-> <<"recent", "_", "orders">>,
     update_customer |-> <<"update", "_", "customer">>,
     issue_refund    |-> <<"issue", "_", "refund">>]

(* The tool's input schema and the binding its handler rebuilds the request  *)
(* with: path and query parameters, and the properties of a JSON body.       *)
buildToolFor(o) ==
    LET named(where) == {p.name : p \in {q \in o.parameters : q.in = where}}
        inputs == named("path") \cup named("query")
    IN  [props    |-> inputs \cup o.body,
         required |-> {p.name : p \in {q \in o.parameters : q.required /\ q.name \in inputs}}
                        \cup o.body,
         method   |-> o.method,
         path     |-> o.path,
         pathParams |-> named("path"),
         bodyProps  |-> o.body]

-----------------------------------------------------------------------------
(* The page and acme-chat.  parseFloat reads a prefix; JSON has no NaN, and  *)
(* null leaves Go's zero in req.Amount.                                      *)
AmountTexts == {"10", "1,000", "ten"}
parseFloat  == [a \in AmountTexts |-> IF a = "1,000" THEN "1" ELSE IF a = "ten" THEN "0" ELSE a]

(* Defect variant of handleToolArgs: an update gets no email. *)
handleToolArgsFewer(c) ==
    IF c.tool = "issue_refund" THEN [customer_id |-> c.cust, amount |-> parseFloat[c.amount]]
    ELSE [customer_id |-> c.cust]

(* Defect variant of handleToolArgs: the amount as it was typed. *)
handleToolArgsUnparsed(c) ==
    IF c.tool = "issue_refund" THEN [customer_id |-> c.cust, amount |-> c.amount]
    ELSE IF c.tool = "update_customer" THEN [customer_id |-> c.cust, email |-> "updated"]
    ELSE [customer_id |-> c.cust]

(* The arguments handleTool makes of the request. *)
handleToolArgs(c) ==
    IF c.tool = "issue_refund" THEN [customer_id |-> c.cust, amount |-> parseFloat[c.amount]]
    ELSE IF c.tool = "update_customer" THEN [customer_id |-> c.cust, email |-> "updated"]
    ELSE [customer_id |-> c.cust]

-----------------------------------------------------------------------------
(* The request.  The router cleans the path as it is escaped, and redirects  *)
(* to the cleaned one; the HTTP client follows with a GET without a body.    *)
Cleaned(kept, segment) ==
    IF segment \in {<<"">>, <<".">>} THEN kept
    ELSE IF segment = <<"..">> THEN Front(kept)
    ELSE Append(kept, segment)

cleanPath(path) ==
    LET cleaned[i \in 0..Len(path)] ==
          IF i = 0 THEN <<>> ELSE Cleaned(cleaned[i - 1], path[i])
        kept == cleaned[Len(path)]
    IN  IF Last(path) = <<"">> THEN Append(kept, <<"">>) ELSE kept

PathOf(t, args) ==
    [i \in DOMAIN t.path |-> IF t.path[i] \in t.pathParams THEN args[t.path[i]] ELSE <<t.path[i]>>]

(* Defect variant of makeHandler: every request is a GET. *)
makeHandlerGet(t, args) == [method |-> "GET", path |-> PathOf(t, args), body |-> <<>>]

(* The handler of a tool: method, path and body; a query is left out, since  *)
(* the resource API reads none.                                              *)
makeHandler(t, args) ==
    [method |-> t.method,
     path   |-> PathOf(t, args),
     body   |-> Restrict(args, t.bodyProps \cap DOMAIN args)]

Redirected(r) ==
    IF cleanPath(r.path) = r.path THEN r
    ELSE [method |-> "GET", path |-> cleanPath(r.path), body |-> <<>>]

(* What a body says of a field, or Go's zero value. *)
Field(body, name, zero) == IF name \in DOMAIN body THEN body[name] ELSE zero

Did(op, id, value) == [op |-> op, id |-> id, value |-> value]

(* The routes of the resource API on the decoded path, orders before         *)
(* customers; each text between two slashes must have a character.           *)
routed(r) ==
    LET p == FlattenSeq(r.path)
        under == Len(p) >= 3 /\ SubSeq(p, 1, 2) = <<"anything", "customers">> /\ p[3] # ""
        anOrder == under /\ Len(p) = 4 /\ p[4] = "orders"
        aCustomer == under /\ Len(p) = 3
    IN  IF p = RefundsPath /\ r.method = "POST"
          THEN Did("POST refund", Field(r.body, "customer_id", <<"">>), Field(r.body, "amount", "0"))
        ELSE IF anOrder /\ r.method = "GET" THEN Did("GET orders", <<p[3]>>, "")
        ELSE IF aCustomer /\ r.method = "GET" THEN Did("GET customer", <<p[3]>>, "")
        ELSE IF aCustomer /\ r.method = "PUT"
          THEN Did("PUT customer", <<p[3]>>, Field(r.body, "email", ""))
        ELSE None

Upstream(t, args) == routed(Redirected(makeHandler(t, args)))

-----------------------------------------------------------------------------
(* A customer id as the page means it: one segment, and not a dot segment. *)
Plain(text) == Len(text) = 1 /\ text[1] \notin {"", ".", ".."}

(* What was typed, as a whole or between two slashes, or "orders". *)
Ids == CustTexts \cup {<<"orders">>} \cup UNION {{<<t[i]>> : i \in DOMAIN t} : t \in CustTexts}

Effects == [op : Operations, id : Ids,
            value : {parseFloat[a] : a \in AmountTexts} \cup {"updated", ""}]

ASSUME TextsAssumption == CustTexts \subseteq Seq(STRING) \ {<<>>} /\ None \notin Effects

Fields == [cust : CustTexts, amount : AmountTexts]

Result(status, error) == [status |-> status, error |-> error]
Failed == Result(0, TRUE)

Init ==
    /\ document \in Documents
    /\ todo = document
    /\ tools = <<>>
    /\ fields \in {f \in Fields : Plain(f.cust) /\ f.amount = "10"}
    /\ call = None
    /\ stage = "idle"
    /\ answer = None
    /\ effects = <<>>
    /\ edited = FALSE
    /\ reply = None

(* RegisterFromOAS goes through two maps, whose order is any; a name that is *)
(* taken gets the new binding.                                               *)
Register(o) ==
    /\ o \in todo
    /\ todo' = todo \ {o}
    /\ tools' = [n \in DOMAIN tools \cup {toolName(o)} |->
                   IF n = toolName(o) THEN buildToolFor(o) ELSE tools[n]]
    /\ UNCHANGED <<document, pageVars, stage, answer, effects>>

(* The tool server starts again; what it was working on fails. *)
RestartToolServer ==
    /\ todo' = document
    /\ tools' = <<>>
    /\ IF stage = "server"
       THEN stage' = "answer" /\ answer' = Failed
       ELSE UNCHANGED <<stage, answer>>
    /\ UNCHANGED <<document, pageVars, effects>>

(* A chip, clicked by any rep with the fields as they are.  The chips are    *)
(* disabled until the answer is shown.                                       *)
Click(u, t) ==
    /\ stage = "idle"
    /\ call' = [rep |-> u, tool |-> t, cust |-> fields.cust, amount |-> fields.amount]
    /\ stage' = "hook"
    /\ answer' = None
    /\ effects' = <<>>
    /\ edited' = FALSE
    /\ reply' = None
    /\ UNCHANGED <<serverVars, fields>>

(* The fields are never disabled.  Typing while no click is under way ends   *)
(* what there is to say about the last one.                                  *)
Edit(f) ==
    /\ f # fields
    /\ f.cust = fields.cust \/ f.amount = fields.amount
    /\ fields' = f
    /\ IF stage = "idle"
       THEN /\ call' = None
            /\ answer' = None
            /\ effects' = <<>>
            /\ edited' = FALSE
            /\ reply' = None
       ELSE /\ edited' = TRUE
            /\ UNCHANGED <<call, answer, effects, reply>>
    /\ UNCHANGED <<serverVars, stage>>

(* The plugin in the gateway lets the call through with a token of one scope. *)
Hook ==
    /\ stage = "hook"
    /\ IF Covers(call.rep, call.tool)
       THEN stage' = "server" /\ UNCHANGED answer
       ELSE stage' = "answer" /\ answer' = Result(403, TRUE)
    /\ UNCHANGED <<serverVars, pageVars, effects>>

Fail ==
    /\ stage' = "answer"
    /\ answer' = Failed
    /\ UNCHANGED <<serverVars, pageVars, effects>>

(* The tool is unknown to the tool server, or it does not listen yet. *)
NoTool ==
    /\ stage = "server"
    /\ todo # {} \/ NameOf[call.tool] \notin DOMAIN tools
    /\ Fail

(* The 35 s are over, or the page's own request fails.  The page learns of   *)
(* the 35 s only when the DELETE that ends the session, which is not under   *)
(* them, has been answered too, and its fetch has no timeout: nothing makes  *)
(* this step happen.                                                         *)
GiveUp ==
    /\ stage \in {"hook", "server"} \/ (stage = "answer" /\ answer # Failed)
    /\ Fail

(* What the request of the tool under way is to the resource API. *)
Request == Upstream(tools[NameOf[call.tool]], handleToolArgs(call))

(* The resource API knows the route, and the token has the scope for it. *)
Allowed == Request # None /\ requiredScope(Request.op) = TOOL_SCOPES[call.tool]

Status == IF Request = None THEN 404 ELSE IF Allowed THEN 200 ELSE 403

Handled ==
    /\ stage = "server"
    /\ todo = {}
    /\ NameOf[call.tool] \in DOMAIN tools
    /\ UNCHANGED <<serverVars, pageVars>>

(* Defect variant of Perform: a request that got no answer is sent again. *)
PerformRetried(arrives, answered) ==
    /\ Handled
    /\ effects' = IF arrives /\ Allowed THEN Append(effects, Request) ELSE effects
    /\ IF answered \/ Len(effects) > 1
       THEN /\ answer' = Result(Status, FALSE)
            /\ stage' = "answer"
       ELSE UNCHANGED <<answer, stage>>

(* The tool's request to the resource API: it may not arrive, or the answer  *)
(* may not, which is a result with status 0, or with the gateway's 502 or    *)
(* 504, and no error of the call.                                            *)
Perform(arrives, answered) ==
    /\ Handled
    /\ answered => arrives
    /\ effects' = IF arrives /\ Allowed THEN Append(effects, Request) ELSE effects
    /\ \E s \in {0, 502} : answer' = Result(IF answered THEN Status ELSE s, FALSE)
    /\ stage' = "answer"

-----------------------------------------------------------------------------
(* Defect variant of botReply: whatever came back with a status is done. *)
botReplyOptimistic(a) == IF a = Failed THEN "failed" ELSE "done"

botReply(a) ==
    IF a.status >= 400 THEN "denied" ELSE IF a.error THEN "failed" ELSE "done"

(* The page words its reply from the fields as they are now. *)
Say(kind) ==
    /\ reply' = [kind |-> kind, cust |-> fields.cust, amount |-> fields.amount,
                 sure |-> ~edited /\ answer.status # 0]
    /\ stage' = "idle"
    /\ UNCHANGED <<serverVars, fields, call, answer, effects, edited>>

Reply == stage = "answer" /\ Say(botReply(answer))

Next ==
    \/ \E o \in document : Register(o)
    \/ RestartToolServer
    \/ \E u \in Users, t \in Tools : Click(u, t)
    \/ \E f \in Fields : Edit(f)
    \/ Hook
    \/ NoTool
    \/ GiveUp
    \/ \E arrives, answered \in BOOLEAN : Perform(arrives, answered)
    \/ Reply

Spec == Init /\ [][Next]_vars

-----------------------------------------------------------------------------
(* The amount a rep means by a text; "any" where it is anybody's guess. *)
Meant == [a \in AmountTexts |-> IF a = "1,000" THEN "1000" ELSE IF a = "ten" THEN "any" ELSE a]

(* Every variable keeps to its type: the resource API is never asked for a   *)
(* customer nobody typed, but for "orders".                                  *)
TypeOK ==
    /\ document \in Documents
    /\ todo \subseteq document
    /\ DOMAIN tools = {toolName(o) : o \in document \ todo}
    /\ fields \in Fields
    /\ call \in {None} \cup [rep : Users, tool : Tools, cust : CustTexts, amount : AmountTexts]
    /\ stage \in {"idle", "hook", "server", "answer"}
    /\ answer \in {None} \cup [status : {0, 200, 403, 404, 502}, error : BOOLEAN]
    /\ \A i \in DOMAIN effects : effects[i] \in Effects
    /\ edited \in BOOLEAN
    /\ reply \in {None} \cup [kind : {"done", "denied", "failed"}, cust : CustTexts,
                              amount : AmountTexts, sure : BOOLEAN]

(* The plugin's table and the page name tools by hand; RegisterFromOAS makes *)
(* the names from the document, in any order of its operations.  Once it is  *)
(* done with the deployed document they are the same, and each is bound to   *)
(* the operation the resource API demands the plugin's scope for.            *)
ToolsAsThePluginKnowsThem ==
    (stage = "server" /\ todo = {} /\ document = AcmeApi) =>
        /\ DOMAIN tools = {NameOf[t] : t \in Tools}
        /\ \A t \in Tools : \A c \in {x \in CustTexts : Plain(x)} :
              LET args == handleToolArgs([tool |-> t, cust |-> c, amount |-> "10"])
                  did  == Upstream(tools[NameOf[t]], args)
              IN  did # None /\ did.op = OperationOf[t]

(* No operation of a document is lost to another one of the same name        *)
(* (server.AddTool replaces silently), in whatever order they come.          *)
EveryOperationItsTool ==
    \A o \in document \ todo : tools[toolName(o)] = buildToolFor(o)

(* The arguments handleTool fills in by hand are the ones the tool's schema  *)
(* requires, and no others: nobody on the way validates them, and a missing  *)
(* one would become the empty string or zero.                                *)
ArgumentsFitTheSchema ==
    (stage = "server" /\ todo = {} /\ NameOf[call.tool] \in DOMAIN tools) =>
        /\ tools[NameOf[call.tool]].required \subseteq DOMAIN handleToolArgs(call)
        /\ DOMAIN handleToolArgs(call) \subseteq tools[NameOf[call.tool]].props

(* Whatever is typed as a customer, the request that comes out of it is      *)
(* never refused for its scope: paths may lead to another operation, but     *)
(* never to one of another scope.                                            *)
ScopeFitsWhateverIsTyped == (answer # None /\ stage = "answer") => answer # Result(403, FALSE)

(* What a chip says it does to a customer. *)
Says(tool, cust, dollars) ==
    Did(OperationOf[tool], cust,
        IF tool = "issue_refund" THEN dollars
        ELSE IF tool = "update_customer" THEN "updated"
        ELSE "")

(* A click does at most one thing, and to a customer that is a proper id it  *)
(* does what the chip says, with the value the page sent.                    *)
ClickDoesWhatItSays ==
    /\ Len(effects) <= 1
    /\ \A i \in DOMAIN effects : Plain(call.cust) =>
          effects[i] = Says(call.tool, call.cust, parseFloat[call.amount])

(* What the reply claims to have been done. *)
Claim == Says(call.tool, reply.cust, Meant[reply.amount])

SaysSo == stage = "idle" /\ reply # None /\ reply.kind = "done"

(* "Done - refunded $a to c" is true once the API has answered: that amount  *)
(* was refunded to that customer.  The code does not keep this: the reply is *)
(* worded from the fields after the answer, and from the text of the amount, *)
(* not from the number that was sent.                                        *)
RefundsWhatItSays ==
    (SaysSo /\ call.tool = "issue_refund" /\ answer.status = 200) => effects = <<Claim>>

(* "Done" is true of any tool when the fields were not edited meanwhile, the *)
(* tool server had an answer, and the texts are an id and a plain number.    *)
SaysWhatItDidUnlessEdited ==
    (SaysSo /\ reply.sure /\ Plain(reply.cust) /\ Meant[reply.amount] = parseFloat[reply.amount])
        => effects = <<Claim>>
=============================================================================
