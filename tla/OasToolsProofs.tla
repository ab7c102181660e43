---------------------------- MODULE OasToolsProofs ----------------------------
(***************************************************************************)
(* Proofs about OasTools, for every set of reps, entitlements and texts in *)
(* the page's fields, and for the deployed OpenAPI document, with its      *)
(* operation ids and without them.  OasToolsLemmas computes the names and  *)
(* paths; here the request of a call is put together from them, and the    *)
(* invariants say that registrations in any order, restarts, lost answers  *)
(* and edits add no other way to go wrong.                                 *)
(***************************************************************************)
EXTENDS OasToolsLemmas

-----------------------------------------------------------------------------
(* The conditions on the documents. *)

(* No two operations of a document get the same tool name.                   *)
NamesApart ==
    \A d \in Documents : \A o, p \in d : toolName(o) = toolName(p) => o = p

(* The tool server is started with the document of the repository, whose     *)
(* operations have ids or lost them.                                         *)
Deployed == Documents \subseteq {AcmeApi, Anonymous(AcmeApi)}

LEMMA DeployedApart == ASSUME Deployed PROVE NamesApart
BY DeployedNamesApart DEF Deployed, NamesApart

Answers == [status : {0, 200, 403, 404, 502}, error : BOOLEAN]

Replies == [kind : {"done", "denied", "failed"}, cust : CustTexts, amount : AmountTexts,
            sure : BOOLEAN]

Calls == [rep : Users, tool : Tools, cust : CustTexts, amount : AmountTexts]

SaysOf(c) == Says(c.tool, c.cust, parseFloat[c.amount])

-----------------------------------------------------------------------------
(* The request made of a call. *)

LEMMA TextIs ==
    ASSUME NEW c \in CustTexts
    PROVE  c \in Segments /\ c # <<>> /\ c \in Ids /\ <<c[1]>> \in Ids /\ <<"orders">> \in Ids
<1>1. c \in Seq(STRING) /\ c # <<>>
  BY TextsAssumption
<1>2. STRING \subseteq Pieces
  BY DEF Pieces
<1>3. c \in Seq(Pieces)
  BY <1>1, <1>2, SeqMonotonic, Zenon
<1>4. 1 \in DOMAIN c
  BY <1>1
<1>5. <<c[1]>> \in {<<c[i]>> : i \in DOMAIN c}
  BY <1>4
<1>6. c \in Ids /\ <<"orders">> \in Ids
  BY DEF Ids
<1>7. <<c[1]>> \in Ids
  BY <1>5 DEF Ids
<1> QED
  BY <1>1, <1>3, <1>6, <1>7 DEF Segments

LEMMA DidIs ==
    ASSUME NEW op \in Operations, NEW id \in Ids,
           NEW value \in {parseFloat[a] : a \in AmountTexts} \cup {"updated", ""}
    PROVE  /\ Did(op, id, value) \in Effects
           /\ Did(op, id, value).op = op
           /\ Did(op, id, value) # None
<1>1. Did(op, id, value) \in Effects /\ Did(op, id, value).op = op
  BY DEF Did, Effects
<1> QED
  BY <1>1, TextsAssumption

(* A call with some arguments, of a tool with some name.                     *)
Asked(c) == c.tool \in Tools /\ c.cust \in CustTexts /\ c.amount \in AmountTexts

(* An answer of the router to a call: nothing, or something typed, done with *)
(* the scope the plugin gave.                                                *)
Fits(r, c) ==
    r = None \/ (r # None /\ r \in Effects /\ requiredScope(r.op) = TOOL_SCOPES[c.tool])

LEMMA OperationsScoped ==
    /\ Operations = {"GET customer", "GET orders", "PUT customer", "POST refund"}
    /\ requiredScope("GET customer") = "customers:read"
    /\ requiredScope("GET orders") = "customers:read"
    /\ requiredScope("PUT customer") = "customers:write"
    /\ requiredScope("POST refund") = "refunds:write"
    /\ TOOL_SCOPES["lookup_customer"] = "customers:read"
    /\ TOOL_SCOPES["recent_orders"] = "customers:read"
    /\ TOOL_SCOPES["update_customer"] = "customers:write"
    /\ TOOL_SCOPES["issue_refund"] = "refunds:write"
BY DEF Operations, requiredScope, TOOL_SCOPES

LEMMA OperationsNamed ==
    /\ OperationOf["lookup_customer"] = "GET customer"
    /\ OperationOf["recent_orders"] = "GET orders"
    /\ OperationOf["update_customer"] = "PUT customer"
    /\ OperationOf["issue_refund"] = "POST refund"
BY DEF OperationOf

LEMMA ReadFits ==
    ASSUME NEW c, TOOL_SCOPES[c.tool] = "customers:read", NEW id \in Ids
    PROVE  Fits(Did("GET customer", id, ""), c) /\ Fits(Did("GET orders", id, ""), c)
<1>1. Fits(Did("GET customer", id, ""), c)
  <2>1. PICK r : r = Did("GET customer", id, "")
    OBVIOUS
  <2>2. r \in Effects /\ r.op = "GET customer" /\ r # None
    BY <2>1, DidIs, OperationsScoped
  <2> QED
    BY <2>1, <2>2, OperationsScoped DEF Fits
<1>2. Fits(Did("GET orders", id, ""), c)
  <2>1. PICK r : r = Did("GET orders", id, "")
    OBVIOUS
  <2>2. r \in Effects /\ r.op = "GET orders" /\ r # None
    BY <2>1, DidIs, OperationsScoped
  <2> QED
    BY <2>1, <2>2, OperationsScoped DEF Fits
<1> QED
  BY <1>1, <1>2

LEMMA LookupFits ==
    ASSUME NEW c, Asked(c), c.tool = "lookup_customer"
    PROVE  LET r == Upstream(buildToolFor(Lookup), handleToolArgs(c))
           IN  Fits(r, c) /\ (Plain(c.cust) => r = SaysOf(c))
<1>1. PICK args : args = [customer_id |-> c.cust]
  OBVIOUS
<1>2. handleToolArgs(c) = args
  BY <1>1 DEF handleToolArgs
<1>3. c.cust \in Segments /\ c.cust # <<>> /\ c.cust \in Ids /\ <<c.cust[1]>> \in Ids
  BY TextIs, Zenon DEF Asked
<1>4. PICK r : r = Upstream(buildToolFor(Lookup), args)
  OBVIOUS
<1>5. /\ \/ r = None
         \/ r = Did("GET orders", <<c.cust[1]>>, "")
         \/ r = Did("GET customer", <<c.cust[1]>>, "")
      /\ Plain(c.cust) => r = Did("GET customer", c.cust, "")
  BY <1>1, <1>3, <1>4, LookupDoes, Zenon
<1>6. Fits(r, c)
  <2>1. TOOL_SCOPES[c.tool] = "customers:read"
    BY OperationsScoped
  <2>2. Fits(None, c)
    BY DEF Fits
  <2> QED
    BY <1>3, <1>5, <2>1, <2>2, ReadFits, Zenon
<1>7. SaysOf(c) = Did("GET customer", c.cust, "")
  BY OperationsNamed DEF SaysOf, Says
<1> QED
  BY <1>2, <1>4, <1>5, <1>6, <1>7, Zenon

LEMMA OrdersFits ==
    ASSUME NEW c, Asked(c), c.tool = "recent_orders"
    PROVE  LET r == Upstream(buildToolFor(Orders), handleToolArgs(c))
           IN  Fits(r, c) /\ (Plain(c.cust) => r = SaysOf(c))
<1>1. PICK args : args = [customer_id |-> c.cust]
  OBVIOUS
<1>2. handleToolArgs(c) = args
  BY <1>1 DEF handleToolArgs
<1>3. /\ c.cust \in Segments /\ c.cust # <<>> /\ c.cust \in Ids
      /\ <<c.cust[1]>> \in Ids /\ <<"orders">> \in Ids
  BY TextIs, Zenon DEF Asked
<1>4. PICK r : r = Upstream(buildToolFor(Orders), args)
  OBVIOUS
<1>5. /\ \/ r = None
         \/ r = Did("GET orders", <<c.cust[1]>>, "")
         \/ r = Did("GET customer", <<"orders">>, "")
      /\ Plain(c.cust) => r = Did("GET orders", c.cust, "")
  BY <1>1, <1>3, <1>4, OrdersDoes, Zenon
<1>6. Fits(r, c)
  <2>1. TOOL_SCOPES[c.tool] = "customers:read"
    BY OperationsScoped
  <2>2. Fits(None, c)
    BY DEF Fits
  <2> QED
    BY <1>3, <1>5, <2>1, <2>2, ReadFits, Zenon
<1>7. SaysOf(c) = Did("GET orders", c.cust, "")
  BY OperationsNamed DEF SaysOf, Says
<1> QED
  BY <1>2, <1>4, <1>5, <1>6, <1>7, Zenon

LEMMA UpdateFits ==
    ASSUME NEW c, Asked(c), c.tool = "update_customer"
    PROVE  LET r == Upstream(buildToolFor(Update), handleToolArgs(c))
           IN  Fits(r, c) /\ (Plain(c.cust) => r = SaysOf(c))
<1>1. PICK args : args = [customer_id |-> c.cust, email |-> "updated"]
  OBVIOUS
<1>2. handleToolArgs(c) = args
  BY <1>1 DEF handleToolArgs
<1>3. c.cust \in Segments /\ c.cust # <<>> /\ c.cust \in Ids /\ <<c.cust[1]>> \in Ids
  BY TextIs, Zenon DEF Asked
<1>4. PICK r : r = Upstream(buildToolFor(Update), args)
  OBVIOUS
<1>5. /\ r = None \/ r = Did("PUT customer", <<c.cust[1]>>, "updated")
      /\ Plain(c.cust) => r = Did("PUT customer", c.cust, "updated")
  BY <1>1, <1>3, <1>4, UpdateDoes, Zenon
<1>6. Fits(r, c)
  <2>1. CASE r = None
    BY <2>1 DEF Fits
  <2>2. CASE r = Did("PUT customer", <<c.cust[1]>>, "updated")
    BY <1>3, <2>2, DidIs, OperationsScoped DEF Fits
  <2> QED
    BY <1>5, <2>1, <2>2
<1>7. SaysOf(c) = Did("PUT customer", c.cust, "updated")
  BY OperationsNamed DEF SaysOf, Says
<1> QED
  BY <1>2, <1>4, <1>5, <1>6, <1>7, Zenon

LEMMA RefundFits ==
    ASSUME NEW c, Asked(c), c.tool = "issue_refund"
    PROVE  LET r == Upstream(buildToolFor(Refund), handleToolArgs(c))
           IN  Fits(r, c) /\ (Plain(c.cust) => r = SaysOf(c))
<1>1. PICK v : v = parseFloat[c.amount]
  OBVIOUS
<1>2. PICK args : args = [customer_id |-> c.cust, amount |-> v]
  OBVIOUS
<1>3. handleToolArgs(c) = args
  BY <1>1, <1>2 DEF handleToolArgs
<1>4. c.cust \in Ids /\ v \in {parseFloat[a] : a \in AmountTexts} \cup {"updated", ""}
  BY <1>1, TextIs DEF Asked
<1>5. PICK r : r = Upstream(buildToolFor(Refund), args)
  OBVIOUS
<1>6. r = Did("POST refund", c.cust, v)
  BY <1>2, <1>5, RefundDoes, Zenon
<1>7. Fits(r, c)
  BY <1>4, <1>6, DidIs, OperationsScoped DEF Fits
<1>8. SaysOf(c) = Did("POST refund", c.cust, v)
  BY <1>1, OperationsNamed DEF SaysOf, Says
<1> QED
  BY <1>3, <1>5, <1>6, <1>7, <1>8, Zenon

(* Whatever operation of the deployed document has the name of the tool, the *)
(* request of a call is refused for no scope, and to a proper id it is what  *)
(* the chip says.                                                            *)
LEMMA RequestOfCall ==
    ASSUME NEW d \in {AcmeApi, Anonymous(AcmeApi)}, NEW o \in d, NEW c, Asked(c),
           toolName(o) = NameOf[c.tool]
    PROVE  LET r == Upstream(buildToolFor(o), handleToolArgs(c))
           IN  Fits(r, c) /\ (Plain(c.cust) => r = SaysOf(c))
<1>1. c.tool \in Tools
  BY DEF Asked
<1>2. \/ o = Lookup /\ c.tool = "lookup_customer"
      \/ o = Orders /\ c.tool = "recent_orders"
      \/ o = Update /\ c.tool = "update_customer"
      \/ o = Refund /\ c.tool = "issue_refund"
  BY <1>1, ToolOfName, Zenon
<1>3. CASE o = Lookup /\ c.tool = "lookup_customer"
  BY <1>3, LookupFits, Zenon
<1>4. CASE o = Orders /\ c.tool = "recent_orders"
  BY <1>4, OrdersFits, Zenon
<1>5. CASE o = Update /\ c.tool = "update_customer"
  BY <1>5, UpdateFits, Zenon
<1>6. CASE o = Refund /\ c.tool = "issue_refund"
  BY <1>6, RefundFits, Zenon
<1> QED
  BY <1>2, <1>3, <1>4, <1>5, <1>6, Zenon

LEMMA SaysIs == ASSUME NEW c, Asked(c) PROVE SaysOf(c) # None
<1>1. c.cust \in Ids /\ OperationOf[c.tool] \in Operations
  BY TextIs, ToolsAre, OperationsNamed, OperationsScoped DEF Asked
<1>2. PICK v \in {parseFloat[a] : a \in AmountTexts} \cup {"updated", ""} :
         SaysOf(c) = Did(OperationOf[c.tool], c.cust, v)
  BY DEF SaysOf, Says, Asked
<1> QED
  BY <1>1, <1>2, DidIs

(* The schema of each tool has the arguments of handleTool, no more no less. *)
LEMMA SchemaFits ==
    ASSUME NEW o, NEW c,
           \/ o = Lookup /\ c.tool = "lookup_customer"
           \/ o = Orders /\ c.tool = "recent_orders"
           \/ o = Update /\ c.tool = "update_customer"
           \/ o = Refund /\ c.tool = "issue_refund"
    PROVE  /\ buildToolFor(o).required = DOMAIN handleToolArgs(c)
           /\ buildToolFor(o).props = DOMAIN handleToolArgs(c)
<1>1. CASE o = Lookup /\ c.tool = "lookup_customer"
  <2>1. DOMAIN handleToolArgs(c) = {"customer_id"}
    BY <1>1 DEF handleToolArgs
  <2> QED
    BY <1>1, <2>1, CustomerTool DEF Lookup
<1>2. CASE o = Orders /\ c.tool = "recent_orders"
  <2>1. DOMAIN handleToolArgs(c) = {"customer_id"}
    BY <1>2 DEF handleToolArgs
  <2> QED
    BY <1>2, <2>1, CustomerTool DEF Orders
<1>3. CASE o = Update /\ c.tool = "update_customer"
  <2>1. DOMAIN handleToolArgs(c) = {"customer_id", "email"}
    BY <1>3 DEF handleToolArgs
  <2> QED
    BY <1>3, <2>1, CustomerTool DEF Update
<1>4. CASE o = Refund /\ c.tool = "issue_refund"
  <2>1. DOMAIN handleToolArgs(c) = {"customer_id", "amount"}
    BY <1>4 DEF handleToolArgs
  <2> QED
    BY <1>4, <2>1, RefundTool
<1> QED
  BY <1>1, <1>2, <1>3, <1>4

-----------------------------------------------------------------------------
(* The inductive invariants: of the tool server, and of a click. *)

Served ==
    /\ document \in Documents
    /\ todo \subseteq document
    /\ DOMAIN tools = {toolName(o) : o \in document \ todo}
    /\ EveryOperationItsTool

(* A click under way is a call of the page, and says what the fields said    *)
(* when it was made.                                                         *)
UnderWay ==
    /\ fields \in Fields
    /\ stage \in {"idle", "hook", "server", "answer"}
    /\ stage # "idle" => call \in Calls
    /\ stage # "idle" /\ ~edited => call.cust = fields.cust /\ call.amount = fields.amount

(* Nothing is done before the tool server has the call, and then at most one *)
(* thing, which is what the chip says.                                       *)
DoneOnce ==
    /\ stage \in {"hook", "server"} => effects = <<>>
    /\ \/ effects = <<>>
       \/ /\ effects = <<effects[1]>>
          /\ Plain(call.cust) => effects[1] = SaysOf(call)

(* Where the tool server reports success, the thing was done.                *)
Success == answer.status = 200 => effects # <<>>

Answered ==
    stage = "answer" => /\ answer \in [status : {0, 200, 403, 404, 502}, error : BOOLEAN]
                        /\ Success

(* What the page still shows of the last click is about that click.          *)
Shown ==
    SaysSo /\ reply.sure => /\ call \in Calls
                            /\ reply.cust = call.cust /\ reply.amount = call.amount
                            /\ effects # <<>>

ClickInv == UnderWay /\ DoneOnce /\ Answered /\ Shown

(* What is left over from earlier clicks keeps to its type as well.          *)
Typed ==
    /\ call \in {None} \cup Calls
    /\ answer \in {None} \cup Answers
    /\ \A i \in DOMAIN effects : effects[i] \in Effects
    /\ edited \in BOOLEAN
    /\ reply \in {None} \cup Replies

-----------------------------------------------------------------------------
(* The tool server. *)

LEMMA ServedInit == ASSUME Init PROVE Served
BY DEF Init, Served, EveryOperationItsTool

LEMMA ServedStep == ASSUME NamesApart, Served, [Next]_vars PROVE Served'
<1> USE DEF Served, EveryOperationItsTool
<1>1. CASE UNCHANGED <<document, todo, tools>>
  BY <1>1
<1>2. ASSUME NEW o \in document, Register(o)
      PROVE  Served'
  <2>1. /\ o \in todo /\ todo' = todo \ {o} /\ document' = document
        /\ tools' = [n \in DOMAIN tools \cup {toolName(o)} |->
                       IF n = toolName(o) THEN buildToolFor(o) ELSE tools[n]]
    BY <1>2 DEF Register
  <2>2. document \ todo' = (document \ todo) \cup {o}
    BY <2>1
  <2>3. DOMAIN tools' = {toolName(p) : p \in document' \ todo'}
    BY <2>1, <2>2
  <2>4. ASSUME NEW p \in document' \ todo'
        PROVE  tools'[toolName(p)] = buildToolFor(p)
    <3>1. CASE p = o
      BY <2>1, <3>1
    <3>2. CASE p # o
      <4>1. p \in document \ todo
        BY <2>1, <2>2, <3>2
      <4>2. toolName(p) # toolName(o)
        BY <3>2, <4>1 DEF NamesApart
      <4> QED
        BY <2>1, <4>1, <4>2
    <3> QED
      BY <3>1, <3>2
  <2> QED
    BY <2>1, <2>3, <2>4
<1>3. CASE RestartToolServer
  BY <1>3 DEF RestartToolServer
<1> QED
  BY <1>1, <1>2, <1>3
     DEF Next, Click, Edit, Hook, NoTool, GiveUp, Fail, Perform, Handled, Reply, Say,
         vars, serverVars

(* EveryOperationItsTool (RegisterFromOAS and server.AddTool): with distinct *)
(* names, every operation registered is bound to its own method, path and    *)
(* schema, in any order of registration and over any number of restarts.     *)
THEOREM OperationsKept ==
    ASSUME NamesApart
    PROVE  Spec => []EveryOperationItsTool
<1>1. Init => Served
  BY ServedInit
<1>2. Served /\ [Next]_vars => Served'
  BY ServedStep
<1>3. Served => EveryOperationItsTool
  BY DEF Served
<1> QED
  BY <1>1, <1>2, <1>3, PTL DEF Spec

-----------------------------------------------------------------------------
(* A click. *)

LEMMA ClickInit == ASSUME Init PROVE ClickInv
BY DEF Init, ClickInv, UnderWay, DoneOnce, Answered, Shown, SaysSo

LEMMA UnderWayStep == ASSUME UnderWay, [Next]_vars PROVE UnderWay'
<1> USE DEF UnderWay
<1>1. CASE UNCHANGED <<fields, stage, call, edited>>
  BY <1>1
<1>2. ASSUME NEW u \in Users, NEW t \in Tools, Click(u, t)
      PROVE  UnderWay'
  <2>1. call' \in Calls
    BY <1>2 DEF Click, Calls, Fields
  <2> QED
    BY <1>2, <2>1 DEF Click
<1>3. ASSUME NEW f \in Fields, Edit(f)
      PROVE  UnderWay'
  BY <1>3 DEF Edit
<1>4. ASSUME UNCHANGED <<fields, call, edited>>, stage # "idle",
             stage' \in {"idle", "server", "answer"}
      PROVE  UnderWay'
  BY <1>4
<1>5. CASE RestartToolServer
  BY <1>5, <1>1, <1>4 DEF RestartToolServer, pageVars
<1> QED
  BY <1>1, <1>2, <1>3, <1>4, <1>5
     DEF Next, Register, Hook, NoTool, GiveUp, Fail, Perform, Handled, Reply, Say,
         vars, serverVars, pageVars

(* By the time a call is handled its tool is bound to an operation of the    *)
(* document with its name.                                                   *)
LEMMA RequestIs ==
    ASSUME Deployed, Served, UnderWay, Handled
    PROVE  Fits(Request, call) /\ (Plain(call.cust) => Request = SaysOf(call))
<1>1. Asked(call) /\ document \in {AcmeApi, Anonymous(AcmeApi)}
  BY DEF Served, UnderWay, Handled, Asked, Calls, Deployed
<1>2. PICK o \in document : /\ toolName(o) = NameOf[call.tool]
                            /\ tools[NameOf[call.tool]] = buildToolFor(o)
  BY DEF Served, EveryOperationItsTool, Handled
<1>3. Request = Upstream(buildToolFor(o), handleToolArgs(call))
  BY <1>2 DEF Request
<1> QED
  BY <1>1, <1>2, <1>3, RequestOfCall, Zenon

LEMMA RequestAllowed ==
    ASSUME Deployed, Served, UnderWay, Handled
    PROVE  /\ Allowed => Request \in Effects
           /\ Status \in {200, 404} /\ (Status = 200 => Allowed)
BY RequestIs DEF Fits, Allowed, Status

LEMMA PerformDoes ==
    ASSUME NEW arrives \in BOOLEAN, NEW answered \in BOOLEAN, Perform(arrives, answered)
    PROVE  /\ stage = "server" /\ stage' = "answer" /\ Handled
           /\ call' = call /\ fields' = fields /\ edited' = edited /\ reply' = reply
           /\ effects' = effects \/ (Allowed /\ effects' = Append(effects, Request))
           /\ answer' \in [status : {0, 200, 403, 404, 502}, error : BOOLEAN]
           /\ answer'.status = 200 => Allowed /\ effects' = Append(effects, Request)
<1>1. stage = "server" /\ stage' = "answer" /\ Handled
      /\ call' = call /\ fields' = fields /\ edited' = edited /\ reply' = reply
  BY DEF Perform, Handled, pageVars
<1>2. effects' = effects \/ (Allowed /\ effects' = Append(effects, Request))
  BY DEF Perform
<1>3. Status \in {200, 403, 404} /\ (Status = 200 => Allowed)
  BY DEF Status
<1>4. PICK s \in {0, 502} : answer' = [status |-> IF answered THEN Status ELSE s, error |-> FALSE]
  BY DEF Perform, Result
<1>5. answer' \in [status : {0, 200, 403, 404, 502}, error : BOOLEAN]
  BY <1>3, <1>4
<1>6. ASSUME answer'.status = 200
      PROVE  Allowed /\ effects' = Append(effects, Request)
  <2>1. answered /\ Status = 200
    BY <1>4, <1>6
  <2>2. arrives
    BY <2>1 DEF Perform
  <2> QED
    BY <1>3, <2>1, <2>2 DEF Perform
<1> QED
  BY <1>1, <1>2, <1>5, <1>6

LEMMA DoneOnceStep ==
    ASSUME Deployed, Served, ClickInv, [Next]_vars
    PROVE  DoneOnce'
<1> USE DEF ClickInv, DoneOnce
<1>1. CASE UNCHANGED <<stage, call, effects>>
  BY <1>1 DEF SaysOf
<1>2. CASE effects' = <<>>
  BY <1>2
<1>3. ASSUME UNCHANGED <<call, effects>>,
             stage' \in {"idle", "answer"} \/ stage \in {"hook", "server"}
      PROVE  DoneOnce'
  BY <1>3 DEF SaysOf
<1>4. ASSUME NEW arrives \in BOOLEAN, NEW answered \in BOOLEAN, Perform(arrives, answered)
      PROVE  DoneOnce'
  <2>1. effects = <<>> /\ stage' = "answer" /\ call' = call
    BY <1>4, PerformDoes
  <2>2. CASE effects' = effects
    BY <2>1, <2>2
  <2>3. CASE Allowed /\ effects' = Append(effects, Request)
    <3>1. effects' = <<Request>>
      BY <2>1, <2>3
    <3>2. Plain(call.cust) => Request = SaysOf(call)
      BY <1>4, <2>3, PerformDoes, RequestIs
    <3> QED
      BY <2>1, <3>1, <3>2 DEF SaysOf
  <2> QED
    BY <1>4, <2>2, <2>3, PerformDoes
<1>5. CASE RestartToolServer
  BY <1>5, <1>1, <1>3 DEF RestartToolServer, pageVars
<1>6. ASSUME NEW f \in Fields, Edit(f)
      PROVE  DoneOnce'
  BY <1>6, <1>1, <1>2 DEF Edit
<1> QED
  BY <1>1, <1>2, <1>3, <1>4, <1>5, <1>6
     DEF Next, Register, Click, Hook, NoTool, GiveUp, Fail, Reply, Say, vars, serverVars,
         pageVars

LEMMA AnsweredStep == ASSUME ClickInv, [Next]_vars PROVE Answered'
<1> USE DEF ClickInv, Answered, Success
<1>1. CASE UNCHANGED <<stage, answer, effects>> \/ stage' # "answer"
  BY <1>1
<1>2. CASE answer' = Failed
  <2>1. answer' = [status |-> 0, error |-> TRUE]
    BY <1>2 DEF Failed, Result
  <2> QED
    BY <2>1
<1>3. CASE Hook
  <2>1. CASE stage' = "server"
    BY <2>1
  <2>2. CASE answer' = Result(403, TRUE)
    <3>1. answer' = [status |-> 403, error |-> TRUE]
      BY <2>2 DEF Result
    <3> QED
      BY <3>1
  <2> QED
    BY <1>3, <2>1, <2>2 DEF Hook
<1>4. ASSUME NEW arrives \in BOOLEAN, NEW answered \in BOOLEAN, Perform(arrives, answered)
      PROVE  Answered'
  <2>1. effects = <<>>
    BY <1>4, PerformDoes DEF DoneOnce
  <2>2. answer'.status = 200 => effects' # <<>>
    BY <1>4, <2>1, PerformDoes
  <2> QED
    BY <1>4, <2>2, PerformDoes
<1>5. ASSUME NEW f \in Fields, Edit(f)
      PROVE  Answered'
  BY <1>5 DEF Edit
<1>6. CASE RestartToolServer
  BY <1>1, <1>2, <1>6 DEF RestartToolServer, pageVars
<1>7. CASE Fail
  BY <1>2, <1>7 DEF Fail
<1>8. ASSUME NEW o \in document, Register(o)
      PROVE  Answered'
  BY <1>1, <1>8 DEF Register
<1>9. ASSUME NEW u \in Users, NEW t \in Tools, Click(u, t)
      PROVE  Answered'
  BY <1>9 DEF Click
<1>10. CASE Reply
  BY <1>10 DEF Reply, Say
<1>11. CASE UNCHANGED vars
  BY <1>1, <1>11 DEF vars
<1> QED
  BY <1>3, <1>4, <1>5, <1>6, <1>7, <1>8, <1>9, <1>10, <1>11 DEF Next, NoTool, GiveUp

LEMMA ShownStep == ASSUME ClickInv, [Next]_vars PROVE Shown'
<1> USE DEF ClickInv, Shown, SaysSo
<1>1. CASE UNCHANGED <<stage, call, effects, reply>> \/ stage' # "idle" \/ reply' = None
  BY <1>1
<1>2. CASE Reply
  <2>1. stage = "answer" /\ call' = call /\ effects' = effects
        /\ reply' = [kind |-> botReply(answer), cust |-> fields.cust, amount |-> fields.amount,
                     sure |-> ~edited /\ answer.status # 0]
    BY <1>2 DEF Reply, Say
  <2>2. SUFFICES ASSUME reply'.kind = "done", reply'.sure
                 PROVE  effects # <<>> /\ ~edited
    BY <2>1 DEF UnderWay
  <2>3. answer.status # 0 /\ ~edited /\ botReply(answer) = "done"
    BY <2>1, <2>2
  <2>4. answer.status = 200
    BY <2>1, <2>3 DEF botReply, Answered
  <2> QED
    BY <2>1, <2>3, <2>4 DEF Answered, Success
<1>3. ASSUME NEW f \in Fields, Edit(f)
      PROVE  Shown'
  BY <1>1, <1>3 DEF Edit
<1>4. CASE RestartToolServer
  BY <1>1, <1>4 DEF RestartToolServer, pageVars
<1> QED
  BY <1>1, <1>2, <1>3, <1>4, PerformDoes
     DEF Next, Register, Click, Hook, NoTool, GiveUp, Fail, vars, serverVars, pageVars

LEMMA RefusedStep ==
    ASSUME Deployed, Served, ClickInv, ScopeFitsWhateverIsTyped, [Next]_vars
    PROVE  ScopeFitsWhateverIsTyped'
<1> USE DEF ScopeFitsWhateverIsTyped
<1>1. CASE UNCHANGED <<stage, answer>> \/ stage' # "answer"
  BY <1>1
<1>2. CASE answer' = Failed
  BY <1>2 DEF Failed, Result
<1>3. CASE Hook
  BY <1>3 DEF Hook, Result
<1>4. ASSUME NEW arrives \in BOOLEAN, NEW answered \in BOOLEAN, Perform(arrives, answered)
      PROVE  ScopeFitsWhateverIsTyped'
  <2>1. Status \in {200, 404}
    BY <1>4, PerformDoes, RequestAllowed DEF ClickInv
  <2>2. PICK s \in {0, 502} : answer' = [status |-> IF answered THEN Status ELSE s, error |-> FALSE]
    BY <1>4 DEF Perform, Result
  <2> QED
    BY <2>1, <2>2 DEF Result
<1>5. ASSUME NEW f \in Fields, Edit(f)
      PROVE  ScopeFitsWhateverIsTyped'
  BY <1>1, <1>5 DEF Edit
<1>6. CASE RestartToolServer
  BY <1>1, <1>2, <1>6 DEF RestartToolServer
<1> QED
  BY <1>1, <1>2, <1>3, <1>4, <1>5, <1>6
     DEF Next, Register, Click, NoTool, GiveUp, Fail, Reply, Say, vars, serverVars, pageVars

LEMMA TypedInit == ASSUME Init PROVE Typed
<1>1. call = None /\ answer = None /\ reply = None /\ effects = <<>>
  BY DEF Init
<1>2. edited \in BOOLEAN
  BY DEF Init
<1> QED
  BY <1>1, <1>2 DEF Typed

LEMMA TypedStep ==
    ASSUME Deployed, Served, ClickInv, Typed, [Next]_vars
    PROVE  Typed'
<1> USE DEF Typed
<1>1. CASE UNCHANGED <<call, answer, effects, edited, reply>>
  BY <1>1
<1>2. ASSUME NEW u \in Users, NEW t \in Tools, Click(u, t)
      PROVE  Typed'
  <2>1. call' \in Calls
    BY <1>2 DEF Click, Calls, ClickInv, UnderWay, Fields
  <2>2. answer' = None /\ reply' = None /\ effects' = <<>>
    BY <1>2 DEF Click
  <2>3. edited' \in BOOLEAN
    BY <1>2 DEF Click
  <2> QED
    BY <2>1, <2>2, <2>3
<1>3. ASSUME NEW f \in Fields, Edit(f)
      PROVE  Typed'
  <2>1. edited' \in BOOLEAN
    BY <1>3 DEF Edit
  <2>2. \/ call' = None /\ answer' = None /\ effects' = <<>> /\ reply' = None
        \/ UNCHANGED <<call, answer, effects, reply>>
    BY <1>3 DEF Edit
  <2> QED
    BY <2>1, <2>2
<1>4. ASSUME UNCHANGED <<call, effects, edited, reply>>,
             answer' = answer \/ answer' \in {Failed, Result(403, TRUE)}
      PROVE  Typed'
  <2>1. {Failed, Result(403, TRUE)} \subseteq Answers
    BY DEF Failed, Result, Answers
  <2> QED
    BY <1>4, <2>1
<1>5. ASSUME NEW arrives \in BOOLEAN, NEW answered \in BOOLEAN, Perform(arrives, answered)
      PROVE  Typed'
  <2>1. /\ call' = call /\ edited' = edited /\ reply' = reply /\ effects = <<>>
        /\ answer' \in Answers
    BY <1>5, PerformDoes DEF ClickInv, DoneOnce, Answers
  <2>2. effects' = <<>> \/ (effects' = <<Request>> /\ Request \in Effects)
    <3>1. Allowed => Request \in Effects
      BY <1>5, PerformDoes, RequestAllowed DEF ClickInv
    <3>2. effects' = effects \/ (Allowed /\ effects' = Append(effects, Request))
      BY <1>5, PerformDoes
    <3> QED
      BY <2>1, <3>1, <3>2
  <2>3. \A i \in DOMAIN effects' : effects'[i] \in Effects
    BY <2>2
  <2> QED
    BY <2>1, <2>3
<1>6. CASE Reply
  <2>1. /\ call' = call /\ answer' = answer /\ effects' = effects /\ edited' = edited
        /\ reply' = [kind |-> botReply(answer), cust |-> fields.cust, amount |-> fields.amount,
                     sure |-> ~edited /\ answer.status # 0]
    BY <1>6 DEF Reply, Say
  <2>2. botReply(answer) \in {"done", "denied", "failed"}
    BY DEF botReply
  <2>3. fields.cust \in CustTexts /\ fields.amount \in AmountTexts
    BY DEF ClickInv, UnderWay, Fields
  <2>4. (~edited /\ answer.status # 0) \in BOOLEAN
    OBVIOUS
  <2>5. reply' \in Replies
    BY <2>1, <2>2, <2>3, <2>4 DEF Replies
  <2> QED
    BY <2>1, <2>5
<1>7. CASE RestartToolServer
  BY <1>1, <1>4, <1>7 DEF RestartToolServer, pageVars
<1> QED
  BY <1>1, <1>2, <1>3, <1>4, <1>5, <1>6, <1>7
     DEF Next, Register, Hook, NoTool, GiveUp, Fail, vars, serverVars, pageVars

Inv == Served /\ ClickInv /\ ScopeFitsWhateverIsTyped /\ Typed

LEMMA InvNext ==
    ASSUME Deployed
    PROVE  Inv /\ [Next]_vars => Inv'
<1> SUFFICES ASSUME Served, ClickInv, ScopeFitsWhateverIsTyped, Typed, [Next]_vars
             PROVE  Inv'
  BY DEF Inv
<1>1. Served'
  BY DeployedApart, ServedStep
<1>2. ClickInv'
  BY UnderWayStep, DoneOnceStep, AnsweredStep, ShownStep DEF ClickInv
<1>3. ScopeFitsWhateverIsTyped'
  BY RefusedStep
<1>4. Typed'
  BY TypedStep
<1> QED
  BY <1>1, <1>2, <1>3, <1>4 DEF Inv

(* The inductive invariant holds of every reachable state, for the deployed  *)
(* document.                                                                 *)
THEOREM Invariant ==
    ASSUME Deployed
    PROVE  Spec => []Inv
<1>1. Init => Inv
  BY ServedInit, ClickInit, TypedInit DEF Inv, Init, ScopeFitsWhateverIsTyped
<1> QED
  BY <1>1, InvNext, PTL DEF Spec

(* TypeOK (the page, acme-chat and the routes of the resource API): whatever *)
(* is typed, the resource API is never asked for a customer nobody typed,    *)
(* but for one called "orders".                                              *)
THEOREM TypeCorrect ==
    ASSUME Deployed
    PROVE  Spec => []TypeOK
<1>1. Inv => TypeOK
  BY DEF Inv, Served, ClickInv, UnderWay, Typed, TypeOK, Calls, Answers, Replies
<1> QED
  BY <1>1, Invariant, PTL

(* ScopeFitsWhateverIsTyped (TOOL_SCOPES, makeHandler, ServeMux and          *)
(* requireScope): no text in the field Customer leads a tool to a route that *)
(* demands another scope than the plugin gave.                               *)
THEOREM ScopeFits ==
    ASSUME Deployed
    PROVE  Spec => []ScopeFitsWhateverIsTyped
<1>1. Inv => ScopeFitsWhateverIsTyped
  BY DEF Inv
<1> QED
  BY <1>1, Invariant, PTL

(* ToolsAsThePluginKnowsThem (TOOL_SCOPES, toolName and the page): once      *)
(* RegisterFromOAS is done, the tools have the four names the plugin and the *)
(* page know, and the one of each name does its operation.                   *)
THEOREM ToolsKnown ==
    ASSUME Deployed
    PROVE  Spec => []ToolsAsThePluginKnowsThem
<1>1. ASSUME Served, todo = {}, document = AcmeApi
      PROVE  DOMAIN tools = {NameOf[t] : t \in Tools}
  <2>1. DOMAIN tools = {toolName(o) : o \in {Lookup, Update, Orders, Refund}}
    BY <1>1, AcmeApiIs DEF Served
  <2>2. DOMAIN tools = {toolName(Lookup), toolName(Update), toolName(Orders), toolName(Refund)}
    BY <2>1
  <2> QED
    BY <2>2, NamesOfTools, ToolsAre
<1>2. ASSUME Served, todo = {}, document = AcmeApi,
             NEW t \in Tools, NEW c \in CustTexts, Plain(c)
      PROVE  LET args == handleToolArgs([tool |-> t, cust |-> c, amount |-> "10"])
                 did  == Upstream(tools[NameOf[t]], args)
             IN  did # None /\ did.op = OperationOf[t]
  <2>1. PICK x : x = [tool |-> t, cust |-> c, amount |-> "10"]
    OBVIOUS
  <2>2. Asked(x) /\ x.tool = t /\ x.cust = c
    BY <2>1 DEF Asked, AmountTexts
  <2>3. PICK o \in document : toolName(o) = NameOf[t] /\ tools[NameOf[t]] = buildToolFor(o)
    <3>1. NameOf[t] \in DOMAIN tools
      BY <1>1, <1>2
    <3> QED
      BY <1>2, <3>1 DEF Served, EveryOperationItsTool
  <2>4. PICK did : did = Upstream(buildToolFor(o), handleToolArgs(x))
    OBVIOUS
  <2>5. did = SaysOf(x)
    BY <1>2, <2>2, <2>3, <2>4, RequestOfCall, Zenon
  <2>6. did.op = OperationOf[t]
    BY <2>2, <2>5 DEF SaysOf, Says, Did
  <2>7. did # None
    BY <2>2, <2>5, SaysIs
  <2> QED
    BY <2>1, <2>3, <2>4, <2>6, <2>7, Zenon
<1>3. Inv => ToolsAsThePluginKnowsThem
  BY <1>1, <1>2 DEF Inv, ToolsAsThePluginKnowsThem
<1> QED
  BY <1>3, Invariant, PTL

(* ArgumentsFitTheSchema (handleTool and buildToolFor): the arguments filled *)
(* in by hand are those the schema of the tool requires, and no others.      *)
THEOREM ArgumentsFit ==
    ASSUME Deployed
    PROVE  Spec => []ArgumentsFitTheSchema
<1>1. ASSUME Inv, stage = "server", todo = {}, NameOf[call.tool] \in DOMAIN tools
      PROVE  /\ tools[NameOf[call.tool]].required \subseteq DOMAIN handleToolArgs(call)
             /\ DOMAIN handleToolArgs(call) \subseteq tools[NameOf[call.tool]].props
  <2>1. call \in Calls /\ call.tool \in Tools /\ document \in {AcmeApi, Anonymous(AcmeApi)}
    BY <1>1 DEF Inv, ClickInv, UnderWay, Served, Deployed, Calls
  <2>2. PICK o \in document : /\ toolName(o) = NameOf[call.tool]
                              /\ tools[NameOf[call.tool]] = buildToolFor(o)
    BY <1>1 DEF Inv, Served, EveryOperationItsTool
  <2>3. PICK args : args = handleToolArgs(call)
    OBVIOUS
  <2>4. PICK t : t = buildToolFor(o)
    OBVIOUS
  <2>5. t.required = DOMAIN args /\ t.props = DOMAIN args
    BY <2>1, <2>2, <2>3, <2>4, ToolOfName, SchemaFits, Zenon
  <2> QED
    BY <2>2, <2>3, <2>4, <2>5
<1>2. Inv => ArgumentsFitTheSchema
  BY <1>1 DEF ArgumentsFitTheSchema
<1> QED
  BY <1>2, Invariant, PTL

(* ClickDoesWhatItSays (the page, handleTool, makeHandler and the routes of  *)
(* the resource API): one click does at most one thing, and to a proper id   *)
(* what the chip says, whatever is lost, restarted or edited on the way.     *)
THEOREM ClickDoes ==
    ASSUME Deployed
    PROVE  Spec => []ClickDoesWhatItSays
<1>1. Inv => ClickDoesWhatItSays
  <2> SUFFICES ASSUME DoneOnce
               PROVE  ClickDoesWhatItSays
    BY DEF Inv, ClickInv
  <2>1. CASE effects = <<>>
    BY <2>1 DEF ClickDoesWhatItSays
  <2>2. CASE effects = <<effects[1]>> /\ (Plain(call.cust) => effects[1] = SaysOf(call))
    <3>1. Len(effects) = 1 /\ DOMAIN effects = {1}
      BY <2>2
    <3> QED
      BY <2>2, <3>1 DEF ClickDoesWhatItSays, SaysOf
  <2> QED
    BY <2>1, <2>2 DEF DoneOnce
<1> QED
  BY <1>1, Invariant, PTL

(* SaysWhatItDidUnlessEdited (botReply on the page): "Done" is true of the   *)
(* last click if the fields were left alone, the tool server had an answer   *)
(* and the texts are a proper id and a plain number.                         *)
THEOREM SaysWhatItDid ==
    ASSUME Deployed
    PROVE  Spec => []SaysWhatItDidUnlessEdited
<1>1. ASSUME ClickInv, SaysSo, reply.sure, Plain(reply.cust),
             Meant[reply.amount] = parseFloat[reply.amount]
      PROVE  effects = <<Claim>>
  <2>1. /\ reply.cust = call.cust /\ reply.amount = call.amount
        /\ effects # <<>>
    BY <1>1 DEF ClickInv, Shown
  <2>2. effects = <<effects[1]>> /\ effects[1] = SaysOf(call)
    BY <1>1, <2>1 DEF ClickInv, DoneOnce
  <2>3. SaysOf(call) = Claim
    BY <1>1, <2>1 DEF SaysOf, Claim
  <2> QED
    BY <2>2, <2>3
<1>2. Inv => SaysWhatItDidUnlessEdited
  BY <1>1 DEF Inv, SaysWhatItDidUnlessEdited
<1> QED
  BY <1>2, Invariant, PTL
=============================================================================
