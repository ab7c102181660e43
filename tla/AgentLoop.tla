------------------------------ MODULE AgentLoop ------------------------------
(***************************************************************************)
(* agent.py: one run of the agent against an MCP server behind the gateway *)
(* and a language model.  The agent is sequential; what makes it hard is   *)
(* the other side: the gateway refuses calls (403, 429), the MCP server    *)
(* restarts and forgets the one session the agent ever opens, a request    *)
(* fails after the tool has run, an answer comes without its content.      *)
(*                                                                         *)
(* A request and its answer are one step; the restart of the server may    *)
(* come between any two.                                                   *)
(***************************************************************************)
EXTENDS Naturals, Sequences

CONSTANTS
    MAX_TURNS,     \* the agent's cap on turns (6)
    MaxCalls       \* bound: tool calls the model makes in one turn

ASSUME AgentAssumption ==
    /\ MAX_TURNS \in Nat \ {0}
    /\ MaxCalls \in Nat \ {0}

VARIABLES
    mcp_only,      \* AI_STUDIO_* is not fully set: one direct call, no model
    pc,            \* "initialize", "notify", "list", "ask", "call", "stopped"
    ending,        \* how the run stopped
    session,       \* the session at the MCP server: "none", "opened", "ready"
    turn,          \* calls of the model so far
    asked,         \* tool calls of the model's last message
    answered,      \* those of them the agent is done with
    messages,      \* what the model has been told and has said
    executed       \* executed[i]: how often the server ran tool call i

agentVars == <<mcp_only, pc, ending, turn, asked, answered, messages>>
vars == <<agentVars, session, executed>>

(* A tool call is named by its turn and its place there. *)
CallIds == (0..MAX_TURNS) \X (1..MaxCalls)
Current == <<turn, answered + 1>>

Endings == {"none", "answer", "max turns", "direct", "no tools", "exception"}

(* What the model is told of a tool call: a result, {} or an error. *)
Told == {"result", "empty", "error"}

-----------------------------------------------------------------------------
Init ==
    /\ mcp_only \in BOOLEAN
    /\ pc = "initialize" /\ ending = "none" /\ session = "none"
    /\ turn = 0 /\ asked = 0 /\ answered = 0
    /\ messages = <<>>
    /\ executed = [i \in CallIds |-> 0]

Stop(how) == pc' = "stopped" /\ ending' = how

(* An exception nobody catches ends the run. *)
Raise == Stop("exception") /\ UNCHANGED <<mcp_only, turn, asked, answered, messages>>

-----------------------------------------------------------------------------
(* _handshake, first request; the answer carries the session id. *)
Initialize ==
    /\ pc = "initialize"
    /\ session' = "opened"
    /\ pc' = "notify"
    /\ UNCHANGED <<mcp_only, ending, turn, asked, answered, messages, executed>>

(* Refused, failed, or answered without a session id - opened or not. *)
InitializeFails ==
    /\ pc = "initialize"
    /\ session' \in {session, "opened"}
    /\ Raise
    /\ UNCHANGED executed

(* Defect variant of Notify: the notification is not sent. *)
NotifyNothing ==
    /\ pc = "notify"
    /\ session # "none"
    /\ pc' = "list"
    /\ UNCHANGED <<mcp_only, ending, session, turn, asked, answered, messages, executed>>

(* _handshake, second request: notifications/initialized. *)
Notify ==
    /\ pc = "notify"
    /\ session # "none"
    /\ session' = "ready"
    /\ pc' = "list"
    /\ UNCHANGED <<mcp_only, ending, turn, asked, answered, messages, executed>>

(* run: tools/list, and which way to go on.  A list may be empty, and a 2xx  *)
(* without a body or a result, whoever sent it, is an empty list.            *)
Discover ==
    /\ pc = "list"
    /\ IF mcp_only
         THEN \/ Stop("no tools") /\ UNCHANGED asked
              \/ session = "ready" /\ pc' = "call" /\ asked' = 1 /\ UNCHANGED ending
         ELSE pc' = "ask" /\ UNCHANGED <<ending, asked>>
    /\ UNCHANGED <<mcp_only, session, turn, answered, messages, executed>>

(* Up to here, every error of a request is an exception: a 403 or 429 of the *)
(* gateway, a 404 for a session that is gone, a transport failure.           *)
SetupFails ==
    /\ pc \in {"notify", "list"}
    /\ session' \in IF pc = "notify" /\ session = "opened" THEN {"opened", "ready"}
                    ELSE {session}
    /\ Raise
    /\ UNCHANGED executed

-----------------------------------------------------------------------------
(* Defect variant of Ask: only the last message is kept, and the turn is not counted. *)
AskUncounted(n) ==
    /\ pc = "ask"
    /\ turn < MAX_TURNS
    /\ turn' = turn
    /\ messages' = <<[role |-> "assistant", calls |-> n]>>
    /\ asked' = n
    /\ answered' = 0
    /\ IF n = 0 THEN Stop("answer") ELSE pc' = "call" /\ UNCHANGED ending
    /\ UNCHANGED <<mcp_only, session, executed>>

(* Defect variant of Ask: one turn too many. *)
AskOnceMore(n) ==
    /\ pc = "ask"
    /\ turn <= MAX_TURNS
    /\ turn' = turn + 1
    /\ messages' = Append(messages, [role |-> "assistant", calls |-> n])
    /\ asked' = n
    /\ answered' = 0
    /\ IF n = 0 THEN Stop("answer") ELSE pc' = "call" /\ UNCHANGED ending
    /\ UNCHANGED <<mcp_only, session, executed>>

(* One turn: the model answers, or asks for n tool calls. *)
Ask(n) ==
    /\ pc = "ask"
    /\ turn < MAX_TURNS
    /\ turn' = turn + 1
    /\ messages' = Append(messages, [role |-> "assistant", calls |-> n])
    /\ asked' = n
    /\ answered' = 0
    /\ IF n = 0 THEN Stop("answer") ELSE pc' = "call" /\ UNCHANGED ending
    /\ UNCHANGED <<mcp_only, session, executed>>

AskFails ==
    /\ pc = "ask"
    /\ turn < MAX_TURNS
    /\ Raise
    /\ UNCHANGED <<session, executed>>

MaxTurns ==
    /\ pc = "ask"
    /\ turn = MAX_TURNS
    /\ Stop("max turns")
    /\ UNCHANGED <<mcp_only, session, turn, asked, answered, messages, executed>>

-----------------------------------------------------------------------------
(* Defect variant of Tell: an error is only printed. *)
TellSuccess(what) ==
    /\ answered' = answered + 1
    /\ messages' = IF mcp_only \/ what = "error" THEN messages
                   ELSE Append(messages, [role |-> "tool", id |-> Current, what |-> what])
    /\ IF mcp_only THEN Stop("direct")
       ELSE pc' = (IF answered + 1 = asked THEN "ask" ELSE "call") /\ UNCHANGED ending
    /\ UNCHANGED <<mcp_only, turn, asked>>

(* The call is over: its result or its error goes to the model (or, without  *)
(* one, to the terminal, and that is all).                                   *)
Tell(what) ==
    /\ answered' = answered + 1
    /\ messages' = IF mcp_only THEN messages
                   ELSE Append(messages, [role |-> "tool", id |-> Current, what |-> what])
    /\ IF mcp_only THEN Stop("direct")
       ELSE pc' = (IF answered + 1 = asked THEN "ask" ELSE "call") /\ UNCHANGED ending
    /\ UNCHANGED <<mcp_only, turn, asked>>

Run == executed' = [executed EXCEPT ![Current] = @ + 1]

(* The request reaches a server that knows the session, and runs, or not. *)
RunOrNot == (Run /\ session = "ready") \/ UNCHANGED executed

(* A result - which may say that the tool did not succeed. *)
ToolOk ==
    /\ pc = "call"
    /\ session = "ready"
    /\ Run
    /\ Tell("result")
    /\ UNCHANGED session

(* A 2xx without a body, or whose JSON or first "data:" line has no result,  *)
(* is the result {} to call - whether the tool ran or not.                   *)
ToolEmpty ==
    /\ pc = "call"
    /\ RunOrNot
    /\ Tell("empty")
    /\ UNCHANGED session

(* Defect variant of ToolError: a call that failed is tried once more. *)
ToolErrorRetried ==
    /\ pc = "call"
    /\ executed' = [executed EXCEPT ![Current] = @ + 1]
    /\ \/ Tell("error")
       \/ executed[Current] = 0 /\ UNCHANGED agentVars
    /\ UNCHANGED session

(* Defect variant of ToolError: the error member of the answer is overlooked. *)
ToolErrorAsResult ==
    /\ pc = "call"
    /\ RunOrNot
    /\ Tell("result")
    /\ UNCHANGED session

(* HTTPStatusError or RuntimeError: refused by the gateway, no such session, *)
(* a JSON-RPC error, an answer nobody can parse - after the tool ran or not. *)
ToolError ==
    /\ pc = "call"
    /\ RunOrNot
    /\ Tell("error")
    /\ UNCHANGED session

(* Anything else (a timeout, a refused or broken connection, an SSE event    *)
(* that is not JSON) is not caught - after the tool ran or not.              *)
ToolRaises ==
    /\ pc = "call"
    /\ RunOrNot
    /\ Raise
    /\ UNCHANGED session

(* The MCP server restarts; the agent keeps the session id. *)
RestartServer ==
    /\ pc # "stopped"
    /\ session # "none"
    /\ session' = "none"
    /\ UNCHANGED <<agentVars, executed>>

-----------------------------------------------------------------------------
AgentNext ==
    \/ Initialize
    \/ InitializeFails
    \/ Notify
    \/ Discover
    \/ SetupFails
    \/ \E n \in 0..MaxCalls : Ask(n)
    \/ AskFails
    \/ MaxTurns
    \/ ToolOk
    \/ ToolEmpty
    \/ ToolError
    \/ ToolRaises

Next == AgentNext \/ RestartServer

Spec == Init /\ [][Next]_vars

(* Every request of the agent ends: after 30 seconds without a byte from the *)
(* gateway, after the client's own timeout from the model.  (An answer that  *)
(* trickles in for ever is left out.)                                        *)
FairSpec == Spec /\ WF_vars(AgentNext)

-----------------------------------------------------------------------------
Message ==
    [role : {"assistant"}, calls : 0..MaxCalls]
        \cup [role : {"tool"}, id : CallIds, what : Told]

TypeOK ==
    /\ mcp_only \in BOOLEAN
    /\ pc \in {"initialize", "notify", "list", "ask", "call", "stopped"}
    /\ ending \in Endings
    /\ session \in {"none", "opened", "ready"}
    /\ turn \in 0..MAX_TURNS
    /\ asked \in 0..MaxCalls /\ answered \in 0..MaxCalls
    /\ messages \in Seq(Message)
    /\ executed \in [CallIds -> Nat]
    /\ pc # "stopped" <=> ending = "none"

Requested == {k \in DOMAIN messages : messages[k].role = "assistant"}

(* The model is only asked when each of its tool calls has its answer, one   *)
(* and in order, right behind the message that asked for it - whatever       *)
(* failed in between; the model's API refuses any other conversation.        *)
ConversationComplete ==
    pc = "ask" => \A k \in Requested : \A i \in 1..messages[k].calls :
        /\ k + i \in DOMAIN messages
        /\ messages[k + i].role = "tool"
        /\ messages[k + i].id[2] = i

(* A result with content is told only of a call that ran, and ran once,      *)
(* though a result and an error may both come as a 200.  An error, and the   *)
(* {} of an empty answer, say nothing of whether the call ran.               *)
ReportsTrue ==
    \A k \in DOMAIN messages : messages[k].role = "tool" /\ messages[k].what = "result" =>
        executed[messages[k].id] = 1

(* No tool call runs twice; the one to be made has not run yet.              *)
NothingRunsTwice ==
    \A i \in CallIds :
        /\ executed[i] <= 1
        /\ pc = "call" /\ i = Current => executed[i] = 0

(* Past the handshake the session is initialised or gone, so that no call    *)
(* ever gets the error of a session that was skipped ahead of, which comes   *)
(* as a 200.                                                                 *)
HandshakeFirst == pc \in {"list", "ask", "call"} => session # "opened"

(* The run stops, whatever the model and the tools do. *)
Terminates == <>(pc = "stopped")
=============================================================================
