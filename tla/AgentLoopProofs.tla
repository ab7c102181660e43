--------------------------- MODULE AgentLoopProofs ---------------------------
(***************************************************************************)
(* Proofs about AgentLoop, for every number of turns and every number of   *)
(* tool calls the model may ask for in a turn: the invariants that         *)
(* MCAgentLoop_loop.cfg checks for three turns of up to two calls.         *)
(***************************************************************************)
EXTENDS AgentLoop, SequenceTheorems, TLAPS

-----------------------------------------------------------------------------
(* The inductive invariant. *)

(* How far the run is: before the model is asked nothing has been counted,   *)
(* without a model nothing is ever said, and a call is one that was asked    *)
(* for.                                                                      *)
Progress ==
    /\ pc \in {"initialize", "notify", "list"} => turn = 0 /\ asked = 0 /\ answered = 0
    /\ turn = 0 => messages = <<>>
    /\ mcp_only => turn = 0 /\ pc # "ask"
    /\ pc = "call" => answered < asked
    /\ pc = "call" /\ mcp_only => asked = 1
    /\ pc = "call" /\ ~mcp_only => turn # 0

(* While the run goes on the server has only run calls that the agent is     *)
(* done with.                                                                *)
Past(i) == i[1] < turn \/ (i[1] = turn /\ i[2] <= answered)
RunInOrder == pc # "stopped" => \A i \in CallIds : executed[i] # 0 => Past(i)

(* The k-th message has the answers to its calls 1 to n right behind it.     *)
Answered(k, n) ==
    \A i \in 1..n :
        /\ k + i \in DOMAIN messages
        /\ messages[k + i].role = "tool"
        /\ messages[k + i].id[2] = i

(* In the middle of a turn, the model's last message is followed by the      *)
(* answers so far and nothing else; every earlier one is complete.           *)
ConversationSoFar ==
    pc = "call" /\ ~mcp_only =>
        LET last == Len(messages) - answered IN
        /\ last \in Requested
        /\ messages[last].calls = asked
        /\ Answered(last, answered)
        /\ \A k \in Requested : k = last \/ (k < last /\ Answered(k, messages[k].calls))

IInv ==
    /\ TypeOK
    /\ Progress
    /\ RunInOrder
    /\ ConversationSoFar
    /\ ConversationComplete
    /\ ReportsTrue
    /\ NothingRunsTwice
    /\ HandshakeFirst

-----------------------------------------------------------------------------
(* Lemmas about messages and call ids. *)

LEMMA MessageKinds ==
    /\ \A n \in 0..MaxCalls : [role |-> "assistant", calls |-> n] \in Message
    /\ \A i \in CallIds, what \in Told : [role |-> "tool", id |-> i, what |-> what] \in Message
    /\ \A m \in Message :
          \/ m.role = "assistant" /\ m.calls \in 0..MaxCalls
          \/ m.role = "tool" /\ m.id \in CallIds /\ m.what \in Told
BY DEF Message

LEMMA CallIdParts ==
    /\ \A i \in CallIds : i[1] \in 0..MAX_TURNS /\ i[2] \in 1..MaxCalls /\ i = <<i[1], i[2]>>
    /\ \A s \in 0..MAX_TURNS, p \in 1..MaxCalls :
          <<s, p>> \in CallIds /\ <<s, p>>[1] = s /\ <<s, p>>[2] = p
BY DEF CallIds

LEMMA Bounds == MAX_TURNS \in Nat \ {0} /\ MaxCalls \in Nat \ {0} /\ 1 \in 0..MaxCalls
BY AgentAssumption DEF AgentAssumption

(* The conversation after one more message.                                  *)
LEMMA OneMoreMessage ==
    ASSUME messages \in Seq(Message), NEW m \in Message, messages' = Append(messages, m)
    PROVE  /\ messages' \in Seq(Message)
           /\ Len(messages) \in Nat
           /\ Len(messages') = Len(messages) + 1
           /\ DOMAIN messages = 1..Len(messages)
           /\ DOMAIN messages' = 1..(Len(messages) + 1)
           /\ \A k \in DOMAIN messages : messages'[k] = messages[k]
           /\ messages'[Len(messages) + 1] = m
<1>1. messages' \in Seq(Message) /\ Len(messages') = Len(messages) + 1
  BY AppendProperties
<1>2. \A k \in 1..Len(messages) : messages'[k] = messages[k]
  BY AppendProperties
<1>3. messages'[Len(messages) + 1] = m
  BY AppendProperties
<1> QED
  BY <1>1, <1>2, <1>3, LenProperties

(* The call to be made is one of those the model may ask for.                *)
LEMMA CurrentCall ==
    ASSUME TypeOK, Progress, pc = "call"
    PROVE  /\ Current \in CallIds
           /\ Current[1] = turn
           /\ Current[2] = answered + 1
<1>1. answered + 1 \in 1..MaxCalls
  BY Bounds DEF TypeOK, Progress
<1> QED
  BY <1>1, CallIdParts DEF TypeOK, Current

(* A request made for it lets the server run it once or not at all.          *)
LEMMA RunsCurrent ==
    ASSUME TypeOK, Progress, NothingRunsTwice, pc = "call", Run \/ UNCHANGED executed
    PROVE  /\ executed' \in [CallIds -> Nat]
           /\ executed[Current] = 0
           /\ Run => executed'[Current] = 1
           /\ executed'[Current] \in {0, 1}
           /\ \A i \in CallIds : i # Current => executed'[i] = executed[i]
<1>1. executed[Current] = 0
  BY CurrentCall DEF NothingRunsTwice
<1> QED
  BY <1>1, CurrentCall DEF Run, TypeOK

(* What a call leaves behind, whether it came to a result or to an error.    *)
LEMMA CallIsOver ==
    ASSUME TypeOK, Progress, pc = "call", NEW what \in Told, Tell(what)
    PROVE  /\ UNCHANGED <<mcp_only, turn, asked>>
           /\ answered' = answered + 1
           /\ answered' \in 0..MaxCalls
           /\ answered + 1 # asked => answered' < asked'
           /\ mcp_only =>
                 /\ pc' = "stopped"
                 /\ ending' = "direct"
                 /\ messages' = messages
           /\ ~mcp_only =>
                 /\ pc' = IF answered + 1 = asked THEN "ask" ELSE "call"
                 /\ ending' = ending
                 /\ messages' = Append(messages, [role |-> "tool", id |-> Current, what |-> what])
<1>1. answered + 1 \in 0..MaxCalls /\ (answered + 1 # asked => answered + 1 < asked)
  BY Bounds DEF TypeOK, Progress
<1>2. CASE mcp_only
  BY <1>1, <1>2 DEF Tell, Stop
<1>3. CASE ~mcp_only
  BY <1>1, <1>3 DEF Tell, Stop
<1> QED
  BY <1>2, <1>3

(* How the run goes on after tools/list, and after an answer of the model.   *)
LEMMA ListTold ==
    ASSUME Discover
    PROVE  /\ UNCHANGED <<mcp_only, session, turn, answered, messages, executed>>
           /\ pc = "list"
           /\ mcp_only =>
                 \/ pc' = "stopped" /\ ending' = "no tools" /\ asked' = asked
                 \/ pc' = "call" /\ ending' = ending /\ asked' = 1
           /\ ~mcp_only => pc' = "ask" /\ ending' = ending /\ asked' = asked
<1>1. CASE mcp_only
  BY <1>1 DEF Discover, Stop
<1>2. CASE ~mcp_only
  BY <1>2 DEF Discover, Stop
<1> QED
  BY <1>1, <1>2 DEF Discover

LEMMA ModelAnswers ==
    ASSUME TypeOK, NEW n \in 0..MaxCalls, Ask(n)
    PROVE  /\ UNCHANGED <<mcp_only, session, executed>>
           /\ pc = "ask" /\ turn \in Nat /\ turn + 1 \in 1..MAX_TURNS
           /\ turn' = turn + 1 /\ turn' \in 0..MAX_TURNS /\ turn' # 0
           /\ asked' = n /\ asked' \in 0..MaxCalls
           /\ answered' = 0 /\ answered' \in 0..MaxCalls
           /\ pc' = "call" => answered' < asked'
           /\ messages' = Append(messages, [role |-> "assistant", calls |-> n])
           /\ n = 0 => pc' = "stopped" /\ ending' = "answer"
           /\ n # 0 => pc' = "call" /\ ending' = ending
<1>1. turn \in Nat /\ turn + 1 \in 1..MAX_TURNS
  BY Bounds DEF Ask, TypeOK
<1>2. turn' = turn + 1 /\ turn' \in 0..MAX_TURNS /\ turn' # 0
  BY <1>1 DEF Ask
<1>3. 0 \in 0..MaxCalls /\ (n # 0 => 0 < n)
  BY Bounds
<1>4. /\ n = 0 => pc' = "stopped" /\ ending' = "answer"
      /\ n # 0 => pc' = "call" /\ ending' = ending
  BY DEF Ask, Stop
<1>5. pc' = "call" => answered' < asked'
  BY <1>3, <1>4 DEF Ask
<1> QED
  BY <1>1, <1>2, <1>3, <1>4, <1>5 DEF Ask

-----------------------------------------------------------------------------
(* One lemma per conjunct. *)

LEMMA TypeStep == ASSUME IInv, [Next]_vars PROVE TypeOK'
<1> USE Bounds DEF IInv, TypeOK, Endings, Stop, Raise
<1>1. CASE UNCHANGED vars
  BY <1>1 DEF vars, agentVars
<1>2. CASE Initialize
  BY <1>2 DEF Initialize
<1>3. CASE InitializeFails
  BY <1>3 DEF InitializeFails
<1>4. CASE Notify
  BY <1>4 DEF Notify
<1>5. CASE Discover
  <2>1. CASE mcp_only
    BY <1>5, <2>1, ListTold
  <2>2. CASE ~mcp_only
    BY <1>5, <2>2, ListTold
  <2> QED
    BY <2>1, <2>2
<1>6. CASE SetupFails
  BY <1>6 DEF SetupFails
<1>7. ASSUME NEW n \in 0..MaxCalls, Ask(n)
      PROVE  TypeOK'
  <2>1. messages' \in Seq(Message)
    BY <1>7, MessageKinds, OneMoreMessage DEF Ask
  <2> QED
    <3>1. UNCHANGED <<mcp_only, session, executed>>
      BY <1>7, ModelAnswers
    <3>2. turn' \in 0..MAX_TURNS /\ asked' \in 0..MaxCalls /\ answered' \in 0..MaxCalls
      BY <1>7, ModelAnswers
    <3>3. /\ pc' \in {"call", "stopped"} /\ ending' \in Endings
          /\ pc' # "stopped" <=> ending' = "none"
      BY <1>7, ModelAnswers
    <3> QED
      BY <2>1, <3>1, <3>2, <3>3
<1>8. CASE AskFails
  BY <1>8 DEF AskFails
<1>9. CASE MaxTurns
  BY <1>9 DEF MaxTurns
<1>10. ASSUME NEW what \in Told, Tell(what), Run \/ UNCHANGED executed, UNCHANGED session, pc = "call"
       PROVE  TypeOK'
  <2>1. executed' \in [CallIds -> Nat]
    BY <1>10, RunsCurrent
  <2>2. CASE mcp_only
    BY <1>10, <2>1, <2>2, CallIsOver
  <2>3. CASE ~mcp_only
    <3>1. messages' \in Seq(Message)
      BY <1>10, <2>3, CallIsOver, CurrentCall, MessageKinds, OneMoreMessage
    <3> QED
      BY <1>10, <2>1, <2>3, <3>1, CallIsOver
  <2> QED
    BY <2>2, <2>3
<1>11. CASE ToolRaises
  <2>1. executed' \in [CallIds -> Nat]
    BY <1>11, RunsCurrent DEF ToolRaises, RunOrNot
  <2> QED
    BY <1>11, <2>1 DEF ToolRaises
<1>12. CASE RestartServer
  BY <1>12 DEF RestartServer, agentVars
<1> QED
  BY <1>1, <1>2, <1>3, <1>4, <1>5, <1>6, <1>7, <1>8, <1>9, <1>10, <1>11, <1>12
     DEF Next, AgentNext, ToolOk, ToolEmpty, ToolError, RunOrNot, Told

LEMMA ProgressStep == ASSUME IInv, [Next]_vars PROVE Progress'
<1> USE Bounds DEF IInv, TypeOK, Progress, Stop, Raise
<1>1. CASE UNCHANGED vars
  BY <1>1 DEF vars, agentVars
<1>2. CASE Initialize \/ InitializeFails \/ Notify \/ SetupFails
  BY <1>2 DEF Initialize, InitializeFails, Notify, SetupFails
<1>3. CASE Discover
  <2>1. CASE mcp_only
    <3>1. mcp_only' /\ turn' = 0 /\ answered' = 0 /\ messages' = <<>>
      BY <1>3, <2>1, ListTold
    <3>2. pc' \in {"call", "stopped"}
      BY <1>3, <2>1, ListTold
    <3>3. pc' = "call" => asked' = 1
      BY <1>3, <2>1, ListTold
    <3> QED
      BY <3>1, <3>2, <3>3
  <2>2. CASE ~mcp_only
    BY <1>3, <2>2, ListTold
  <2> QED
    BY <2>1, <2>2
<1>4. ASSUME NEW n \in 0..MaxCalls, Ask(n)
      PROVE  Progress'
  <2>1. ~mcp_only'
    BY <1>4, ModelAnswers
  <2>2. turn' # 0
    BY <1>4, ModelAnswers
  <2>3. pc' \in {"call", "stopped"}
    BY <1>4, ModelAnswers
  <2>4. pc' = "call" => answered' < asked'
    BY <1>4, ModelAnswers
  <2> QED
    BY <2>1, <2>2, <2>3, <2>4
<1>5. CASE AskFails \/ MaxTurns
  <2>1. pc' = "stopped" /\ UNCHANGED <<mcp_only, turn, asked, answered, messages>>
    BY <1>5 DEF AskFails, MaxTurns
  <2> QED
    BY <2>1
<1>6. ASSUME NEW what \in Told, Tell(what), pc = "call"
      PROVE  Progress'
  <2>1. CASE mcp_only
    BY <1>6, <2>1, CallIsOver
  <2>2. CASE ~mcp_only
    <3>1. ~mcp_only' /\ turn' # 0
      BY <1>6, <2>2, CallIsOver
    <3>2. pc' \in {"call", "ask"}
      BY <1>6, <2>2, CallIsOver
    <3>3. pc' = "call" => answered' < asked'
      BY <1>6, <2>2, CallIsOver
    <3> QED
      BY <3>1, <3>2, <3>3
  <2> QED
    BY <2>1, <2>2
<1>7. CASE ToolRaises \/ RestartServer
  BY <1>7 DEF ToolRaises, RestartServer, agentVars
<1> QED
  BY <1>1, <1>2, <1>3, <1>4, <1>5, <1>6, <1>7

     DEF Next, AgentNext, ToolOk, ToolEmpty, ToolError, Told

(* A step of the agent that is neither an answer of the model nor a tool     *)
(* call: nothing is said and nothing runs.                                   *)
Still ==
    /\ mcp_only' = mcp_only
    /\ UNCHANGED <<turn, answered, messages, executed>>
    /\ pc' # "stopped" => pc # "stopped"
    /\ pc' = "call" /\ ~mcp_only => pc = "call" /\ asked' = asked
    /\ pc' = "ask" => pc = "ask" \/ turn = 0

LEMMA StepKinds ==
    ASSUME IInv, [Next]_vars
    PROVE  \/ Still
           \/ \E n \in 0..MaxCalls : Ask(n)
           \/ \E what \in Told : /\ pc = "call"
                                 /\ Tell(what)
                                 /\ Run \/ UNCHANGED executed
                                 /\ what = "result" => Run
           \/ /\ pc = "call" /\ pc' = "stopped"
              /\ Run \/ UNCHANGED executed
              /\ UNCHANGED messages
<1>1. CASE UNCHANGED vars
  <2>1. mcp_only' = mcp_only /\ UNCHANGED <<pc, turn, asked, answered, messages, executed>>
    BY <1>1 DEF vars, agentVars
  <2> QED
    BY <2>1 DEF Still
<1>2. CASE Initialize \/ InitializeFails \/ Notify \/ SetupFails
  BY <1>2 DEF Initialize, InitializeFails, Notify, SetupFails, Raise, Stop, Still
<1>3. CASE Discover
  BY <1>3, ListTold DEF Still, IInv, Progress
<1>4. CASE AskFails \/ MaxTurns
  BY <1>4 DEF AskFails, MaxTurns, Raise, Stop, Still
<1>5. CASE ToolOk
  BY <1>5 DEF ToolOk, Told
<1>6. CASE ToolEmpty \/ ToolError
  <2>1. PICK what \in Told : Tell(what) /\ what # "result"
    BY <1>6 DEF ToolEmpty, ToolError, Told
  <2>2. pc = "call" /\ (Run \/ UNCHANGED executed)
    BY <1>6 DEF ToolEmpty, ToolError, RunOrNot
  <2> QED
    BY <2>1, <2>2
<1>7. CASE ToolRaises
  BY <1>7 DEF ToolRaises, RunOrNot, Raise, Stop
<1>8. CASE RestartServer
  <2>1. mcp_only' = mcp_only /\ UNCHANGED <<pc, turn, asked, answered, messages, executed>>
    BY <1>8 DEF RestartServer, agentVars
  <2> QED
    BY <2>1 DEF Still
<1> QED
  BY <1>1, <1>2, <1>3, <1>4, <1>5, <1>6, <1>7, <1>8 DEF Next, AgentNext

LEMMA OrderStep == ASSUME IInv, [Next]_vars PROVE RunInOrder'
<1> USE DEF IInv, RunInOrder, Past
<1>1. CASE Still
  BY <1>1 DEF Still
<1>2. ASSUME NEW n \in 0..MaxCalls, Ask(n)
      PROVE  RunInOrder'
  <2>1. /\ pc # "stopped" /\ executed' = executed /\ turn' = turn + 1 /\ turn \in Nat
    BY <1>2, ModelAnswers
  <2>2. \A i \in CallIds : i[1] <= turn => i[1] < turn + 1
    BY <2>1, CallIdParts, Bounds
  <2>3. \A i \in CallIds : executed[i] # 0 => i[1] <= turn
    BY <2>1, CallIdParts, Bounds
  <2> QED
    BY <2>1, <2>2, <2>3
<1>3. ASSUME NEW what \in Told, pc = "call", Tell(what), Run \/ UNCHANGED executed
      PROVE  RunInOrder'
  <2>0. answered \in Nat /\ turn \in Nat
    BY Bounds DEF TypeOK
  <2>1. turn' = turn /\ answered' = answered + 1
    BY <1>3, CallIsOver
  <2>2. \A i \in CallIds : i = Current => Past(i)'
    BY <1>3, <2>0, <2>1, CurrentCall
  <2>3. \A i \in CallIds : Past(i) => Past(i)'
    BY <2>0, <2>1, CallIdParts, Bounds
  <2>4. \A i \in CallIds : i # Current => executed'[i] = executed[i]
    BY <1>3, RunsCurrent
  <2> QED
    BY <1>3, <2>2, <2>3, <2>4
<1>4. CASE pc' = "stopped"
  BY <1>4
<1> QED
  BY <1>1, <1>2, <1>3, <1>4, StepKinds

LEMMA RunsTwiceStep == ASSUME IInv, [Next]_vars PROVE NothingRunsTwice'
<1> USE DEF IInv
<1>1. \A i \in CallIds : executed'[i] <= 1
  <2>1. CASE UNCHANGED executed
    BY <2>1 DEF NothingRunsTwice
  <2>2. CASE pc = "call" /\ (Run \/ UNCHANGED executed)
    BY <2>2, RunsCurrent DEF NothingRunsTwice
  <2> QED
    BY <2>1, <2>2, StepKinds DEF Still, Ask
<1>2. ASSUME pc' = "call", NEW i \in CallIds, i = Current'
      PROVE  executed'[i] = 0
  <2>0. turn' \in Nat /\ answered' \in Nat
    BY TypeStep, Bounds DEF TypeOK
  <2>1. i[1] = turn' /\ i[2] = answered' + 1
    BY <1>2 DEF Current
  <2>2. ~ Past(i)'
    <3>1. \A a, b \in Nat : ~ (a < a) /\ ~ (b + 1 <= b)
      OBVIOUS
    <3> QED
      BY <2>0, <2>1, <3>1 DEF Past
  <2> QED
    BY <1>2, <2>2, OrderStep DEF RunInOrder
<1> QED
  BY <1>1, <1>2 DEF NothingRunsTwice

(* What the model was told of a call stays true: the call is behind the      *)
(* agent, and is not run again.                                              *)
LEMMA ReportsStep == ASSUME IInv, [Next]_vars PROVE ReportsTrue'
<1> USE DEF IInv, ReportsTrue
<1>1. ASSUME pc = "call", Run \/ UNCHANGED executed,
             NEW k \in DOMAIN messages, messages[k].role = "tool", messages[k].what = "result"
      PROVE  executed'[messages[k].id] = 1
  <2>1. messages[k] \in Message
    BY LenProperties, ElementOfSeq DEF TypeOK
  <2>2. messages[k].id \in CallIds /\ executed[messages[k].id] = 1
    BY <1>1, <2>1, MessageKinds
  <2> QED
    BY <1>1, <2>2, RunsCurrent
<1>2. CASE UNCHANGED <<messages, executed>>
  BY <1>2
<1>3. CASE pc = "call" /\ (Run \/ UNCHANGED executed) /\ UNCHANGED messages
  BY <1>1, <1>3
<1>4. ASSUME NEW n \in 0..MaxCalls, Ask(n)
      PROVE  ReportsTrue'
  <2> DEFINE m == [role |-> "assistant", calls |-> n]
  <2>1. m \in Message /\ messages' = Append(messages, m) /\ m.role # "tool" /\ executed' = executed
    BY <1>4, MessageKinds, ModelAnswers
  <2> HIDE DEF m
  <2>2. ASSUME NEW k \in DOMAIN messages'
        PROVE  (k \in DOMAIN messages /\ messages'[k] = messages[k]) \/ messages'[k] = m
    BY <2>1, OneMoreMessage DEF TypeOK
  <2> QED
    BY <2>1, <2>2
<1>5. ASSUME NEW what \in Told, pc = "call", Tell(what), Run \/ UNCHANGED executed, what = "result" => Run
      PROVE  ReportsTrue'
  <2>1. CASE mcp_only
    BY <1>1, <1>5, <2>1, CallIsOver
  <2>2. CASE ~mcp_only
    <3> DEFINE m == [role |-> "tool", id |-> Current, what |-> what]
    <3>1. m \in Message /\ messages' = Append(messages, m)
      BY <1>5, <2>2, MessageKinds, CallIsOver, CurrentCall
    <3>2. m.what = "result" => executed'[m.id] = 1
      BY <1>5, RunsCurrent
    <3> HIDE DEF m
    <3>3. ASSUME NEW k \in DOMAIN messages'
          PROVE  (k \in DOMAIN messages /\ messages'[k] = messages[k]) \/ messages'[k] = m
      BY <3>1, OneMoreMessage DEF TypeOK
    <3> QED
      BY <1>1, <1>5, <3>2, <3>3
  <2> QED
    BY <2>1, <2>2
<1> QED
  BY <1>2, <1>3, <1>4, <1>5, StepKinds DEF Still

(* Once past the handshake, the session is the one that was initialised, or  *)
(* gone with a restart: nothing opens another.                               *)
LEMMA HandshakeStep == ASSUME IInv, [Next]_vars PROVE HandshakeFirst'
<1> USE DEF IInv, HandshakeFirst
<1>1. CASE UNCHANGED vars
  BY <1>1 DEF vars, agentVars
<1>2. CASE Initialize \/ InitializeFails \/ SetupFails \/ AskFails \/ MaxTurns \/ ToolRaises
  BY <1>2 DEF Initialize, InitializeFails, SetupFails, AskFails, MaxTurns, ToolRaises, Raise, Stop
<1>3. CASE Notify
  BY <1>3 DEF Notify
<1>4. CASE Discover
  BY <1>4, ListTold
<1>5. ASSUME NEW n \in 0..MaxCalls, Ask(n)
      PROVE  HandshakeFirst'
  BY <1>5, ModelAnswers
<1>6. CASE ToolOk \/ ToolEmpty \/ ToolError
  BY <1>6 DEF ToolOk, ToolEmpty, ToolError
<1>7. CASE RestartServer
  BY <1>7 DEF RestartServer
<1> QED
  BY <1>1, <1>2, <1>3, <1>4, <1>5, <1>6, <1>7 DEF Next, AgentNext

(* What the model asked for is a number of calls; one more message changes   *)
(* nothing that was said before it.                                          *)
LEMMA RequestsAre ==
    ASSUME TypeOK
    PROVE  /\ DOMAIN messages = 1..Len(messages)
           /\ Len(messages) \in Nat
           /\ \A k \in DOMAIN messages : messages[k] \in Message
           /\ \A k \in Requested : /\ k \in DOMAIN messages
                                   /\ messages[k].role = "assistant"
                                   /\ messages[k].calls \in 0..MaxCalls
<1>1. /\ DOMAIN messages = 1..Len(messages)
      /\ Len(messages) \in Nat
      /\ \A k \in DOMAIN messages : messages[k] \in Message
  BY LenProperties, ElementOfSeq DEF TypeOK
<1> QED
  BY <1>1, MessageKinds DEF Requested

LEMMA SaidBefore ==
    ASSUME TypeOK, NEW m \in Message, messages' = Append(messages, m)
    PROVE  /\ \A k \in Requested : k \in Requested' /\ messages'[k].calls = messages[k].calls
           /\ \A k \in Requested' : k \in Requested \/ (k = Len(messages) + 1 /\ m.role = "assistant")
           /\ \A k \in Requested, n \in Nat : Answered(k, n) => Answered(k, n)'
<1>1. /\ DOMAIN messages = 1..Len(messages) /\ Len(messages) \in Nat
      /\ DOMAIN messages' = 1..(Len(messages) + 1)
      /\ \A k \in DOMAIN messages : messages'[k] = messages[k]
      /\ messages'[Len(messages) + 1] = m
  BY OneMoreMessage DEF TypeOK
<1>2. /\ DOMAIN messages \subseteq DOMAIN messages'
      /\ \A k \in DOMAIN messages' : k \in DOMAIN messages \/ k = Len(messages) + 1
  BY <1>1
<1>3. \A k \in Requested : k \in Requested' /\ messages'[k].calls = messages[k].calls
  BY <1>1, <1>2 DEF Requested
<1>4. \A k \in Requested' : k \in Requested \/ (k = Len(messages) + 1 /\ m.role = "assistant")
  BY <1>1, <1>2 DEF Requested
<1>5. ASSUME NEW k \in Requested, NEW n \in Nat, Answered(k, n)
      PROVE  Answered(k, n)'
  <2>1. \A i \in 1..n : k + i \in DOMAIN messages /\ messages'[k + i] = messages[k + i]
    BY <1>1, <1>5 DEF Answered
  <2> QED
    BY <1>2, <1>5, <2>1 DEF Answered
<1> QED
  BY <1>3, <1>4, <1>5

(* The agent's answer to a call goes right behind the answers before it.     *)
LEMMA OneMoreAnswer ==
    ASSUME IInv, NEW what \in Told, pc = "call", Tell(what), ~mcp_only,
           NEW old, old = Len(messages) - answered
    PROVE  /\ old = Len(messages') - answered'
           /\ old \in Requested'
           /\ messages'[old].calls = asked
           /\ Answered(old, answered)'
           /\ \A k \in Requested' : k = old \/ (k < old /\ Answered(k, messages[k].calls)')
<1> DEFINE m == [role |-> "tool", id |-> Current, what |-> what]
<1>1. /\ m \in Message /\ messages' = Append(messages, m)
      /\ m.role = "tool" /\ m.id[2] = answered + 1
      /\ answered' = answered + 1
  BY CurrentCall, CallIsOver, MessageKinds DEF IInv
<1> HIDE DEF m
<1>2. /\ Len(messages) \in Nat /\ Len(messages') = Len(messages) + 1
      /\ DOMAIN messages' = 1..(Len(messages) + 1)
      /\ messages'[Len(messages) + 1] = m
  BY <1>1, OneMoreMessage DEF IInv, TypeOK
<1>3. answered \in Nat
  BY Bounds DEF IInv, TypeOK
<1>4. old \in Int /\ Len(messages') - answered' = old /\ old + answered' = Len(messages) + 1
  BY <1>1, <1>2, <1>3
<1>5. /\ old \in Requested
      /\ messages[old].calls = asked
      /\ Answered(old, answered)
      /\ \A k \in Requested : k = old \/ (k < old /\ Answered(k, messages[k].calls))
  BY DEF IInv, ConversationSoFar
<1>6. old \in Requested' /\ messages'[old].calls = asked
  BY <1>1, <1>5, SaidBefore DEF IInv
<1>7. \A i \in 1..answered :
         /\ old + i \in DOMAIN messages'
         /\ messages'[old + i].role = "tool"
         /\ messages'[old + i].id[2] = i
  BY <1>1, <1>3, <1>5, SaidBefore DEF IInv, Answered
<1>8. ASSUME NEW i \in 1..answered'
      PROVE  /\ old + i \in DOMAIN messages'
             /\ messages'[old + i].role = "tool"
             /\ messages'[old + i].id[2] = i
  <2>1. i \in 1..answered \/ i = answered'
    BY <1>1, <1>3
  <2>2. CASE i = answered'
    <3>1. old + i = Len(messages) + 1 /\ Len(messages) + 1 \in DOMAIN messages'
      BY <1>2, <1>4, <2>2
    <3> QED
      BY <1>1, <1>2, <2>2, <3>1
  <2> QED
    BY <1>7, <2>1, <2>2
<1>9. ASSUME NEW k \in Requested'
      PROVE  k = old \/ (k < old /\ Answered(k, messages[k].calls)')
  <2>1. k \in Requested /\ messages'[k].calls = messages[k].calls /\ messages[k].calls \in Nat
    BY <1>1, SaidBefore, RequestsAre, Bounds DEF IInv
  <2>2. Answered(k, messages[k].calls) => Answered(k, messages[k].calls)'
    BY <1>1, <2>1, SaidBefore DEF IInv, Answered
  <2> QED
    BY <1>5, <2>1, <2>2
<1> QED
  BY <1>4, <1>6, <1>8, <1>9 DEF Answered

LEMMA CompleteMeansAnswered ==
    ConversationComplete <=> (pc = "ask" => \A k \in Requested : Answered(k, messages[k].calls))
BY DEF ConversationComplete, Answered

LEMMA ConversationStep ==
    ASSUME IInv, [Next]_vars
    PROVE  ConversationSoFar' /\ ConversationComplete'
<1>1. CASE Still
  <2>1. /\ mcp_only' = mcp_only /\ messages' = messages /\ answered' = answered
        /\ pc' = "call" /\ ~mcp_only => pc = "call" /\ asked' = asked
        /\ pc' = "ask" => pc = "ask" \/ messages = <<>>
    BY <1>1 DEF Still, IInv, Progress
  <2>2. ConversationSoFar'
    BY <2>1 DEF IInv, ConversationSoFar, Requested, Answered
  <2>3. messages = <<>> => Requested = {}
    BY RequestsAre DEF IInv
  <2>4. ConversationComplete'
    BY <2>1, <2>3 DEF IInv, ConversationComplete, Requested
  <2> QED
    BY <2>2, <2>4
<1>2. ASSUME NEW n \in 0..MaxCalls, Ask(n)
      PROVE  ConversationSoFar' /\ ConversationComplete'
  <2> DEFINE m == [role |-> "assistant", calls |-> n]
  <2>1. /\ m \in Message /\ messages' = Append(messages, m) /\ m.role = "assistant" /\ m.calls = n
        /\ asked' = n /\ answered' = 0 /\ pc = "ask" /\ pc' # "ask"
    BY <1>2, ModelAnswers, MessageKinds DEF IInv
  <2> HIDE DEF m
  <2>2. /\ Len(messages) \in Nat /\ Len(messages') = Len(messages) + 1
        /\ Len(messages') - answered' = Len(messages) + 1
        /\ DOMAIN messages = 1..Len(messages)
        /\ DOMAIN messages' = 1..(Len(messages) + 1)
        /\ messages'[Len(messages) + 1] = m
    BY <2>1, OneMoreMessage DEF IInv, TypeOK
  <2>3. Len(messages) + 1 \in Requested' /\ messages'[Len(messages) + 1].calls = n
    BY <2>1, <2>2 DEF Requested
  <2>4. \A k : Answered(k, answered)'
    BY <2>1 DEF Answered
  <2>5. ASSUME NEW k \in Requested', k # Len(messages) + 1
        PROVE  k < Len(messages) + 1 /\ Answered(k, messages[k].calls)'
    <3>1. k \in Requested /\ messages'[k].calls = messages[k].calls /\ messages[k].calls \in Nat
      BY <2>1, <2>5, SaidBefore, RequestsAre, Bounds DEF IInv
    <3>2. Answered(k, messages[k].calls)
      BY <2>1, <3>1, CompleteMeansAnswered DEF IInv
    <3>3. Answered(k, messages[k].calls)'
      BY <2>1, <3>1, <3>2, SaidBefore DEF IInv, Answered
    <3> QED
      BY <2>2, <3>1, <3>3, RequestsAre DEF IInv
  <2>6. ConversationSoFar'
    BY <2>1, <2>2, <2>3, <2>4, <2>5 DEF ConversationSoFar
  <2> QED
    BY <2>1, <2>6 DEF ConversationComplete
<1>3. ASSUME NEW what \in Told, pc = "call", Tell(what)
      PROVE  ConversationSoFar' /\ ConversationComplete'
  <2>1. CASE mcp_only
    BY <1>3, <2>1, CallIsOver DEF IInv, ConversationSoFar, ConversationComplete
  <2>2. CASE ~mcp_only
    <3>0. PICK old : old = Len(messages) - answered
      OBVIOUS
    <3>1. /\ old = Len(messages') - answered'
          /\ old \in Requested'
          /\ messages'[old].calls = asked
          /\ Answered(old, answered)'
          /\ \A k \in Requested' : k = old \/ (k < old /\ Answered(k, messages[k].calls)')
      BY <1>3, <2>2, <3>0, OneMoreAnswer
    <3>2. /\ asked' = asked /\ answered' = answered + 1
          /\ pc' = IF answered + 1 = asked THEN "ask" ELSE "call"
      BY <1>3, <2>2, CallIsOver DEF IInv
    <3>3. ConversationSoFar'
      BY <3>1, <3>2 DEF ConversationSoFar
    <3>4. ASSUME pc' = "ask", NEW k \in Requested'
          PROVE  Answered(k, messages[k].calls)'
      <4>1. answered' = asked
        BY <3>2, <3>4
      <4> QED
        BY <3>1, <4>1 DEF Answered
    <3>5. ConversationComplete'
      BY <3>4 DEF ConversationComplete, Answered
    <3> QED
      BY <3>3, <3>5
  <2> QED
    BY <2>1, <2>2
<1>4. CASE pc' = "stopped"
  BY <1>4 DEF ConversationSoFar, ConversationComplete
<1> QED
  BY <1>1, <1>2, <1>3, <1>4, StepKinds

-----------------------------------------------------------------------------
(* The inductive invariant holds in every reachable state, whatever the      *)
(* number of turns and of tool calls in one.                                 *)
THEOREM Invariant == Spec => []IInv
<1>1. Init => IInv
  <2> SUFFICES ASSUME Init PROVE IInv
    OBVIOUS
  <2>1. /\ mcp_only \in BOOLEAN /\ messages = <<>> /\ turn = 0 /\ asked = 0 /\ answered = 0
        /\ pc = "initialize" /\ ending = "none" /\ session = "none"
        /\ executed = [i \in CallIds |-> 0]
    BY DEF Init
  <2>2. 0 \in 0..MAX_TURNS /\ 0 \in 0..MaxCalls /\ messages \in Seq(Message) /\ DOMAIN messages = {}
    BY <2>1, Bounds, EmptySeq
  <2>3. TypeOK
    BY <2>1, <2>2 DEF TypeOK, Endings
  <2>4. Progress /\ RunInOrder /\ ConversationSoFar /\ ConversationComplete /\ HandshakeFirst
    BY <2>1 DEF Progress, RunInOrder, ConversationSoFar, ConversationComplete, HandshakeFirst
  <2>5. ReportsTrue /\ NothingRunsTwice
    BY <2>1, <2>2 DEF ReportsTrue, NothingRunsTwice
  <2> QED
    BY <2>3, <2>4, <2>5 DEF IInv
<1>2. IInv /\ [Next]_vars => IInv'
  <2> SUFFICES ASSUME IInv, [Next]_vars PROVE IInv'
    OBVIOUS
  <2> QED
    BY TypeStep, ProgressStep, OrderStep, ConversationStep, ReportsStep, RunsTwiceStep,
       HandshakeStep DEF IInv
<1> QED
  BY <1>1, <1>2, PTL DEF Spec

(* Every variable keeps its type.                                            *)
THEOREM TypeCorrect == Spec => []TypeOK
<1>1. IInv => TypeOK
  BY DEF IInv
<1> QED
  BY <1>1, Invariant, PTL

(* Whatever fails in between, the model is never asked before each of its    *)
(* tool calls has its answer, in order, behind the message that asked.       *)
THEOREM Conversation == Spec => []ConversationComplete
<1>1. IInv => ConversationComplete
  BY DEF IInv
<1> QED
  BY <1>1, Invariant, PTL

(* A tool call of which the model was told a result ran exactly once: the    *)
(* answers that agent.py turns into {}, and the errors, are told as such and *)
(* claim nothing.                                                            *)
THEOREM Reports == Spec => []ReportsTrue
<1>1. IInv => ReportsTrue
  BY DEF IInv
<1> QED
  BY <1>1, Invariant, PTL

(* However often the MCP server restarts and the gateway refuses, no tool    *)
(* call runs twice.                                                          *)
THEOREM RunsOnce == Spec => []NothingRunsTwice
<1>1. IInv => NothingRunsTwice
  BY DEF IInv
<1> QED
  BY <1>1, Invariant, PTL

(* The agent never goes on with a session that it did not initialise.        *)
THEOREM Handshake == Spec => []HandshakeFirst
<1>1. IInv => HandshakeFirst
  BY DEF IInv
<1> QED
  BY <1>1, Invariant, PTL
=============================================================================
