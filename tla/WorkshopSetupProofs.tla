------------------------- MODULE WorkshopSetupProofs -------------------------
(***************************************************************************)
(* What the setup scripts leave behind, for any number of versions of the  *)
(* definitions, vendors and LLM entries.  The gateway and AI Studio share  *)
(* no state, so each has an inductive invariant of its own.                *)
(***************************************************************************)
EXTENDS WorkshopSetup, SequenceTheorems, TLAPS

(* What is served has been posted: a restart loses both, nothing else is lost. *)
ServedWasPosted == \A a \in Apis : loaded[a] # NoApi => store[a] # NoApi

(* Part 1's proxy is marked as MCP wherever it is. *)
MarkedMcp ==
    /\ store["mock"] # NoApi => store["mock"].mcp
    /\ loaded["mock"] # NoApi => loaded["mock"].mcp

(* Which steps a script can be at, and that no script runs after it said Done. *)
ScriptInStep ==
    /\ script = "none" => step = "none"
    /\ script = "part1" => step \in {"mock", "reload", "poll mock", "key", "unsure"}
    /\ script = "part2" =>
          step \in {"rollout", "mock", "acme_mcp", "acme_api", "reload", "poll acme", "poll mock"}
    /\ ended # "none" => script = "none"

(* Part 1's poll has seen its proxy. *)
PolledByPart1 ==
    /\ step = "key" => loaded["mock"] # NoApi
    /\ ended = "part1" => loaded["mock"] # NoApi /\ demoKey

(* Once Part 2 has restarted the gateway, there is no definition of Part 1's *)
(* proxy but the one it posts itself; and where that one still is, the two   *)
(* that were posted after it are as well.                                    *)
FreshInPart2 ==
    script = "part2" =>
        /\ step = "mock" => store["mock"] = NoApi
        /\ step \notin {"rollout", "mock"} =>
              /\ store["mock"] # NoApi => store["mock"].version = registered
              /\ loaded["mock"] # NoApi => loaded["mock"].version = registered
        /\ step \in {"acme_api", "reload", "poll acme", "poll mock"} /\ store["mock"] # NoApi =>
              store["acme_mcp"] # NoApi
        /\ step \in {"reload", "poll acme", "poll mock"} /\ store["mock"] # NoApi =>
              store["acme_api"] # NoApi
        /\ step = "poll mock" /\ loaded["mock"] # NoApi =>
              loaded["acme_mcp"] # NoApi /\ loaded["acme_api"] # NoApi

(* The same is true of the gateway that Part 2 leaves. *)
LeftByPart2 ==
    ended = "part2" =>
        /\ \A a \in Apis : loaded[a] # NoApi
        /\ loaded["mock"].version = registered
        /\ store["mock"].version = registered

RegistryInv ==
    RegistryTypeOK /\ ServedWasPosted /\ MarkedMcp /\ ScriptInStep /\ PolledByPart1
    /\ FreshInPart2 /\ LeftByPart2

-----------------------------------------------------------------------------
(* What a POST leaves in the directory. *)
LEMMA PostPuts ==
    ASSUME RegistryTypeOK, NEW a \in Apis, NEW version \in Versions, NEW endpoint,
           Post(endpoint, a, version)
    PROVE  /\ store' \in [Apis -> Definitions \cup {NoApi}]
           /\ store'[a] # NoApi
           /\ store'[a].mcp = (endpoint = "/tyk/mcps")
           /\ store'[a].version = version
           /\ \A b \in Apis \ {a} : store'[b] = store[b]
<1> DEFINE d == [mcp |-> endpoint = "/tyk/mcps", version |-> version]
<1>1. d \in Definitions
  <2>1. (endpoint = "/tyk/mcps") \in BOOLEAN
    OBVIOUS
  <2> QED
    BY <2>1 DEF Definitions
<1>2. d # NoApi
  BY <1>1, VersionsAssumption DEF VersionsAssumption, Definitions
<1>3. store' = [store EXCEPT ![a] = d]
  BY DEF Post
<1>4. d.mcp = (endpoint = "/tyk/mcps") /\ d.version = version
  OBVIOUS
<1> HIDE DEF d
<1>5. store'[a] = d /\ \A b \in Apis \ {a} : store'[b] = store[b]
  BY <1>3 DEF RegistryTypeOK
<1> QED
  BY <1>1, <1>2, <1>3, <1>4, <1>5 DEF RegistryTypeOK

(* The registry keeps to its types. *)
LEMMA RegistryTypeStep ==
    ASSUME RegistryInv, RegistryNext
    PROVE  RegistryTypeOK'
<1> USE VersionsAssumption DEF VersionsAssumption, RegistryInv, RegistryTypeOK, Definitions,
      gatewayVars, scriptVars, Apis, Empty
<1>1. CASE Reload
  BY <1>1 DEF Reload
<1>2. CASE PodRestart
  BY <1>2 DEF PodRestart, Wiped
<1>3. CASE EditFile
  BY <1>3 DEF EditFile
<1>4. CASE \E s \in {"part1", "part2"} : Begin(s)
  BY <1>4 DEF Begin
<1>5. CASE Abort
  BY <1>5 DEF Abort
<1>6. CASE Rollout
  BY <1>6 DEF Rollout, Wiped, Goto
<1>7. CASE RegisterMock
  BY <1>7 DEF RegisterMock, Post, Goto
<1>8. ASSUME NEW a \in {"acme_mcp", "acme_api"}, RegisterAcme(a)
      PROVE  RegistryTypeOK'
  <2>1. store' \in [Apis -> Definitions \cup {NoApi}]
    BY <1>8, PostPuts DEF RegisterAcme
  <2> QED
    BY <1>8, <2>1 DEF RegisterAcme, Goto
<1>9. CASE RequestReload
  BY <1>9 DEF RequestReload, Goto
<1>10. CASE PollAcme \/ PollMockPart1
  BY <1>10 DEF PollAcme, PollMockPart1, Goto
<1>11. CASE PollMockPart2 \/ CreateKey
  BY <1>11 DEF PollMockPart2, CreateKey, Done
<1> QED
  BY <1>1, <1>2, <1>3, <1>4, <1>5, <1>6, <1>7, <1>8, <1>9, <1>10, <1>11 DEF RegistryNext

(* The two facts about what is posted and served. *)
LEMMA PostedStep ==
    ASSUME RegistryInv, RegistryNext
    PROVE  ServedWasPosted' /\ MarkedMcp'
<1> USE VersionsAssumption DEF VersionsAssumption, RegistryInv, RegistryTypeOK, Definitions,
      gatewayVars, scriptVars, Apis, Empty, ServedWasPosted, MarkedMcp
<1>1. CASE Reload
  BY <1>1 DEF Reload
<1>2. CASE PodRestart
  BY <1>2 DEF PodRestart, Wiped
<1>3. CASE EditFile \/ Abort \/ \E s \in {"part1", "part2"} : Begin(s)
  BY <1>3 DEF EditFile, Abort, Begin
<1>4. CASE Rollout
  BY <1>4 DEF Rollout, Wiped
<1>5. CASE RegisterMock
  <2>1. /\ store'["mock"] # NoApi /\ store'["mock"].mcp
        /\ \A b \in Apis \ {"mock"} : store'[b] = store[b]
    BY <1>5, PostPuts DEF RegisterMock
  <2> QED
    BY <1>5, <2>1 DEF RegisterMock
<1>6. ASSUME NEW a \in {"acme_mcp", "acme_api"}, RegisterAcme(a)
      PROVE  ServedWasPosted' /\ MarkedMcp'
  <2>1. store'[a] # NoApi /\ \A b \in Apis \ {a} : store'[b] = store[b]
    BY <1>6, PostPuts DEF RegisterAcme
  <2> QED
    BY <1>6, <2>1 DEF RegisterAcme
<1>7. CASE RequestReload \/ PollAcme \/ PollMockPart1
  BY <1>7 DEF RequestReload, PollAcme, PollMockPart1
<1>8. CASE PollMockPart2 \/ CreateKey
  BY <1>8 DEF PollMockPart2, CreateKey, Done
<1> QED
  BY <1>1, <1>2, <1>3, <1>4, <1>5, <1>6, <1>7, <1>8 DEF RegistryNext

(* The steps of the scripts, and what Part 1's poll has seen. *)
LEMMA ScriptStep ==
    ASSUME RegistryInv, RegistryNext
    PROVE  ScriptInStep' /\ PolledByPart1'
<1> USE VersionsAssumption DEF VersionsAssumption, RegistryInv, RegistryTypeOK, Definitions,
      gatewayVars, scriptVars, Apis, Empty, ScriptInStep, PolledByPart1
<1>1. CASE Reload
  BY <1>1 DEF Reload, ServedWasPosted
<1>2. CASE PodRestart
  BY <1>2 DEF PodRestart, Wiped
<1>3. CASE EditFile \/ Abort \/ \E s \in {"part1", "part2"} : Begin(s)
  BY <1>3 DEF EditFile, Abort, Begin
<1>4. CASE Rollout
  BY <1>4 DEF Rollout, Wiped, Goto
<1>5. CASE RegisterMock
  BY <1>5 DEF RegisterMock, Goto
<1>6. CASE \E a \in {"acme_mcp", "acme_api"} : RegisterAcme(a)
  BY <1>6 DEF RegisterAcme, Goto
<1>7. CASE RequestReload \/ PollAcme
  BY <1>7 DEF RequestReload, PollAcme, Goto
<1>8. CASE PollMockPart1
  BY <1>8 DEF PollMockPart1, Listed, Goto
<1>9. CASE PollMockPart2 \/ CreateKey
  BY <1>9 DEF PollMockPart2, CreateKey, Done
<1> QED
  BY <1>1, <1>2, <1>3, <1>4, <1>5, <1>6, <1>7, <1>8, <1>9 DEF RegistryNext

(* What Part 2 finds and leaves. *)
LEMMA Part2Step ==
    ASSUME RegistryInv, RegistryNext
    PROVE  FreshInPart2' /\ LeftByPart2'
<1> USE VersionsAssumption DEF VersionsAssumption, RegistryInv, RegistryTypeOK, Definitions,
      gatewayVars, scriptVars, Apis, Empty, ScriptInStep, FreshInPart2, LeftByPart2
<1>1. CASE Reload
  BY <1>1 DEF Reload, ServedWasPosted
<1>2. CASE PodRestart
  BY <1>2 DEF PodRestart, Wiped
<1>3. CASE EditFile \/ Abort \/ \E s \in {"part1", "part2"} : Begin(s)
  BY <1>3 DEF EditFile, Abort, Begin
<1>4. CASE Rollout
  BY <1>4 DEF Rollout, Wiped, Goto
<1>5. CASE RegisterMock
  <2>1. store'["mock"].version = file
    BY <1>5, PostPuts DEF RegisterMock
  <2> QED
    BY <1>5, <2>1 DEF RegisterMock, Goto, ServedWasPosted
<1>6. ASSUME NEW a \in {"acme_mcp", "acme_api"}, RegisterAcme(a)
      PROVE  FreshInPart2' /\ LeftByPart2'
  <2>1. store'[a] # NoApi /\ \A b \in Apis \ {a} : store'[b] = store[b]
    BY <1>6, PostPuts DEF RegisterAcme
  <2> QED
    BY <1>6, <2>1 DEF RegisterAcme, Goto
<1>7. CASE RequestReload
  BY <1>7 DEF RequestReload, Goto
<1>8. CASE PollAcme \/ PollMockPart1
  BY <1>8 DEF PollAcme, PollMockPart1, Listed, Goto
<1>9. CASE PollMockPart2
  BY <1>9 DEF PollMockPart2, Listed, Done, ServedWasPosted
<1>10. CASE CreateKey
  BY <1>10 DEF CreateKey, Done
<1> QED
  BY <1>1, <1>2, <1>3, <1>4, <1>5, <1>6, <1>7, <1>8, <1>9, <1>10 DEF RegistryNext

-----------------------------------------------------------------------------
(* A run of the AI Studio script: what it has reached by the step it is at.  *)
RunInStep ==
    /\ at # "none" => env.vendor \in Vendors
    /\ at \in {"app", "activate", "secret"} => llmId \in DOMAIN llms
    /\ at \in {"activate", "secret"} => app \in DOMAIN llms
    /\ confirmed => at = "none" /\ app \in DOMAIN llms

(* A single entry has this run's key once it was found or created without an *)
(* error, and the credential is active once it was activated without one.    *)
CleanSoFar ==
    /\ (clean /\ (at \in {"app", "activate", "secret"} \/ confirmed)) =>
          (Len(llms) = 1 /\ env.key # "" => llms[1].key = env.key)
    /\ (clean /\ (at = "secret" \/ confirmed)) => active

StudioInv == StudioTypeOK /\ RunInStep /\ CleanSoFar

Entries == [vendor : Vendors, key : Vendors \cup {""}]

(* The positions of a list that has one more. *)
LEMMA OneMore ==
    ASSUME NEW n \in Nat
    PROVE  n + 1 \in 1..(n + 1) /\ 1..n \subseteq 1..(n + 1)
  OBVIOUS

(* The list of entries after one was appended. *)
LEMMA AppendedEntry ==
    ASSUME llms \in Seq(Entries), NEW e \in Entries
    PROVE  /\ Append(llms, e) \in Seq(Entries)
           /\ Len(Append(llms, e)) = Len(llms) + 1
           /\ DOMAIN Append(llms, e) = 1..(Len(llms) + 1)
           /\ DOMAIN llms = 1..Len(llms)
           /\ Len(llms) \in Nat
           /\ Append(llms, e)[Len(llms) + 1] = e
  BY AppendProperties, LenProperties

(* The list of entries after the key of the first was replaced. *)
LEMMA UpdatedEntry ==
    ASSUME llms \in Seq(Entries), llms # <<>>, NEW k \in Vendors
    PROVE  LET s == [llms EXCEPT ![1].key = k]
           IN  /\ s \in Seq(Entries)
               /\ Len(s) = Len(llms)
               /\ DOMAIN s = DOMAIN llms
               /\ 1 \in DOMAIN llms
               /\ s[1].key = k
<1> DEFINE s == [llms EXCEPT ![1].key = k]
           e == [llms[1] EXCEPT !.key = k]
<1>1. Len(llms) \in Nat /\ DOMAIN llms = 1..Len(llms) /\ 1 \in DOMAIN llms
  BY LenProperties, EmptySeq
<1>2. llms[1] \in Entries
  BY <1>1, ElementOfSeq
<1>3. e \in Entries /\ e.key = k
  BY <1>2 DEF Entries
<1>4. s = [llms EXCEPT ![1] = e]
  OBVIOUS
<1> HIDE DEF e, s
<1>5. s \in Seq(Entries) /\ Len(s) = Len(llms) /\ s[1] = e /\ DOMAIN s = DOMAIN llms
  BY <1>1, <1>3, <1>4, ExceptSeq
<1> QED
  BY <1>1, <1>3, <1>5 DEF s

(* What the steps that leave the entries alone share. *)
LEMMA EntriesAre ==
    ASSUME StudioTypeOK
    PROVE  /\ llms \in Seq(Entries) /\ Len(llms) \in Nat /\ DOMAIN llms = 1..Len(llms)
           /\ llms = <<>> => Len(llms) = 0
           /\ llms # <<>> => 1 \in DOMAIN llms
           /\ NoApp \notin DOMAIN llms
<1>1. llms \in Seq(Entries)
  BY DEF StudioTypeOK, Entries
<1>2. Len(llms) \in Nat /\ DOMAIN llms = 1..Len(llms)
  BY <1>1, LenProperties
<1>3. llms = <<>> => Len(llms) = 0
  BY EmptySeq
<1>4. llms # <<>> => 1 \in DOMAIN llms
  <2>1. llms # <<>> => Len(llms) \in Nat \ {0}
    BY <1>1, EmptySeq
  <2> QED
    BY <1>2, <2>1
<1>5. NoApp \notin DOMAIN llms
  <2>1. DOMAIN llms \subseteq Nat
    BY <1>2
  <2> QED
    BY <2>1, StudioAssumption DEF StudioAssumption
<1> QED
  BY <1>1, <1>2, <1>3, <1>4, <1>5

(* A step of the script, or of the presenter, keeps its invariant. *)
LEMMA StudioStep ==
    ASSUME StudioInv, StudioNext
    PROVE  StudioInv'
<1> USE DEF StudioInv, StudioTypeOK, RunInStep, CleanSoFar, recordVars
<1>1. ASSUME NEW e \in Environments, BeginStudio(e)
      PROVE  StudioInv'
  <2>1. e.vendor \in Vendors /\ e \in [vendor : Vendors \cup {""}, key : Vendors \cup {""}]
    BY DEF Environments
  <2>2. StudioTypeOK'
    BY <1>1, <2>1 DEF BeginStudio
  <2>3. RunInStep' /\ CleanSoFar'
    BY <1>1, <2>1 DEF BeginStudio
  <2> QED
    BY <2>2, <2>3
<1>2. CASE StopStudio
  BY <1>2 DEF StopStudio
<1>3. CASE CreateLlm
  <2>1. env \in Entries
    BY <1>3 DEF CreateLlm, Entries
  <2>2. /\ llms' \in Seq(Entries)
        /\ Len(llms') = Len(llms) + 1
        /\ DOMAIN llms' = 1..(Len(llms) + 1)
        /\ llms'[Len(llms) + 1] = env
    BY <1>3, <2>1, EntriesAre, AppendedEntry DEF CreateLlm
  <2>3. /\ llms = <<>> => Len(llms) = 0
        /\ Len(llms) \in Nat /\ DOMAIN llms = 1..Len(llms)
    BY EntriesAre
  <2>4. DOMAIN llms \subseteq DOMAIN llms' /\ Len(llms') \in DOMAIN llms'
    BY <2>2, <2>3, OneMore
  <2>5. StudioTypeOK'
    BY <1>3, <2>2, <2>4 DEF CreateLlm, Then, Entries
  <2>6. RunInStep'
    BY <1>3, <2>4 DEF CreateLlm, Then
  <2>7. CleanSoFar'
    BY <1>3, <2>2, <2>3 DEF CreateLlm, Then
  <2> QED
    BY <2>5, <2>6, <2>7
<1>4. CASE UpdateLlm
  <2>1. env.key \in Vendors
    BY <1>4 DEF UpdateLlm
  <2> DEFINE s == [llms EXCEPT ![1].key = env.key]
  <2>3. /\ s \in Seq(Entries)
        /\ Len(s) = Len(llms)
        /\ DOMAIN s = DOMAIN llms
        /\ 1 \in DOMAIN llms
        /\ s[1].key = env.key
    BY <1>4, <2>1, EntriesAre, UpdatedEntry DEF UpdateLlm
  <2>4. \/ llms' = s /\ clean' = clean
        \/ clean' = FALSE /\ llms' = llms
    BY <1>4 DEF UpdateLlm
  <2> HIDE DEF s
  <2>5. StudioTypeOK'
    BY <1>4, <2>3, <2>4 DEF UpdateLlm, Then, Entries
  <2>6. RunInStep'
    BY <1>4, <2>3, <2>4 DEF UpdateLlm, Then
  <2>7. CleanSoFar'
    BY <1>4, <2>3, <2>4 DEF UpdateLlm, Then
  <2> QED
    BY <2>5, <2>6, <2>7
<1>5. CASE FindLlm
  <2>1. 1 \in DOMAIN llms
    BY <1>5, EntriesAre DEF FindLlm
  <2> QED
    BY <1>5, <2>1 DEF FindLlm, Then
<1>6. CASE FindOrCreateApp
  BY <1>6 DEF FindOrCreateApp, Then
<1>7. CASE Activate
  <2>1. CASE active' = TRUE /\ clean' = clean
    BY <1>7, <2>1 DEF Activate, Then
  <2>2. CASE clean' = FALSE /\ active' = active
    BY <1>7, <2>2 DEF Activate, Then
  <2> QED
    BY <1>7, <2>1, <2>2 DEF Activate
<1>8. CASE ReadSecret
  BY <1>8 DEF ReadSecret
<1> QED
  BY <1>1, <1>2, <1>3, <1>4, <1>5, <1>6, <1>7, <1>8 DEF StudioNext

-----------------------------------------------------------------------------
(* The two invariants together are inductive: a step of one part leaves the  *)
(* other's variables alone.                                                  *)
THEOREM SetupInvariant == Spec => [](RegistryInv /\ StudioInv)
<1>1. Init => RegistryInv
  BY VersionsAssumption DEF VersionsAssumption, Init, RegistryInit, RegistryInv, RegistryTypeOK,
     Definitions, ServedWasPosted, MarkedMcp, ScriptInStep, PolledByPart1, FreshInPart2,
     LeftByPart2, Apis, Empty
<1>2. Init => StudioInv
  <2> SUFFICES ASSUME Init
               PROVE  StudioInv
    OBVIOUS
  <2>1. llms \in Seq([vendor : Vendors, key : Vendors \cup {""}])
    BY EmptySeq DEF Init, StudioInit
  <2>2. StudioTypeOK
    BY <2>1 DEF Init, StudioInit, StudioTypeOK
  <2>3. RunInStep /\ CleanSoFar
    BY DEF Init, StudioInit, RunInStep, CleanSoFar
  <2> QED
    BY <2>2, <2>3 DEF StudioInv
<1>3. RegistryInv /\ StudioInv /\ [Next]_vars => RegistryInv' /\ StudioInv'
  <2> SUFFICES ASSUME RegistryInv, StudioInv, [Next]_vars
               PROVE  RegistryInv' /\ StudioInv'
    OBVIOUS
  <2>1. ASSUME UNCHANGED registryVars
        PROVE  RegistryInv'
    <3>1. UNCHANGED <<file, store, loaded, queued, demoKey, script, step, registered, ended>>
      BY <2>1 DEF registryVars, gatewayVars, scriptVars
    <3>2. RegistryTypeOK'
      BY <3>1 DEF RegistryInv, RegistryTypeOK, Definitions
    <3>3. ServedWasPosted' /\ MarkedMcp' /\ ScriptInStep' /\ PolledByPart1'
      BY <3>1 DEF RegistryInv, ServedWasPosted, MarkedMcp, ScriptInStep, PolledByPart1
    <3>4. FreshInPart2' /\ LeftByPart2'
      BY <3>1 DEF RegistryInv, FreshInPart2, LeftByPart2
    <3> QED
      BY <3>2, <3>3, <3>4 DEF RegistryInv
  <2>2. ASSUME UNCHANGED studioVars
        PROVE  StudioInv'
    <3>1. UNCHANGED <<llms, app, active, env, at, llmId, clean, confirmed>>
      BY <2>2 DEF studioVars, recordVars, runVars
    <3>2. StudioTypeOK'
      BY <3>1 DEF StudioInv, StudioTypeOK
    <3>3. RunInStep' /\ CleanSoFar'
      BY <3>1 DEF StudioInv, RunInStep, CleanSoFar
    <3> QED
      BY <3>2, <3>3 DEF StudioInv
  <2>3. RegistryNext => RegistryInv'
    BY RegistryTypeStep, PostedStep, ScriptStep, Part2Step DEF RegistryInv
  <2>4. StudioNext => StudioInv'
    BY StudioStep
  <2> QED
    BY <2>1, <2>2, <2>3, <2>4 DEF Next, vars
<1> QED
  BY <1>1, <1>2, <1>3, PTL DEF Spec

(* Every variable of the gateway and of AI Studio keeps to its type. *)
THEOREM SetupTypeCorrect == Spec => []TypeOK
<1>1. RegistryInv /\ StudioInv => TypeOK
  BY DEF RegistryInv, StudioInv, TypeOK
<1> QED
  BY <1>1, SetupInvariant, PTL

(* Part 1's proxy is never served as an ordinary API, and when Part 1 says   *)
(* Done it is served and has its key, however often scripts are stopped and  *)
(* the gateway restarts.                                                     *)
THEOREM Governed == Spec => []GovernedWhenDone
<1>1. RegistryInv => GovernedWhenDone
  BY DEF RegistryInv, MarkedMcp, PolledByPart1, GovernedWhenDone
<1> QED
  BY <1>1, SetupInvariant, PTL

(* When Part 2 says Done the gateway serves all three APIs, and Part 1's     *)
(* proxy as the script has just registered it.                               *)
THEOREM Served == Spec => []ServedAsRegistered
<1>1. RegistryInv => ServedAsRegistered
  BY DEF RegistryInv, LeftByPart2, ServedAsRegistered
<1> QED
  BY <1>1, SetupInvariant, PTL

(* A run of the AI Studio script whose requests all succeed repairs whatever *)
(* earlier runs left behind.                                                 *)
THEOREM Repaired == Spec => []RerunRepairs
<1>1. StudioInv => RerunRepairs
  <2> SUFFICES ASSUME StudioInv, confirmed, clean
               PROVE  /\ active
                      /\ llms[app].vendor \in Vendors
                      /\ (Len(llms) = 1 /\ env.key # "") => llms[app].key = env.key
    BY DEF RerunRepairs
  <2>1. active
    BY DEF StudioInv, CleanSoFar
  <2>2. llms \in Seq(Entries) /\ DOMAIN llms = 1..Len(llms) /\ app \in 1..Len(llms)
    BY EntriesAre DEF StudioInv, RunInStep
  <2>3. llms[app] \in Entries
    BY <2>2, ElementOfSeq
  <2>4. Len(llms) = 1 => app = 1
    BY <2>2
  <2>5. (Len(llms) = 1 /\ env.key # "") => llms[1].key = env.key
    BY DEF StudioInv, CleanSoFar
  <2> QED
    BY <2>1, <2>3, <2>4, <2>5 DEF Entries
<1> QED
  BY <1>1, SetupInvariant, PTL
=============================================================================
