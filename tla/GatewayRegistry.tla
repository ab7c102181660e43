-------------------------- MODULE GatewayRegistry --------------------------
(***************************************************************************)
(* Which APIs the Tyk Gateway serves while the setup scripts of the two    *)
(* parts register them.  The gateway keeps definitions in a directory of   *)
(* its pod, which a restart of the pod loses, and serves the ones it has   *)
(* loaded; a reload is queued and happens later.  Keys are in Redis and    *)
(* survive.  A script may stop at any step, and be run again; what a       *)
(* script is doing is `step', and one script runs at a time.               *)
(***************************************************************************)
EXTENDS Naturals

CONSTANTS
    Versions,      \* states of tyk/mcp-proxy.json, which is edited in the lab
    NoApi          \* the gateway has no such API

ASSUME VersionsAssumption ==
    /\ 0 \in Versions /\ Versions \subseteq Nat
    /\ NoApi \notin [mcp : BOOLEAN, version : Versions]

VARIABLES
    file,          \* the version of tyk/mcp-proxy.json on the presenter's disk
    store,         \* the gateway's directory: store[a] is a definition or NoApi
    loaded,        \* what the gateway serves and lists
    queued,        \* a reload is queued
    demoKey,       \* the demo key is in Redis
    script,        \* "part1", "part2" or "none"
    step,          \* the next step of the script
    registered,    \* history: the version the script has registered
    ended          \* history: the script that said Done, if nothing has happened to
                   \* the gateway or to the file since it last looked

gatewayVars == <<store, loaded, queued>>
scriptVars  == <<script, step, registered, ended>>
registryVars == <<file, gatewayVars, demoKey, scriptVars>>

Apis  == {"mock", "acme_mcp", "acme_api"}
Empty == [a \in Apis |-> NoApi]

RegistryInit ==
    /\ file = 0
    /\ store = Empty
    /\ loaded = Empty
    /\ queued = FALSE
    /\ demoKey = FALSE
    /\ script = "none"
    /\ step = "none"
    /\ registered = 0
    /\ ended = "none"

-----------------------------------------------------------------------------
(* The gateway. *)
Reload ==
    /\ queued
    /\ loaded' = store
    /\ queued' = FALSE
    /\ UNCHANGED <<file, store, demoKey, scriptVars>>

Wiped ==
    /\ store' = Empty
    /\ loaded' = Empty
    /\ queued' = FALSE

(* The pod restarts by itself, or because helm upgrade changed it. *)
PodRestart ==
    /\ Wiped
    /\ ended' = "none"
    /\ step' = IF step = "key" THEN "unsure" ELSE step
    /\ UNCHANGED <<file, demoKey, script, registered>>

(* POST of a definition: the id is fixed, so it replaces an earlier one.     *)
(* Only /tyk/mcps marks it as MCP, which the tool allowlist needs.           *)
Post(endpoint, a, version) ==
    store' = [store EXCEPT ![a] = [mcp |-> endpoint = "/tyk/mcps", version |-> version]]

(* GET /tyk/mcps and GET /tyk/apis list different kinds. *)
Listed(endpoint, a) ==
    loaded[a] # NoApi /\ loaded[a].mcp = (endpoint = "/tyk/mcps")

-----------------------------------------------------------------------------
(* The presenter edits Part 1's definition, or starts a script. *)
EditFile ==
    /\ file + 1 \in Versions
    /\ file' = file + 1
    /\ ended' = "none"
    /\ UNCHANGED <<gatewayVars, demoKey, script, step, registered>>

Begin(s) ==
    /\ script = "none"
    /\ script' = s
    /\ step' = IF s = "part1" THEN "mock" ELSE "rollout"
    /\ ended' = "none"
    /\ UNCHANGED <<file, gatewayVars, demoKey, registered>>

(* A failing command, set -e, or a poll that never succeeds: 20 tries. *)
Abort ==
    /\ script # "none"
    /\ script' = "none"
    /\ step' = "none"
    /\ UNCHANGED <<file, gatewayVars, demoKey, registered, ended>>

Goto(s) ==
    /\ step' = s
    /\ UNCHANGED <<file, script, ended>>

Done ==
    /\ ended' = IF step = "unsure" THEN "none" ELSE script
    /\ script' = "none"
    /\ step' = "none"
    /\ UNCHANGED <<file, gatewayVars, registered>>

(* Defect variant of Rollout: Part 2 leaves the gateway as it is. *)
RolloutSkipped ==
    /\ step = "rollout"
    /\ Goto("mock")
    /\ UNCHANGED <<gatewayVars, demoKey, registered>>

(* Part 2: rollout restart, and wait for it, before anything is registered. *)
Rollout ==
    /\ step = "rollout"
    /\ Wiped
    /\ Goto("mock")
    /\ UNCHANGED <<demoKey, registered>>

(* Both parts register Part 1's proxy; Part 2's restart has removed it. *)
RegisterMock ==
    /\ step = "mock"
    /\ Post("/tyk/mcps", "mock", file)
    /\ registered' = file
    /\ Goto(IF script = "part1" THEN "reload" ELSE "acme_mcp")
    /\ UNCHANGED <<loaded, queued, demoKey>>

(* Part 2's own two, one after the other. *)
RegisterAcme(a) ==
    /\ step = a
    /\ Post("/tyk/apis/oas", a, 0)
    /\ Goto(IF a = "acme_mcp" THEN "acme_api" ELSE "reload")
    /\ UNCHANGED <<loaded, queued, demoKey, registered>>

(* GET /tyk/reload/group, whose failure nobody notices (curl -s). *)
RequestReload ==
    /\ step = "reload"
    /\ queued' \in {TRUE, queued}
    /\ Goto(IF script = "part1" THEN "poll mock" ELSE "poll acme")
    /\ UNCHANGED <<store, loaded, demoKey, registered>>

(* Part 2: both of its APIs are listed. *)
PollAcme ==
    /\ step = "poll acme"
    /\ Listed("/tyk/apis", "acme_mcp") /\ Listed("/tyk/apis", "acme_api")
    /\ Goto("poll mock")
    /\ UNCHANGED <<gatewayVars, demoKey, registered>>

(* Defect variant of PollMockPart1: the poll looks once, and goes on. *)
PollMockOnce ==
    /\ step = "poll mock"
    /\ script = "part1"
    /\ Goto("key")
    /\ UNCHANGED <<gatewayVars, demoKey, registered>>

(* Part 1's proxy is listed where MCP proxies are: Part 1 has its key to     *)
(* make, Part 2 is done.                                                     *)
PollMockPart1 ==
    /\ step = "poll mock"
    /\ script = "part1"
    /\ Listed("/tyk/mcps", "mock")
    /\ Goto("key")
    /\ UNCHANGED <<gatewayVars, demoKey, registered>>

PollMockPart2 ==
    /\ step = "poll mock"
    /\ script = "part2"
    /\ Listed("/tyk/mcps", "mock")
    /\ Done
    /\ UNCHANGED demoKey

(* Part 1's demo key, of a fixed id. *)
CreateKey ==
    /\ step \in {"key", "unsure"}
    /\ demoKey' = TRUE
    /\ Done

RegistryNext ==
    \/ Reload
    \/ PodRestart
    \/ EditFile
    \/ \E s \in {"part1", "part2"} : Begin(s)
    \/ Abort
    \/ Rollout
    \/ RegisterMock
    \/ \E a \in {"acme_mcp", "acme_api"} : RegisterAcme(a)
    \/ RequestReload
    \/ PollAcme
    \/ PollMockPart1
    \/ PollMockPart2
    \/ CreateKey

-----------------------------------------------------------------------------
Definitions == [mcp : BOOLEAN, version : Versions]

RegistryTypeOK ==
    /\ file \in Versions
    /\ store \in [Apis -> Definitions \cup {NoApi}]
    /\ loaded \in [Apis -> Definitions \cup {NoApi}]
    /\ queued \in BOOLEAN
    /\ demoKey \in BOOLEAN
    /\ script \in {"none", "part1", "part2"}
    /\ step \in Apis \cup {"none", "rollout", "reload", "poll acme", "poll mock", "key", "unsure"}
    /\ registered \in Versions
    /\ ended \in {"none", "part1", "part2"}

(* Part 1's proxy is never served as an ordinary API, which would switch its *)
(* tool allowlist off without an error anywhere; and when Part 1 says Done   *)
(* it is served and has its key - unless the pod restarted after the poll.   *)
GovernedWhenDone ==
    /\ loaded["mock"] # NoApi => loaded["mock"].mcp
    /\ ended = "part1" => loaded["mock"] # NoApi /\ demoKey

(* When Part 2 says Done the gateway serves all three, each as the script    *)
(* has registered it: its polls cannot take an older definition for the new  *)
(* one, because the restart has removed them.  (Part 1 does not restart the  *)
(* gateway, and its poll can.)                                               *)
ServedAsRegistered ==
    ended = "part2" =>
        /\ \A a \in Apis : loaded[a] # NoApi
        /\ loaded["mock"].version = registered

=============================================================================
