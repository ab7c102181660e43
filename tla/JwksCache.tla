------------------------------ MODULE JwksCache ------------------------------
(***************************************************************************)
(* The key cache of acme-resource-api (type jwks) against the signing key  *)
(* of the exchange plugin.  The plugin makes a new RSA key on every start  *)
(* and publishes it under the SAME kid; the resource API keeps the key it  *)
(* fetched for 30 seconds and cannot tell the old key from the new one.    *)
(*                                                                         *)
(* A key is the number of the plugin's start (1, 2, ...), 0 is "no key".   *)
(* Time advances in ticks; every clock is relative and saturates, so that  *)
(* the model is finite without a bound on how long it runs.                *)
(***************************************************************************)
EXTENDS Naturals

CONSTANTS
    Requests,      \* requests to the resource API that can be under way at once
    Boot,          \* the goroutine of main that fetches once at start
    MaxKey,        \* bound: starts of the plugin
    StaleAfter,    \* age of the cache that is still fresh (30 s)
    TokenTTL,      \* lifetime of an exchanged token (60 s)
    MaxFetch       \* assumed: longest time from asking for the JWKS to storing it

ASSUME JwksAssumption ==
    /\ Boot \notin Requests
    /\ MaxKey \in Nat \ {0}
    /\ StaleAfter \in Nat
    /\ TokenTTL \in Nat \ {0}
    /\ MaxFetch \in Nat

VARIABLES
    key,           \* the plugin's current key pair
    up,            \* the plugin is running
    since,         \* ticks since its start or the last fetch that failed (saturating)
    keys,          \* jwks.keys[KID]
    age,           \* ticks since jwks.loaded (saturating)
    pc,            \* progress of a request, or of Boot
    tok,           \* the key the request's token is signed with
    left,          \* ticks until that token expires
    held,          \* the local variable k of keyFor
    got,           \* the key in the JWKS document a fetch received
    wait,          \* ticks the fetch has taken
    verdict        \* "accepted" or "refused", once decided

pluginVars == <<key, up, since>>
cacheVars  == <<keys, age>>
tokenVars  == <<tok, left>>
fetchVars  == <<held, got, wait>>
vars == <<pluginVars, cacheVars, pc, tokenVars, fetchVars, verdict>>

Fetchers == Requests \cup {Boot}
Keys     == 1..MaxKey

(* The bound the properties speak of: no outage outlasts it. *)
Outage == StaleAfter + MaxFetch
Atmost(n, bound) == IF n > bound THEN bound ELSE n

stale == age > StaleAfter

-----------------------------------------------------------------------------
Init ==
    /\ key = 1 /\ up = TRUE /\ since = 0
    /\ keys = 0 /\ age = StaleAfter + 1
    /\ pc = [r \in Fetchers |-> IF r = Boot THEN "fetch" ELSE "idle"]
    /\ tok = [r \in Requests |-> 0]
    /\ left = [r \in Requests |-> 0]
    /\ held = [r \in Fetchers |-> 0]
    /\ got = [r \in Fetchers |-> 0]
    /\ wait = [r \in Fetchers |-> 0]
    /\ verdict = [r \in Requests |-> "none"]

(* mint_exchanged_token; the request is now on its way to the resource API,  *)
(* through the tool server and the gateway.                                  *)
Mint(r) ==
    /\ pc[r] = "idle"
    /\ up
    /\ pc' = [pc EXCEPT ![r] = "transit"]
    /\ tok' = [tok EXCEPT ![r] = key]
    /\ left' = [left EXCEPT ![r] = TokenTTL]
    /\ UNCHANGED <<pluginVars, cacheVars, fetchVars, verdict>>

(* It arrives, and keyFor wants the read lock. *)
Arrive(r) ==
    /\ pc[r] = "transit"
    /\ pc' = [pc EXCEPT ![r] = "lookup"]
    /\ UNCHANGED <<pluginVars, cacheVars, tokenVars, fetchVars, verdict>>

(* Defect variant of Lookup: a kid that is in the map is never refreshed. *)
LookupMissingOnly(r) ==
    /\ pc[r] = "lookup"
    /\ held' = [held EXCEPT ![r] = keys]
    /\ pc' = [pc EXCEPT ![r] = IF keys = 0 THEN "fetch" ELSE "verify"]
    /\ UNCHANGED <<pluginVars, cacheVars, tokenVars, got, wait, verdict>>

(* Defect variant of Lookup: refresh keeps the lock while it fetches, so     *)
(* that only one request at a time asks the plugin.                          *)
LookupBehindFetch(r) ==
    /\ pc[r] = "lookup"
    /\ \A q \in Fetchers : pc[q] # "fetch"
    /\ held' = [held EXCEPT ![r] = keys]
    /\ pc' = [pc EXCEPT ![r] = IF keys = 0 \/ stale THEN "fetch" ELSE "verify"]
    /\ UNCHANGED <<pluginVars, cacheVars, tokenVars, got, wait, verdict>>

(* keyFor, first half: look the kid up under the read lock; refresh when it  *)
(* is missing or the cache is stale.                                         *)
Lookup(r) ==
    /\ pc[r] = "lookup"
    /\ held' = [held EXCEPT ![r] = keys]
    /\ pc' = [pc EXCEPT ![r] = IF keys = 0 \/ stale THEN "fetch" ELSE "verify"]
    /\ UNCHANGED <<pluginVars, cacheVars, tokenVars, got, wait, verdict>>

(* refresh: http.Get answers with the key the plugin has at that moment. *)
FetchOk(r) ==
    /\ pc[r] = "fetch"
    /\ up
    /\ got' = [got EXCEPT ![r] = key]
    /\ pc' = [pc EXCEPT ![r] = "store"]
    /\ UNCHANGED <<pluginVars, cacheVars, tokenVars, held, wait, verdict>>

(* Defect variant of FetchFail: an error page decodes to an empty key set,   *)
(* which is stored.                                                          *)
FetchFailEmptying(r) ==
    /\ pc[r] = "fetch"
    /\ since' = 0
    /\ got' = [got EXCEPT ![r] = 0]
    /\ pc' = [pc EXCEPT ![r] = "store"]
    /\ UNCHANGED <<key, up, cacheVars, tokenVars, held, wait, verdict>>

(* refresh returns an error, which keyFor ignores if it holds a key already. *)
(* The plugin may be down, or up and not reached.                            *)
FetchFail(r) ==
    /\ pc[r] = "fetch"
    /\ since' = 0
    /\ wait' = [wait EXCEPT ![r] = 0]
    /\ IF r = Boot
         THEN pc' = [pc EXCEPT ![r] = "idle"] /\ UNCHANGED verdict
         ELSE IF held[r] = 0
                THEN /\ pc' = [pc EXCEPT ![r] = "done"]
                     /\ verdict' = [verdict EXCEPT ![r] = "refused"]
                ELSE pc' = [pc EXCEPT ![r] = "reread"] /\ UNCHANGED verdict
    /\ UNCHANGED <<key, up, cacheVars, tokenVars, held, got>>

(* Defect variant of Store: a kid that is known is not replaced. *)
StoreNewKidsOnly(r) ==
    /\ pc[r] = "store"
    /\ keys' = IF keys = 0 THEN got[r] ELSE keys
    /\ age' = 0
    /\ got' = [got EXCEPT ![r] = 0]
    /\ wait' = [wait EXCEPT ![r] = 0]
    /\ pc' = [pc EXCEPT ![r] = IF r = Boot THEN "idle" ELSE "reread"]
    /\ UNCHANGED <<pluginVars, tokenVars, held, verdict>>

(* Defect variant of Store: Boot goes through keyFor, like a request. *)
StoreThenReread(r) ==
    /\ pc[r] = "store"
    /\ keys' = got[r]
    /\ age' = 0
    /\ got' = [got EXCEPT ![r] = 0]
    /\ wait' = [wait EXCEPT ![r] = 0]
    /\ pc' = [pc EXCEPT ![r] = "reread"]
    /\ UNCHANGED <<pluginVars, tokenVars, held, verdict>>

(* refresh: the keys are replaced under the write lock, whatever another     *)
(* refresh has stored since this one asked.                                  *)
Store(r) ==
    /\ pc[r] = "store"
    /\ keys' = got[r]
    /\ age' = 0
    /\ got' = [got EXCEPT ![r] = 0]
    /\ wait' = [wait EXCEPT ![r] = 0]
    /\ pc' = [pc EXCEPT ![r] = IF r = Boot THEN "idle" ELSE "reread"]
    /\ UNCHANGED <<pluginVars, tokenVars, held, verdict>>

(* keyFor, second half: read the map again. *)
Reread(r) ==
    /\ pc[r] = "reread"
    /\ held' = [held EXCEPT ![r] = keys]
    /\ IF keys = 0
         THEN /\ pc' = [pc EXCEPT ![r] = "done"]
              /\ verdict' = [verdict EXCEPT ![r] = "refused"]
         ELSE pc' = [pc EXCEPT ![r] = "verify"] /\ UNCHANGED verdict
    /\ UNCHANGED <<pluginVars, cacheVars, tokenVars, got, wait>>

(* ParseWithClaims: the signature against the key held, then the expiry. *)
Verify(r) ==
    /\ pc[r] = "verify"
    /\ verdict' = [verdict EXCEPT ![r] =
                     IF held[r] = tok[r] /\ left[r] > 0 THEN "accepted" ELSE "refused"]
    /\ pc' = [pc EXCEPT ![r] = "done"]
    /\ UNCHANGED <<pluginVars, cacheVars, tokenVars, fetchVars>>

(* The answer is out; the slot can serve another request. *)
Release(r) ==
    /\ pc[r] = "done"
    /\ pc' = [pc EXCEPT ![r] = "idle"]
    /\ tok' = [tok EXCEPT ![r] = 0]
    /\ left' = [left EXCEPT ![r] = 0]
    /\ held' = [held EXCEPT ![r] = 0]
    /\ verdict' = [verdict EXCEPT ![r] = "none"]
    /\ UNCHANGED <<pluginVars, cacheVars, got, wait>>

-----------------------------------------------------------------------------
Crash ==
    /\ up
    /\ key < MaxKey
    /\ up' = FALSE
    /\ UNCHANGED <<key, since, cacheVars, pc, tokenVars, fetchVars, verdict>>

(* A new process: a new key, the same kid. *)
Restart ==
    /\ ~up
    /\ up' = TRUE
    /\ key' = key + 1
    /\ since' = 0
    /\ UNCHANGED <<cacheVars, pc, tokenVars, fetchVars, verdict>>

(* The resource API starts again with an empty cache and fetches; what it    *)
(* was working on ends without an answer, what is on its way may arrive.     *)
RestartApi ==
    /\ keys' = 0
    /\ age' = StaleAfter + 1
    /\ pc' = [r \in Fetchers |-> IF r = Boot THEN "fetch"
                                ELSE IF pc[r] \in {"idle", "transit"} THEN pc[r] ELSE "done"]
    /\ held' = [r \in Fetchers |-> 0]
    /\ got' = [r \in Fetchers |-> 0]
    /\ wait' = [r \in Fetchers |-> 0]
    /\ UNCHANGED <<pluginVars, tokenVars, verdict>>

(* Time passes, except under a goroutine that only has local work to do or a *)
(* decision to send, and under a fetch that has taken its longest.           *)
Tick ==
    /\ \A r \in Fetchers :
         /\ pc[r] \notin {"lookup", "reread", "verify", "done"}
         /\ pc[r] \in {"fetch", "store"} => wait[r] < MaxFetch
    /\ since' = Atmost(since + 1, Outage + 1)
    /\ age' = Atmost(age + 1, StaleAfter + 1)
    /\ left' = [r \in Requests |-> IF left[r] > 0 THEN left[r] - 1 ELSE 0]
    /\ wait' = [r \in Fetchers |->
                  IF pc[r] \in {"fetch", "store"} THEN wait[r] + 1 ELSE wait[r]]
    /\ UNCHANGED <<key, up, keys, pc, tok, held, got, verdict>>

-----------------------------------------------------------------------------
LocalNext(r)   == Lookup(r) \/ Reread(r) \/ Verify(r) \/ Release(r)
RequestNext(r) == Mint(r) \/ Arrive(r) \/ LocalNext(r)
RefreshNext(r) == FetchOk(r) \/ FetchFail(r) \/ Store(r)

Next ==
    \/ \E r \in Requests : RequestNext(r)
    \/ \E r \in Fetchers : RefreshNext(r)
    \/ Crash \/ Restart \/ RestartApi \/ Tick

Spec == Init /\ [][Next]_vars

(* Goroutines run on where they need nobody's answer: the locks of jwks are  *)
(* held for an access to the map only.  A fetch may hang without end.        *)
Fairness ==
    /\ \A r \in Requests : WF_vars(LocalNext(r))
    /\ \A r \in Fetchers : WF_vars(Store(r))

FairSpec == Spec /\ Fairness

-----------------------------------------------------------------------------
TypeOK ==
    /\ key \in Keys /\ up \in BOOLEAN /\ since \in 0..(Outage + 1)
    /\ keys \in 0..MaxKey /\ age \in 0..(StaleAfter + 1)
    /\ pc \in [Fetchers -> {"idle", "transit", "lookup", "fetch", "store", "reread", "verify", "done"}]
    /\ pc[Boot] \in {"fetch", "store", "idle"}
    /\ tok \in [Requests -> 0..MaxKey]
    /\ left \in [Requests -> 0..TokenTTL]
    /\ held \in [Fetchers -> 0..MaxKey]
    /\ got \in [Fetchers -> 0..MaxKey]
    /\ wait \in [Fetchers -> 0..MaxFetch]
    /\ verdict \in [Requests -> {"none", "accepted", "refused"}]

GoodToken(r) == tok[r] = key /\ left[r] > 0 /\ up

(* After a restart of the plugin or a fetch that failed, good tokens are     *)
(* refused no longer than the cache stays fresh plus the time of one fetch:  *)
(* that covers a fetch that was answered before the restart and stores the   *)
(* old key after it, over a newer one.                                       *)
BoundedOutage ==
    \A r \in Requests : verdict[r] = "refused" /\ GoodToken(r) => since <= Outage

(* The cache holds the current key, and no fetch under way holds another. *)
Settled ==
    /\ keys = key
    /\ \A r \in Fetchers : pc[r] = "store" => got[r] = key

(* Once it is settled the cache stays so until the plugin or the resource    *)
(* API starts again: not a failed refresh, nor an outage, nor concurrent     *)
(* refreshes lose the key.                                                   *)
SettledUntilRestart == [][Settled /\ key' = key => Settled' \/ RestartApi]_vars

(* A fetch that hangs, as http.Get without a timeout may, keeps nobody       *)
(* waiting but the request that makes it: every other one that has arrived   *)
(* or has its answer from the plugin goes on to a verdict, or to a fetch of  *)
(* its own (or the resource API restarts and drops it).                      *)
HungFetchKeepsOnlyItsRequest ==
    \A r \in Requests : pc[r] \in {"lookup", "store", "reread"} ~> pc[r] \in {"fetch", "done"}

(* Assumed of the cluster: a pod that is down is started again, and a fetch  *)
(* that keeps being possible is answered in the end.                         *)
PluginComesBack == WF_vars(Restart)
FetchesSucceed == \A r \in Fetchers : SF_vars(FetchOk(r))

(* If so, and if requests keep coming while time goes on, and the resource   *)
(* API stays up in the end, the cache ends up with the key of the plugin's   *)
(* last start and stays with it.                                             *)
Recovers ==
    (/\ PluginComesBack
     /\ FetchesSucceed
     /\ []<>(\E r \in Requests : pc[r] = "lookup")
     /\ []<><<Tick>>_vars
     /\ <>[][~RestartApi]_vars)
        => <>[](keys = key)

-----------------------------------------------------------------------------
(* A statement of the documentation that the code does not keep. *)

(* plugin.py: the key pair is regenerated on every restart; tokens live less *)
(* than a minute, so nothing needs to survive a restart.  So no good token   *)
(* is refused because of a key of an earlier start.                          *)
FreshExchangeAccepted ==
    \A r \in Requests : verdict[r] = "refused" /\ GoodToken(r) => held[r] \in {0, key}
=============================================================================
