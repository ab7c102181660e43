--------------------------- MODULE JwksCacheProofs ---------------------------
(***************************************************************************)
(* Proofs about JwksCache, for every number of requests at a time, every   *)
(* number of restarts of the plugin and every age, lifetime and duration:  *)
(* the safety properties that MCJwksCache_restart.cfg checks for small     *)
(* ones.  Its liveness properties stay with TLC.                           *)
(***************************************************************************)
EXTENDS JwksCache, TLAPS

-----------------------------------------------------------------------------
(* The inductive invariant. *)

(* An old key that a fetch has yet to store is as old as that fetch.         *)
StaleFetch ==
    \A r \in Fetchers : pc[r] = "store" /\ got[r] # key => since <= wait[r]

(* An old key in a fresh cache was stored at most one fetch after the        *)
(* restart, and the cache has aged since.                                    *)
StaleCache ==
    keys \notin {0, key} /\ age <= StaleAfter => since <= age + MaxFetch

(* A goroutine that is about to use an old key does so within the bound:     *)
(* time does not pass under it.                                              *)
StaleInHand ==
    \A r \in Requests :
        /\ pc[r] = "reread" /\ keys # key => since <= Outage
        /\ pc[r] = "verify" /\ held[r] # key => since <= Outage

(* A key that was received is one; only what is decided has a verdict.       *)
Decided ==
    /\ \A r \in Fetchers : pc[r] = "store" => got[r] # 0
    /\ \A r \in Requests : verdict[r] # "none" => pc[r] = "done"

(* The plugin only stops where another start is within the bound.            *)
KeyLeft == up \/ key < MaxKey

IInv ==
    /\ TypeOK
    /\ KeyLeft
    /\ Decided
    /\ StaleFetch
    /\ StaleCache
    /\ StaleInHand
    /\ BoundedOutage

-----------------------------------------------------------------------------
(* Arithmetic. *)

LEMMA Bounds ==
    /\ Outage \in Nat /\ MaxFetch <= Outage /\ 0 <= Outage
    /\ 0 \in 0..(Outage + 1)
    /\ 1 \in Keys /\ 0 \in 0..MaxKey /\ Keys \subseteq 0..MaxKey
    /\ 0 \in 0..(StaleAfter + 1) /\ StaleAfter + 1 \in 0..(StaleAfter + 1)
    /\ 0 \in 0..TokenTTL /\ TokenTTL \in 0..TokenTTL
    /\ 0 \in 0..MaxFetch
BY JwksAssumption DEF Outage, Keys

(* A saturating clock stays in its range, and is never ahead.                *)
LEMMA Saturates ==
    ASSUME NEW b \in Nat, NEW n \in 0..(b + 1)
    PROVE  /\ Atmost(n + 1, b + 1) \in 0..(b + 1)
           /\ Atmost(n + 1, b + 1) <= n + 1
           /\ Atmost(n + 1, b + 1) <= b => Atmost(n + 1, b + 1) = n + 1
BY DEF Atmost

LEMMA NotNegative == \A n \in Nat : 0 <= n + MaxFetch
BY JwksAssumption

-----------------------------------------------------------------------------
(* One lemma per conjunct. *)

LEMMA TypeInit == ASSUME Init PROVE TypeOK
<1> USE Bounds DEF Init, TypeOK, Fetchers
<1>1. up \in BOOLEAN
  OBVIOUS
<1>2. /\ pc \in [Fetchers -> {"idle", "transit", "fetch", "store", "reread", "verify", "done"}]
      /\ pc[Boot] \in {"fetch", "store", "idle"}
  OBVIOUS
<1>3. key \in Keys /\ since \in 0..(Outage + 1) /\ keys \in 0..MaxKey
      /\ age \in 0..(StaleAfter + 1)
  OBVIOUS
<1> QED
  BY <1>1, <1>2, <1>3

LEMMA TypeStep == ASSUME TypeOK, KeyLeft, [Next]_vars PROVE TypeOK'
<1> USE DEF TypeOK
<1>b. Boot \in Fetchers /\ Boot \notin Requests /\ Requests \subseteq Fetchers
  BY JwksAssumption DEF Fetchers
<1>1. CASE UNCHANGED vars
  BY <1>1 DEF vars, pluginVars, cacheVars, tokenVars, fetchVars
<1>2. ASSUME NEW r \in Requests, Mint(r)
      PROVE  TypeOK'
  BY <1>b, <1>2, Bounds DEF Mint, pluginVars, cacheVars, fetchVars
<1>2a. ASSUME NEW r \in Requests, Arrive(r)
      PROVE  TypeOK'
  BY <1>b, <1>2a DEF Arrive, pluginVars, cacheVars, tokenVars, fetchVars
<1>3. ASSUME NEW r \in Requests, Lookup(r)
      PROVE  TypeOK'
  BY <1>b, <1>3 DEF Lookup, pluginVars, cacheVars, tokenVars
<1>4. ASSUME NEW r \in Requests, Reread(r)
      PROVE  TypeOK'
  BY <1>b, <1>4 DEF Reread, pluginVars, cacheVars, tokenVars
<1>5. ASSUME NEW r \in Requests, Verify(r)
      PROVE  TypeOK'
  BY <1>b, <1>5 DEF Verify, pluginVars, cacheVars, tokenVars, fetchVars
<1>6. ASSUME NEW r \in Requests, Release(r)
      PROVE  TypeOK'
  BY <1>b, <1>6, Bounds DEF Release, pluginVars, cacheVars
<1>7. ASSUME NEW r \in Fetchers, FetchOk(r)
      PROVE  TypeOK'
  BY <1>b, <1>7, Bounds DEF FetchOk, pluginVars, cacheVars, tokenVars
<1>8. ASSUME NEW r \in Fetchers, FetchFail(r)
      PROVE  TypeOK'
  BY <1>b, <1>8, Bounds DEF FetchFail, cacheVars, tokenVars, Fetchers
<1>9. ASSUME NEW r \in Fetchers, Store(r)
      PROVE  TypeOK'
  BY <1>b, <1>9, Bounds DEF Store, pluginVars, tokenVars
<1>10. CASE Crash
  BY <1>10 DEF Crash, cacheVars, tokenVars, fetchVars
<1>11. CASE Restart
  <2>1. key + 1 \in Keys
    BY <1>11, JwksAssumption DEF Restart, KeyLeft, Keys
  <2> QED
    BY <1>11, <2>1, Bounds DEF Restart, cacheVars, tokenVars, fetchVars
<1>12. CASE RestartApi
  BY <1>b, <1>12, Bounds DEF RestartApi, pluginVars, tokenVars
<1>13. CASE Tick
  <2>1. since' \in 0..(Outage + 1)
    BY <1>13, Bounds, Saturates DEF Tick
  <2>2. age' \in 0..(StaleAfter + 1)
    BY <1>13, JwksAssumption, Saturates DEF Tick
  <2>3. left' \in [Requests -> 0..TokenTTL]
    BY <1>13, JwksAssumption DEF Tick
  <2>4. wait' \in [Fetchers -> 0..MaxFetch]
    BY <1>13, JwksAssumption DEF Tick
  <2> QED
    BY <1>13, <2>1, <2>2, <2>3, <2>4 DEF Tick
<1> QED
  BY <1>1, <1>2, <1>2a, <1>3, <1>4, <1>5, <1>6, <1>7, <1>8, <1>9, <1>10, <1>11, <1>12, <1>13
     DEF Next, RequestNext, LocalNext, RefreshNext

LEMMA KeyLeftStep == ASSUME KeyLeft, [Next]_vars PROVE KeyLeft'
<1> USE DEF KeyLeft
<1>1. CASE Crash
  BY <1>1 DEF Crash
<1>2. CASE Restart
  BY <1>2 DEF Restart
<1>3. ASSUME up' = up, key' = key
      PROVE  KeyLeft'
  BY <1>3
<1> QED
  BY <1>1, <1>2, <1>3
     DEF Next, RequestNext, LocalNext, RefreshNext, Mint, Arrive, Lookup, Reread, Verify, Release,
         FetchOk, FetchFail, Store, RestartApi, Tick, vars, pluginVars

(* What a request's own step leaves alone.                                   *)
LEMMA RequestStep ==
    ASSUME TypeOK, NEW r \in Requests, RequestNext(r)
    PROVE  /\ UNCHANGED <<key, since, keys, age, got, wait>>
           /\ up' = up
           /\ pc[r] \in {"idle", "transit", "lookup", "reread", "verify", "done"}
           /\ pc'[r] # "store"
           /\ \A q \in Fetchers : q # r => pc'[q] = pc[q] /\ held'[q] = held[q]
           /\ \A q \in Requests : q # r => tok'[q] = tok[q] /\ left'[q] = left[q]
                                           /\ verdict'[q] = verdict[q]
<1> USE DEF TypeOK
<1>b. r \in Fetchers /\ Requests \subseteq Fetchers
  BY DEF Fetchers
<1>1. CASE Mint(r)
  BY <1>b, <1>1 DEF Mint, pluginVars, cacheVars, fetchVars
<1>2. CASE Lookup(r)
  BY <1>b, <1>2 DEF Lookup, pluginVars, cacheVars, tokenVars
<1>2a. CASE Arrive(r)
  BY <1>b, <1>2a DEF Arrive, pluginVars, cacheVars, tokenVars, fetchVars
<1>3. CASE Reread(r)
  BY <1>b, <1>3 DEF Reread, pluginVars, cacheVars, tokenVars
<1>4. CASE Verify(r)
  BY <1>b, <1>4 DEF Verify, pluginVars, cacheVars, tokenVars, fetchVars
<1>5. CASE Release(r)
  BY <1>b, <1>5 DEF Release, pluginVars, cacheVars
<1> QED
  BY <1>1, <1>2, <1>2a, <1>3, <1>4, <1>5 DEF RequestNext, LocalNext

LEMMA DecidedStep == ASSUME IInv, [Next]_vars PROVE Decided'
<1> USE DEF IInv, TypeOK, Decided
<1>b. Boot \in Fetchers /\ Boot \notin Requests /\ Requests \subseteq Fetchers
  BY JwksAssumption DEF Fetchers
<1>1. CASE UNCHANGED <<pc, got, verdict>>
  BY <1>1
<1>2. ASSUME NEW r \in Requests, RequestNext(r)
      PROVE  Decided'
  <2>1. \A q \in Fetchers : pc'[q] = "store" => got'[q] # 0
    BY <1>b, <1>2, RequestStep
  <2>2. verdict'[r] # "none" => pc'[r] = "done"
    BY <1>b, <1>2 DEF RequestNext, LocalNext, Mint, Arrive, Lookup, Reread, Verify, Release
  <2> QED
    BY <1>b, <1>2, <2>1, <2>2, RequestStep
<1>3. ASSUME NEW r \in Fetchers, FetchOk(r)
      PROVE  Decided'
  BY <1>b, <1>3 DEF FetchOk, Keys
<1>4. ASSUME NEW r \in Fetchers, FetchFail(r)
      PROVE  Decided'
  BY <1>b, <1>4 DEF FetchFail, Fetchers
<1>5. ASSUME NEW r \in Fetchers, Store(r)
      PROVE  Decided'
  BY <1>b, <1>5 DEF Store
<1>6. CASE RestartApi
  BY <1>b, <1>6 DEF RestartApi
<1> QED
  BY <1>1, <1>2, <1>3, <1>4, <1>5, <1>6
     DEF Next, RefreshNext, Crash, Restart, Tick, vars, fetchVars

LEMMA StaleFetchStep == ASSUME IInv, [Next]_vars PROVE StaleFetch'
<1> USE DEF IInv, TypeOK, StaleFetch
<1>b. Boot \in Fetchers /\ Boot \notin Requests /\ Requests \subseteq Fetchers
  BY JwksAssumption DEF Fetchers
<1>1. CASE UNCHANGED <<key, since, pc, got, wait>>
  BY <1>1
<1>2. ASSUME NEW r \in Requests, RequestNext(r)
      PROVE  StaleFetch'
  BY <1>b, <1>2, RequestStep
<1>3. ASSUME NEW r \in Fetchers, FetchOk(r)
      PROVE  StaleFetch'
  BY <1>b, <1>3 DEF FetchOk, pluginVars
<1>4. ASSUME NEW r \in Fetchers, FetchFail(r)
      PROVE  StaleFetch'
  <2>1. pc'[r] # "store" /\ \A q \in Fetchers : q # r => pc'[q] = pc[q]
    BY <1>b, <1>4 DEF FetchFail
  <2>2. since' = 0 /\ \A q \in Fetchers : wait'[q] \in Nat
    BY <1>4, Bounds DEF FetchFail
  <2> QED
    BY <2>1, <2>2
<1>5. ASSUME NEW r \in Fetchers, Store(r)
      PROVE  StaleFetch'
  BY <1>b, <1>5 DEF Store, pluginVars
<1>6. CASE RestartApi
  BY <1>b, <1>6 DEF RestartApi
<1>7. CASE Restart
  BY <1>7 DEF Restart, fetchVars
<1>8. CASE Tick
  <2>1. since' <= since + 1
    BY <1>8, Bounds, Saturates DEF Tick
  <2>2. \A q \in Fetchers : pc[q] = "store" => wait'[q] = wait[q] + 1
    BY <1>8 DEF Tick
  <2>3. key' = key /\ pc' = pc /\ got' = got
    BY <1>8 DEF Tick
  <2>4. SUFFICES ASSUME NEW q \in Fetchers, pc[q] = "store", got[q] # key
                 PROVE  since' <= wait'[q]
    BY <2>3
  <2>5. since <= wait[q] /\ since \in Nat /\ wait[q] \in Nat /\ since' \in Nat
    BY <2>4, <1>8, Bounds, Saturates DEF Tick
  <2> QED
    BY <2>1, <2>2, <2>4, <2>5
<1> QED
  BY <1>1, <1>2, <1>3, <1>4, <1>5, <1>6, <1>7, <1>8
     DEF Next, RefreshNext, Crash, vars, pluginVars, fetchVars

LEMMA StaleCacheStep == ASSUME IInv, [Next]_vars PROVE StaleCache'
<1> USE DEF IInv, TypeOK, StaleCache
<1>1. CASE UNCHANGED <<key, since, keys, age>>
  BY <1>1
<1>2. ASSUME NEW r \in Requests, RequestNext(r)
      PROVE  StaleCache'
  BY <1>2, RequestStep
<1>3. ASSUME NEW r \in Fetchers, FetchOk(r)
      PROVE  StaleCache'
  BY <1>3 DEF FetchOk, pluginVars, cacheVars
<1>4. CASE since' = 0
  <2>1. TypeOK'
    BY TypeStep
  <2>2. age' \in Nat
    BY <2>1, JwksAssumption
  <2>3. 0 <= age' + MaxFetch
    BY <2>2, NotNegative
  <2> QED
    BY <1>4, <2>2, <2>3
<1>5. ASSUME NEW r \in Fetchers, Store(r)
      PROVE  StaleCache'
  <2>1. got[r] # key => since <= wait[r]
    BY <1>5 DEF Store, StaleFetch
  <2>2. since \in Nat /\ wait[r] \in 0..MaxFetch
    OBVIOUS
  <2>3. keys' = got[r] /\ age' = 0 /\ key' = key /\ since' = since
    BY <1>5 DEF Store, pluginVars
  <2> QED
    BY <2>1, <2>2, <2>3, JwksAssumption
<1>6. CASE RestartApi
  BY <1>6 DEF RestartApi
<1>7. CASE Tick
  <2>1. since' <= since + 1 /\ since' \in Nat
    BY <1>7, Bounds, Saturates DEF Tick
  <2>2. age' <= StaleAfter => age' = age + 1
    BY <1>7, JwksAssumption, Saturates DEF Tick
  <2>3. key' = key /\ keys' = keys
    BY <1>7 DEF Tick
  <2>4. SUFFICES ASSUME keys \notin {0, key}, age' <= StaleAfter
                 PROVE  since' <= age' + MaxFetch
    BY <2>3
  <2>5. age' = age + 1 /\ age \in Nat /\ since \in Nat
    BY <2>2, <2>4
  <2>6. since <= age + MaxFetch
    BY <2>4, <2>5, JwksAssumption
  <2> QED
    BY <2>1, <2>5, <2>6, JwksAssumption
<1> QED
  BY <1>1, <1>2, <1>3, <1>4, <1>5, <1>6, <1>7
     DEF Next, RefreshNext, FetchFail, Crash, Restart, vars, pluginVars, cacheVars

LEMMA StaleInHandStep == ASSUME IInv, [Next]_vars PROVE StaleInHand'
<1> USE DEF IInv, TypeOK, StaleInHand
<1>b. Boot \in Fetchers /\ Boot \notin Requests /\ Requests \subseteq Fetchers
  BY JwksAssumption DEF Fetchers
<1>1. CASE UNCHANGED <<key, since, keys, pc, held>>
  BY <1>1
<1>2. ASSUME NEW r \in Requests, RequestNext(r)
      PROVE  StaleInHand'
  <2>1. key' = key /\ since' = since /\ keys' = keys
    BY <1>2, RequestStep
  <2>2. pc'[r] # "reread"
    BY <1>b, <1>2 DEF RequestNext, LocalNext, Mint, Arrive, Lookup, Reread, Verify, Release
  <2>3. ASSUME pc'[r] = "verify", held'[r] # key
        PROVE  since <= Outage
    <3>1. CASE Lookup(r)
      <4>1. keys # 0 /\ ~stale /\ held'[r] = keys
        BY <1>b, <2>3, <3>1 DEF Lookup
      <4>2. age <= StaleAfter /\ age \in Nat /\ since \in Nat
        BY <4>1, JwksAssumption DEF stale
      <4>3. since <= age + MaxFetch
        BY <2>3, <4>1, <4>2 DEF StaleCache
      <4> QED
        BY <4>2, <4>3, JwksAssumption DEF Outage
    <3>2. CASE Reread(r)
      BY <1>b, <2>3, <3>2 DEF Reread
    <3> QED
      BY <1>b, <1>2, <2>3, <3>1, <3>2 DEF RequestNext, LocalNext, Mint, Arrive, Verify, Release
  <2> QED
    BY <1>b, <1>2, <2>1, <2>2, <2>3, RequestStep
<1>3. ASSUME NEW r \in Fetchers, FetchOk(r)
      PROVE  StaleInHand'
  BY <1>b, <1>3 DEF FetchOk, pluginVars, cacheVars
<1>4. CASE since' = 0
  BY <1>4, Bounds
<1>5. ASSUME NEW r \in Fetchers, Store(r)
      PROVE  StaleInHand'
  <2>1. got[r] # key => since <= wait[r]
    BY <1>5 DEF Store, StaleFetch
  <2>2. since \in Nat /\ wait[r] \in 0..MaxFetch
    OBVIOUS
  <2>3. got[r] # key => since <= Outage
    BY <2>1, <2>2, Bounds, JwksAssumption
  <2>4. keys' = got[r] /\ key' = key /\ since' = since /\ held' = held
    BY <1>5 DEF Store, pluginVars
  <2>5. pc'[r] # "verify" /\ \A q \in Fetchers : q # r => pc'[q] = pc[q]
    BY <1>5 DEF Store
  <2> QED
    BY <1>b, <2>3, <2>4, <2>5
<1>6. CASE RestartApi
  BY <1>b, <1>6 DEF RestartApi
<1>7. CASE Tick
  BY <1>b, <1>7 DEF Tick
<1> QED
  BY <1>1, <1>2, <1>3, <1>4, <1>5, <1>6, <1>7
     DEF Next, RefreshNext, FetchFail, Crash, Restart, vars, pluginVars, cacheVars, fetchVars

LEMMA BoundedOutageStep == ASSUME IInv, [Next]_vars PROVE BoundedOutage'
<1> USE DEF IInv, TypeOK, BoundedOutage, GoodToken
<1>b. Boot \in Fetchers /\ Boot \notin Requests /\ Requests \subseteq Fetchers
  BY JwksAssumption DEF Fetchers
<1>1. CASE UNCHANGED <<key, since, tok, left, verdict>> /\ (up' => up)
  BY <1>1
<1>2. ASSUME NEW r \in Requests, RequestNext(r)
      PROVE  BoundedOutage'
  <2>1. key' = key /\ since' = since /\ up' = up
    BY <1>2, RequestStep
  <2>2. ASSUME verdict'[r] = "refused", tok'[r] = key, left'[r] > 0, up
        PROVE  since <= Outage
    <3>1. CASE Mint(r)
      BY <3>1, <2>2 DEF Mint, Decided
    <3>2. CASE Lookup(r)
      BY <3>2, <2>2 DEF Lookup, Decided
    <3>2a. CASE Arrive(r)
      BY <3>2a, <2>2 DEF Arrive, Decided
    <3>3. CASE Reread(r)
      <4>1. verdict[r] = "none"
        BY <3>3 DEF Reread, Decided
      <4>2. keys = 0
        BY <2>2, <3>3, <4>1 DEF Reread
      <4>3. keys # key
        BY <4>2 DEF Keys
      <4> QED
        BY <3>3, <4>3 DEF Reread, StaleInHand
    <3>4. CASE Verify(r)
      <4>1. held[r] # key
        BY <2>2, <3>4 DEF Verify, tokenVars
      <4> QED
        BY <3>4, <4>1 DEF Verify, StaleInHand
    <3>5. CASE Release(r)
      BY <3>5, <2>2 DEF Release
    <3> QED
      BY <1>2, <3>1, <3>2, <3>2a, <3>3, <3>4, <3>5 DEF RequestNext, LocalNext
  <2> QED
    BY <1>b, <1>2, <2>1, <2>2, RequestStep
<1>3. CASE since' = 0
  BY <1>3, Bounds
<1>4. CASE Tick
  BY <1>b, <1>4 DEF Tick, Decided
<1> QED
  BY <1>1, <1>2, <1>3, <1>4
     DEF Next, RefreshNext, FetchOk, FetchFail, Store, Crash, Restart, RestartApi, vars,
         pluginVars, tokenVars

-----------------------------------------------------------------------------
(* The theorems. *)

LEMMA InvInit == Init => IInv
<1> SUFFICES ASSUME Init
             PROVE  IInv
  OBVIOUS
<1>1. TypeOK
  BY TypeInit
<1>b. Requests \subseteq Fetchers /\ Boot \notin Requests
  BY JwksAssumption DEF Fetchers
<1>2. KeyLeft
  BY DEF Init, KeyLeft
<1>3. Decided /\ StaleFetch
  BY <1>b DEF Init, Decided, StaleFetch
<1>4. StaleCache
  BY DEF Init, StaleCache
<1>5. StaleInHand
  BY <1>b DEF Init, StaleInHand
<1>6. BoundedOutage
  BY DEF Init, BoundedOutage
<1> QED
  BY <1>1, <1>2, <1>3, <1>4, <1>5, <1>6 DEF IInv

LEMMA InvNext == IInv /\ [Next]_vars => IInv'
<1> SUFFICES ASSUME IInv, [Next]_vars
             PROVE  IInv'
  OBVIOUS
<1>1. TypeOK' /\ KeyLeft'
  BY TypeStep, KeyLeftStep DEF IInv
<1> QED
  BY <1>1, DecidedStep, StaleFetchStep, StaleCacheStep, StaleInHandStep, BoundedOutageStep
     DEF IInv

(* The inductive invariant holds of every reachable state: whoever is about  *)
(* to use an old key, or has one to store, has it for no longer than it may. *)
THEOREM Invariant == Spec => []IInv
BY InvInit, InvNext, PTL DEF Spec

(* The state of the cache, of the plugin and of every request is of its type *)
(* in every reachable state.                                                 *)
THEOREM TypeCorrect == Spec => []TypeOK
<1>1. IInv => TypeOK
  BY DEF IInv
<1> QED
  BY <1>1, Invariant, PTL

(* BoundedOutage (jwks.keyFor and refresh against the exchange plugin's new  *)
(* key on every start): whatever the three durations are and however many    *)
(* fetches overlap, a good token is refused no longer than the cache stays   *)
(* fresh plus the time of one fetch after the restart or the failed fetch.   *)
THEOREM Bounded == Spec => []BoundedOutage
<1>1. IInv => BoundedOutage
  BY DEF IInv
<1> QED
  BY <1>1, Invariant, PTL

(* SettledUntilRestart: once the cache holds the current key and no fetch    *)
(* under way holds another, only a start of the plugin or of the resource    *)
(* API changes that; no refresh, failed or concurrent, loses the key.        *)
THEOREM SettledStays == Spec => SettledUntilRestart
<1>b. Boot \in Fetchers /\ Requests \subseteq Fetchers
  BY DEF Fetchers
<1>1. ASSUME IInv, [Next]_vars
      PROVE  [Settled /\ key' = key => Settled' \/ RestartApi]_vars
  <2> SUFFICES ASSUME Settled, key' = key, ~RestartApi
               PROVE  Settled'
    OBVIOUS
  <2> USE <1>1 DEF IInv, TypeOK, Settled
  <2>1. CASE UNCHANGED <<keys, pc, got>>
    BY <2>1
  <2>2. ASSUME NEW r \in Requests, RequestNext(r)
        PROVE  Settled'
    BY <1>b, <2>2, RequestStep
  <2>3. ASSUME NEW r \in Fetchers, FetchOk(r)
        PROVE  Settled'
    BY <2>3 DEF FetchOk, cacheVars
  <2>4. ASSUME NEW r \in Fetchers, FetchFail(r)
        PROVE  Settled'
    <3>1. pc'[r] # "store" /\ \A q \in Fetchers : q # r => pc'[q] = pc[q]
      BY <2>4 DEF FetchFail
    <3> QED
      BY <2>4, <3>1 DEF FetchFail, cacheVars
  <2>5. ASSUME NEW r \in Fetchers, Store(r)
        PROVE  Settled'
    BY <2>5 DEF Store
  <2> QED
    BY <1>1, <2>1, <2>2, <2>3, <2>4, <2>5
       DEF Next, RefreshNext, Crash, Restart, Tick, vars, cacheVars, fetchVars
<1> QED
  BY <1>1, Invariant, PTL DEF Spec, SettledUntilRestart
=============================================================================
