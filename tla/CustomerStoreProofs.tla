------------------------- MODULE CustomerStoreProofs -------------------------
(***************************************************************************)
(* Proofs about CustomerStore, for every set of requests, customers and    *)
(* emails: the invariants that MCCustomerStore_records.cfg checks for      *)
(* three requests, and the refinement of CustomerRegister.                 *)
(***************************************************************************)
EXTENDS CustomerStore, TLAPS

-----------------------------------------------------------------------------
(* The inductive invariant. *)

(* What a handler has been asked for, by where it is.                        *)
InStep ==
    \A r \in Requests :
        /\ pc[r] = "idle" <=> ask[r] = None
        /\ pc[r] = "idle" => answer[r] = None
        /\ pc[r] = "find" => ask[r].method = "GET"
        /\ pc[r] \in Locked \cup {"lock"} => ask[r].method = "PUT"
        /\ pc[r] \in {"set", "setting"} => ask[r].email # NoEmail
        /\ pc[r] \in {"unlock", "echo"} /\ ask[r].method = "PUT" => cust[r] # None

(* The holder of the mutex is the one between Lock and Unlock, and whatever  *)
(* is being written is written by it.                                        *)
MutexHeld ==
    /\ \A r \in Requests : pc[r] \in Locked <=> customersMu = r
    /\ \A r \in Requests : pc[r] \in Locked =>
          /\ writing = IF pc[r] = "setting" THEN {cust[r]} ELSE {}
          /\ mapWriter = IF pc[r] = "storing" THEN r ELSE None
    /\ customersMu = None => writing = {} /\ mapWriter = None

(* An object is of one customer for good, and nobody else knows the object   *)
(* that an update has just made before it is in the map.                     *)
IsOf(o, i) == IF o \in Known THEN o = i ELSE ask[o] # None /\ ask[o].id = i
Stored(o)  == o \in Known \/ pc[o] \in {"unlock", "echo", "done"}

Updating == {"set", "setting", "store", "storing"}

ObjectsApart ==
    /\ \A i \in Ids : customers[i] # None => IsOf(customers[i], i) /\ Stored(customers[i])
    /\ \A r \in Requests : pc[r] \in Updating \cup {"unlock", "echo"} /\ cust[r] # None =>
          IsOf(cust[r], ask[r].id) /\ (cust[r] = r \/ Stored(cust[r]))

(* Under the mutex, the object of an update is still the one in the map, or  *)
(* there still is none.                                                      *)
LookupValid ==
    \A r \in Requests : pc[r] \in Updating =>
        cust[r] = IF customers[ask[r].id] = None THEN r ELSE customers[ask[r].id]

(* A new object has no email until its own update sets one; an update that   *)
(* is about to be stored has set the email it was asked to.                  *)
EmailsSet ==
    \A r \in Requests :
        /\ pc[r] \in {"idle", "find", "lock", "lookup", "set", "setting", "lost"} =>
              email[r] = NoEmail
        /\ pc[r] \in {"store", "storing"} /\ (ask[r].email # NoEmail \/ cust[r] = r) =>
              email[cust[r]] = ask[r].email

(* What a handler would read now is among what it may answer.                *)
SeenNow ==
    \A r \in Requests :
        /\ pc[r] = "find" => Current(ask[r].id) \in seen[r]
        /\ pc[r] \in {"unlock", "echo"} =>
              (IF cust[r] = None THEN Unknown ELSE email[cust[r]]) \in seen[r]

IInv ==
    /\ TypeOK
    /\ InStep
    /\ MutexHeld
    /\ OneUpdateAtATime
    /\ ObjectsApart
    /\ LookupValid
    /\ EmailsSet
    /\ SeenNow
    /\ AnswersCurrent

-----------------------------------------------------------------------------
(* One lemma per conjunct. *)

(* The steps of a request, without those that start the process again.       *)
Handler(r) ==
    \/ \E i \in Ids : StartGet(r, i)
    \/ \E i \in Ids, e \in Emails \cup {NoEmail} : StartPut(r, i, e)
    \/ Find(r)
    \/ Lock(r)
    \/ LookupOrDefault(r)
    \/ SetBegin(r)
    \/ SetEnd(r)
    \/ StoreBegin(r)
    \/ StoreEnd(r)
    \/ Unlock(r)
    \/ Echo(r)

LEMMA StepKinds ==
    ASSUME [Next]_vars
    PROVE  (\E r \in Requests : Handler(r)) \/ StartAgain \/ UNCHANGED vars
BY DEF Next, RequestNext, FatalRace, PodStop, Handler

(* Nobody but the request itself moves on, and it does so in order.          *)
LEMMA OwnProgress ==
    ASSUME TypeOK, NEW r \in Requests, Handler(r)
    PROVE  /\ pc' \in [Requests -> {"idle", "find", "lock", "echo", "done", "lost"} \cup Locked]
           /\ \A q \in Requests : q # r => /\ pc'[q] = pc[q]
                                           /\ ask'[q] = ask[q]
                                           /\ cust'[q] = cust[q]
                                           /\ answer'[q] = answer[q]
           /\ pc[r] # "idle" => ask'[r] = ask[r]
<1> USE DEF TypeOK, Locked
<1>1. ASSUME NEW i \in Ids, StartGet(r, i)
      PROVE  /\ pc' = [pc EXCEPT ![r] = "find"] /\ pc[r] = "idle"
             /\ UNCHANGED <<cust, answer>>
             /\ ask' = [ask EXCEPT ![r] = [method |-> "GET", id |-> i, email |-> NoEmail]]
  BY <1>1 DEF StartGet
<1>2. ASSUME NEW i \in Ids, NEW e \in Emails \cup {NoEmail}, StartPut(r, i, e)
      PROVE  /\ pc' = [pc EXCEPT ![r] = "lock"] /\ pc[r] = "idle"
             /\ UNCHANGED <<cust, answer>>
             /\ ask' = [ask EXCEPT ![r] = [method |-> "PUT", id |-> i, email |-> e]]
  BY <1>2 DEF StartPut
<1>3. CASE Find(r)
  BY <1>3 DEF Find
<1>4. CASE Lock(r)
  BY <1>4 DEF Lock
<1>5. CASE LookupOrDefault(r)
  BY <1>5 DEF LookupOrDefault
<1>6. CASE SetBegin(r)
  BY <1>6 DEF SetBegin
<1>7. CASE SetEnd(r)
  BY <1>7 DEF SetEnd
<1>8. CASE StoreBegin(r)
  BY <1>8 DEF StoreBegin
<1>9. CASE StoreEnd(r)
  BY <1>9 DEF StoreEnd
<1>10. CASE Unlock(r)
  BY <1>10 DEF Unlock
<1>11. CASE Echo(r)
  BY <1>11 DEF Echo
<1> QED
  BY <1>1, <1>2, <1>3, <1>4, <1>5, <1>6, <1>7, <1>8, <1>9, <1>10, <1>11 DEF Handler

LEMMA TypeStep == ASSUME IInv, [Next]_vars PROVE TypeOK'
<1> USE DEF IInv, TypeOK, Objects
<1>1. CASE UNCHANGED vars
  BY <1>1 DEF vars, requestVars, dataVars
<1>2. ASSUME NEW i \in Ids
      PROVE  Current(i) \in Values \cup {Unknown}
  BY DEF Current
<1>3. ASSUME NEW r \in Requests, NEW i \in Ids, StartGet(r, i)
      PROVE  TypeOK'
  <2>1. [method |-> "GET", id |-> i, email |-> NoEmail] \in Asks
    BY DEF Asks
  <2>2. ask' \in [Requests -> Asks \cup {None}]
    BY <1>3, <2>1 DEF StartGet
  <2>3. seen' \in [Requests -> SUBSET (Values \cup {Unknown})]
    BY <1>2, <1>3 DEF StartGet
  <2> QED
    BY <1>3, <2>2, <2>3 DEF StartGet, dataVars
<1>4. ASSUME NEW r \in Requests, NEW i \in Ids, NEW e \in Emails \cup {NoEmail}, StartPut(r, i, e)
      PROVE  TypeOK'
  <2>1. [method |-> "PUT", id |-> i, email |-> e] \in Asks
    BY DEF Asks
  <2>2. ask' \in [Requests -> Asks \cup {None}]
    BY <1>4, <2>1 DEF StartPut
  <2> QED
    BY <1>4, <2>2 DEF StartPut, dataVars
<1>5. ASSUME NEW r \in Requests, pc[r] # "idle"
      PROVE  /\ ask[r] \in Asks
             /\ ask[r].id \in Ids
             /\ ask[r].email \in Values
  BY <1>5 DEF InStep, Asks, Values
<1>6. ASSUME NEW r \in Requests, Find(r)
      PROVE  TypeOK'
  BY <1>5, <1>6 DEF Find, dataVars
<1>7. ASSUME NEW r \in Requests, Lock(r)
      PROVE  TypeOK'
  BY <1>7 DEF Lock, Locked
<1>8. ASSUME NEW r \in Requests, LookupOrDefault(r)
      PROVE  TypeOK'
  BY <1>5, <1>8, StoreAssumption DEF LookupOrDefault, dataVars, Locked
<1>9. ASSUME NEW r \in Requests, SetBegin(r)
      PROVE  TypeOK'
  BY <1>9 DEF SetBegin, Locked
<1>10. ASSUME NEW i \in Ids, NEW v \in Values \cup {Unknown}, Observe(i, v)
       PROVE  seen' \in [Requests -> SUBSET (Values \cup {Unknown})]
  BY <1>10 DEF Observe
<1>11. ASSUME NEW r \in Requests, SetEnd(r)
       PROVE  TypeOK'
  <2>1. seen' \in [Requests -> SUBSET (Values \cup {Unknown})]
    BY <1>2, <1>5, <1>10, <1>11 DEF SetEnd
  <2> QED
    BY <1>5, <1>11, <2>1 DEF SetEnd, Locked
<1>12. ASSUME NEW r \in Requests, StoreBegin(r)
       PROVE  TypeOK'
  BY <1>12 DEF StoreBegin, Locked
<1>13. ASSUME NEW r \in Requests, StoreEnd(r)
       PROVE  TypeOK'
  <2>1. cust[r] \in Objects /\ email[cust[r]] \in Values
    BY <1>13 DEF StoreEnd
  <2>2. seen' \in [Requests -> SUBSET (Values \cup {Unknown})]
    BY <1>5, <1>10, <1>13, <2>1 DEF StoreEnd
  <2> QED
    BY <1>5, <1>13, <2>1, <2>2 DEF StoreEnd, Locked
<1>14. ASSUME NEW r \in Requests, Unlock(r)
       PROVE  TypeOK'
  BY <1>14 DEF Unlock, Locked
<1>15. ASSUME NEW r \in Requests, Echo(r)
       PROVE  TypeOK'
  <2>1. answer' \in [Requests -> Values \cup {Torn, Unknown, None}]
    BY <1>15 DEF Echo
  <2> QED
    BY <1>15, <2>1 DEF Echo, dataVars, Locked
<1>16. CASE StartAgain
  <2>1. SeedMap \in [Ids -> Objects \cup {None}] /\ SeedEmails \in [Objects -> Values]
    BY DEF SeedMap, SeedEmails, Values
  <2> QED
    BY <1>16, <2>1 DEF StartAgain, Locked
<1> QED
  BY <1>1, <1>3, <1>4, <1>6, <1>7, <1>8, <1>9, <1>11, <1>12, <1>13, <1>14, <1>15, <1>16,
     StepKinds DEF Handler

LEMMA InStepStep == ASSUME IInv, [Next]_vars PROVE InStep'
<1> USE DEF IInv, TypeOK, InStep, Locked
<1>1. CASE UNCHANGED vars
  BY <1>1 DEF vars, requestVars
<1>2. ASSUME NEW r \in Requests, NEW i \in Ids, StartGet(r, i)
      PROVE  InStep'
  <2> DEFINE a == [method |-> "GET", id |-> i, email |-> NoEmail]
  <2>1. a # None /\ a.method = "GET"
    BY StoreAssumption DEF Asks
  <2>2. ask' = [ask EXCEPT ![r] = a] /\ pc' = [pc EXCEPT ![r] = "find"]
        /\ UNCHANGED <<cust, answer>>
    BY <1>2 DEF StartGet
  <2> HIDE DEF a
  <2> QED
    BY <2>1, <2>2
<1>3. ASSUME NEW r \in Requests, NEW i \in Ids, NEW e \in Emails \cup {NoEmail}, StartPut(r, i, e)
      PROVE  InStep'
  <2> DEFINE a == [method |-> "PUT", id |-> i, email |-> e]
  <2>1. a # None /\ a.method = "PUT"
    BY StoreAssumption DEF Asks
  <2>2. ask' = [ask EXCEPT ![r] = a] /\ pc' = [pc EXCEPT ![r] = "lock"]
        /\ UNCHANGED <<cust, answer>>
    BY <1>3 DEF StartPut
  <2> HIDE DEF a
  <2> QED
    BY <2>1, <2>2
<1>4. ASSUME NEW r \in Requests, Find(r)
      PROVE  InStep'
  BY <1>4 DEF Find
<1>5. ASSUME NEW r \in Requests, Lock(r)
      PROVE  InStep'
  BY <1>5 DEF Lock
<1>6. ASSUME NEW r \in Requests, LookupOrDefault(r)
      PROVE  InStep'
  BY <1>6 DEF LookupOrDefault
<1>7. ASSUME NEW r \in Requests, SetBegin(r)
      PROVE  InStep'
  BY <1>7 DEF SetBegin
<1>8. ASSUME NEW r \in Requests, SetEnd(r)
      PROVE  InStep'
  BY <1>8 DEF SetEnd
<1>9. ASSUME NEW r \in Requests, StoreBegin(r)
      PROVE  InStep'
  BY <1>9 DEF StoreBegin
<1>10. ASSUME NEW r \in Requests, StoreEnd(r)
       PROVE  InStep'
  BY <1>10 DEF StoreEnd
<1>11. ASSUME NEW r \in Requests, Unlock(r)
       PROVE  InStep'
  BY <1>11 DEF Unlock
<1>12. ASSUME NEW r \in Requests, Echo(r)
       PROVE  InStep'
  BY <1>12 DEF Echo
<1>13. CASE StartAgain
  BY <1>13 DEF StartAgain
<1> QED
  BY <1>1, <1>2, <1>3, <1>4, <1>5, <1>6, <1>7, <1>8, <1>9, <1>10, <1>11, <1>12, <1>13,
     StepKinds DEF Handler

LEMMA MutexStep == ASSUME IInv, [Next]_vars PROVE MutexHeld'
<1> USE StoreAssumption DEF IInv, TypeOK, MutexHeld, Locked
<1>1. CASE UNCHANGED vars
  BY <1>1 DEF vars, requestVars, dataVars
<1>2. ASSUME NEW r \in Requests, NEW i \in Ids, StartGet(r, i)
      PROVE  MutexHeld'
  BY <1>2 DEF StartGet, dataVars
<1>3. ASSUME NEW r \in Requests, NEW i \in Ids, NEW e \in Emails \cup {NoEmail}, StartPut(r, i, e)
      PROVE  MutexHeld'
  BY <1>3 DEF StartPut, dataVars
<1>4. ASSUME NEW r \in Requests, Find(r)
      PROVE  MutexHeld'
  BY <1>4 DEF Find, dataVars
<1>5. ASSUME NEW r \in Requests, Lock(r)
      PROVE  MutexHeld'
  BY <1>5 DEF Lock
<1>6. ASSUME NEW r \in Requests, LookupOrDefault(r)
      PROVE  MutexHeld'
  BY <1>6 DEF LookupOrDefault, dataVars
<1>7. ASSUME NEW r \in Requests, SetBegin(r)
      PROVE  MutexHeld'
  BY <1>7 DEF SetBegin
<1>8. ASSUME NEW r \in Requests, SetEnd(r)
      PROVE  MutexHeld'
  BY <1>8 DEF SetEnd
<1>9. ASSUME NEW r \in Requests, StoreBegin(r)
      PROVE  MutexHeld'
  BY <1>9 DEF StoreBegin
<1>10. ASSUME NEW r \in Requests, StoreEnd(r)
       PROVE  MutexHeld'
  BY <1>10 DEF StoreEnd
<1>11. ASSUME NEW r \in Requests, Unlock(r)
       PROVE  MutexHeld'
  BY <1>11 DEF Unlock
<1>12. ASSUME NEW r \in Requests, Echo(r)
       PROVE  MutexHeld'
  BY <1>12 DEF Echo, dataVars
<1>13. CASE StartAgain
  BY <1>13 DEF StartAgain
<1> QED
  BY <1>1, <1>2, <1>3, <1>4, <1>5, <1>6, <1>7, <1>8, <1>9, <1>10, <1>11, <1>12, <1>13,
     StepKinds DEF Handler

LEMMA OneUpdate == MutexHeld => OneUpdateAtATime
BY DEF MutexHeld, OneUpdateAtATime

(* While one update is under the mutex, no other is.                         *)
LEMMA Alone ==
    ASSUME IInv, NEW r \in Requests, pc[r] \in Locked, NEW q \in Requests, pc[q] \in Locked
    PROVE  q = r
BY DEF IInv, MutexHeld

LEMMA LookupStep == ASSUME IInv, [Next]_vars PROVE LookupValid'
<1> USE DEF IInv, TypeOK, LookupValid, Updating
<1>1. CASE UNCHANGED vars
  BY <1>1 DEF vars, requestVars, dataVars
<1>2. ASSUME NEW r \in Requests, LookupOrDefault(r)
      PROVE  LookupValid'
  BY <1>2 DEF LookupOrDefault, dataVars
<1>3. ASSUME NEW r \in Requests, SetBegin(r) \/ SetEnd(r) \/ StoreBegin(r)
      PROVE  LookupValid'
  BY <1>3 DEF SetBegin, SetEnd, StoreBegin
<1>4. ASSUME NEW r \in Requests, StoreEnd(r)
      PROVE  LookupValid'
  <2>1. ASSUME NEW q \in Requests, pc'[q] \in Updating
        PROVE  FALSE
    <3>1. q # r /\ pc'[q] = pc[q]
      BY <1>4, <2>1 DEF StoreEnd
    <3> QED
      BY <1>4, <2>1, <3>1, Alone DEF StoreEnd, Locked
  <2> QED
    BY <2>1
<1>5. ASSUME NEW r \in Requests, Handler(r), pc'[r] \notin Updating, UNCHANGED customers
      PROVE  LookupValid'
  BY <1>5, OwnProgress
<1>6. ASSUME NEW r \in Requests, NEW i \in Ids, StartGet(r, i)
      PROVE  pc'[r] \notin Updating /\ UNCHANGED customers
  BY <1>6 DEF StartGet, dataVars
<1>7. ASSUME NEW r \in Requests, NEW i \in Ids, NEW e \in Emails \cup {NoEmail}, StartPut(r, i, e)
      PROVE  pc'[r] \notin Updating /\ UNCHANGED customers
  BY <1>7 DEF StartPut, dataVars
<1>8. ASSUME NEW r \in Requests, Find(r) \/ Lock(r) \/ Unlock(r) \/ Echo(r)
      PROVE  pc'[r] \notin Updating /\ UNCHANGED customers
  BY <1>8 DEF Find, Lock, Unlock, Echo, dataVars
<1>9. CASE StartAgain
  BY <1>9 DEF StartAgain
<1> QED
  BY <1>1, <1>2, <1>3, <1>4, <1>5, <1>6, <1>7, <1>8, <1>9, StepKinds DEF Handler

(* Once an object is in the map it stays what it is, until the next start.   *)
LEMMA ObjectsStay ==
    ASSUME IInv, NEW r \in Requests, Handler(r)
    PROVE  /\ \A o \in Objects, i \in Ids : IsOf(o, i) => IsOf(o, i)'
           /\ \A o \in Objects : Stored(o) => Stored(o)'
<1> USE DEF IInv, TypeOK, Objects
<1>1. ASSUME NEW o \in Objects, NEW i \in Ids, IsOf(o, i)
      PROVE  IsOf(o, i)'
  BY <1>1, OwnProgress DEF IsOf, InStep
<1>2. pc[r] \in {"unlock", "echo", "done"} => pc'[r] \in {"unlock", "echo", "done"}
  BY DEF Handler, StartGet, StartPut, Find, Lock, LookupOrDefault, SetBegin, SetEnd,
         StoreBegin, StoreEnd, Unlock, Echo
<1>3. ASSUME NEW o \in Objects, Stored(o)
      PROVE  Stored(o)'
  BY <1>2, <1>3, OwnProgress DEF Stored
<1> QED
  BY <1>1, <1>3

LEMMA ApartStep == ASSUME IInv, [Next]_vars PROVE ObjectsApart'
<1> DEFINE InMap == \A i \in Ids : customers[i] # None => IsOf(customers[i], i) /\ Stored(customers[i])
<1> DEFINE InHand(r) == pc[r] \in Updating \cup {"unlock", "echo"} /\ cust[r] # None =>
                          IsOf(cust[r], ask[r].id) /\ (cust[r] = r \/ Stored(cust[r]))
<1> USE DEF IInv, TypeOK, ObjectsApart
<1>1. CASE UNCHANGED vars
  BY <1>1 DEF vars, requestVars, dataVars, IsOf, Stored
<1>2. CASE StartAgain
  <2>1. InMap'
    BY <1>2 DEF StartAgain, SeedMap, IsOf, Stored
  <2>2. \A r \in Requests : InHand(r)'
    BY <1>2 DEF StartAgain, Updating
  <2> QED
    BY <2>1, <2>2
<1>3. ASSUME NEW r \in Requests, Handler(r)
      PROVE  ObjectsApart'
  <2>1. ASSUME UNCHANGED customers
        PROVE  InMap'
    BY <1>3, <2>1, ObjectsStay
  <2>2. ASSUME NEW q \in Requests, q # r
        PROVE  InHand(q)'
    <3> SUFFICES ASSUME pc'[q] \in Updating \cup {"unlock", "echo"}, cust'[q] # None
                 PROVE  IsOf(cust[q], ask[q].id)' /\ (cust'[q] = q \/ Stored(cust[q])')
      OBVIOUS
    <3>1. pc'[q] = pc[q] /\ ask'[q] = ask[q] /\ cust'[q] = cust[q]
      BY <1>3, <2>2, OwnProgress
    <3>2. ask[q] \in Asks /\ ask[q].id \in Ids /\ cust[q] \in Objects
      BY <3>1 DEF InStep, Updating, Asks
    <3> QED
      BY <1>3, <3>1, <3>2, ObjectsStay
  <2>3. CASE pc'[r] \notin Updating \cup {"unlock", "echo"} /\ UNCHANGED customers
    BY <2>1, <2>2, <2>3
  <2>4. CASE Find(r) \/ LookupOrDefault(r)
    <3>1. /\ ask' = ask /\ ask[r] \in Asks /\ ask[r].id \in Ids /\ UNCHANGED customers
          /\ cust'[r] = r \/ cust'[r] = customers[ask[r].id]
          /\ Find(r) => cust'[r] = customers[ask[r].id]
      BY <2>4 DEF Find, LookupOrDefault, InStep, Asks, dataVars
    <3>2. CASE cust'[r] = r
      <4>1. IsOf(r, ask[r].id)' \/ r \in Known
        BY <3>1, StoreAssumption DEF IsOf
      <4> QED
        BY <2>1, <2>2, <3>1, <3>2, <4>1, StoreAssumption
    <3>3. CASE cust'[r] = customers[ask[r].id] /\ cust'[r] # None
      <4>1. cust'[r] \in Objects /\ IsOf(cust'[r], ask[r].id) /\ Stored(cust'[r])
        BY <3>1, <3>3
      <4>2. IsOf(cust[r], ask[r].id)' /\ Stored(cust[r])'
        BY <1>3, <3>1, <4>1, ObjectsStay DEF IsOf, Stored
      <4> QED
        BY <2>1, <2>2, <3>1, <4>2
    <3>4. CASE cust'[r] = None
      BY <2>1, <2>2, <3>1, <3>4
    <3> QED
      BY <3>1, <3>2, <3>3, <3>4
  <2>5. CASE SetBegin(r) \/ SetEnd(r) \/ StoreBegin(r) \/ Unlock(r)
    <3>1. /\ pc[r] \in Updating \cup {"unlock"}
          /\ UNCHANGED <<ask, cust, customers>>
          /\ ask[r] \in Asks /\ ask[r].id \in Ids
      BY <2>5 DEF SetBegin, SetEnd, StoreBegin, Unlock, Updating, InStep, Asks
    <3>2. InHand(r)'
      BY <1>3, <3>1, ObjectsStay
    <3> QED
      BY <2>1, <2>2, <3>1, <3>2
  <2>6. CASE StoreEnd(r)
    <3>1. /\ pc[r] = "storing" /\ pc'[r] = "unlock" /\ ask' = ask /\ cust' = cust
          /\ cust[r] \in Objects /\ cust[r] # None
          /\ ask[r] \in Asks /\ ask[r].id \in Ids
          /\ customers' = [customers EXCEPT ![ask[r].id] = cust[r]]
      BY <2>6 DEF StoreEnd, InStep, Asks
    <3>2. IsOf(cust[r], ask[r].id)' /\ Stored(cust[r])'
      BY <1>3, <3>1, ObjectsStay DEF Updating, Stored
    <3>3. InMap'
      BY <1>3, <3>1, <3>2, ObjectsStay
    <3> QED
      BY <2>2, <3>1, <3>2, <3>3
  <2>7. ASSUME \/ \E i \in Ids : StartGet(r, i)
               \/ \E i \in Ids, e \in Emails \cup {NoEmail} : StartPut(r, i, e)
               \/ Lock(r) \/ Echo(r)
        PROVE  pc'[r] \notin Updating \cup {"unlock", "echo"} /\ UNCHANGED customers
    BY <2>7 DEF StartGet, StartPut, Lock, Echo, Updating, dataVars
  <2> QED
    BY <1>3, <2>3, <2>4, <2>5, <2>6, <2>7 DEF Handler
<1> QED
  BY <1>1, <1>2, <1>3, StepKinds

LEMMA EmailsStep == ASSUME IInv, [Next]_vars PROVE EmailsSet'
<1> DEFINE Early == {"idle", "find", "lock", "lookup", "set", "setting", "lost"}
<1> USE DEF IInv, TypeOK, EmailsSet
<1>1. CASE UNCHANGED vars
  BY <1>1 DEF vars, requestVars, dataVars
<1>2. CASE StartAgain
  <2>1. \A r \in Requests : r \in Objects /\ SeedEmails[r] = NoEmail
    BY StoreAssumption DEF SeedEmails, Objects
  <2> QED
    BY <1>2, <2>1 DEF StartAgain
<1>3. ASSUME NEW r \in Requests, Handler(r), UNCHANGED email,
             pc'[r] \in Early => pc[r] \in Early,
             pc'[r] \in {"store", "storing"} => UNCHANGED cust /\ pc[r] \in {"store", "storing"}
      PROVE  EmailsSet'
  <2>1. ASSUME NEW q \in Requests, pc'[q] \in Early
        PROVE  email'[q] = NoEmail
    BY <1>3, <2>1, OwnProgress
  <2>2. ASSUME NEW q \in Requests, pc'[q] \in {"store", "storing"}
        PROVE  pc[q] \in {"store", "storing"} /\ ask'[q] = ask[q] /\ cust'[q] = cust[q]
    BY <1>3, <2>2, OwnProgress
  <2> QED
    BY <1>3, <2>1, <2>2
<1>4. ASSUME NEW r \in Requests, LookupOrDefault(r)
      PROVE  EmailsSet'
  <2>1. /\ pc[r] = "lookup" /\ ask' = ask /\ email' = email
        /\ pc' = [pc EXCEPT ![r] = IF ask[r].email = NoEmail THEN "store" ELSE "set"]
        /\ \A q \in Requests : q # r => cust'[q] = cust[q]
    BY <1>4 DEF LookupOrDefault, dataVars
  <2>2. email[r] = NoEmail
    BY <2>1
  <2> QED
    BY <2>1, <2>2
<1>5. ASSUME NEW r \in Requests, SetEnd(r)
      PROVE  EmailsSet'
  <2>1. /\ pc[r] = "setting" /\ ask' = ask /\ cust' = cust
        /\ pc' = [pc EXCEPT ![r] = "store"]
        /\ cust[r] \in Objects /\ email' = [email EXCEPT ![cust[r]] = ask[r].email]
    BY <1>5 DEF SetEnd
  <2>2. ASSUME NEW q \in Requests, pc'[q] \in Early
        PROVE  email'[q] = NoEmail
    <3>1. q # r /\ pc'[q] = pc[q] /\ q \in Objects
      BY <2>1, <2>2 DEF Objects
    <3>2. cust[r] = r \/ Stored(cust[r])
      BY <2>1 DEF ObjectsApart, Updating
    <3>3. cust[r] # q
      BY <2>2, <3>1, <3>2, StoreAssumption DEF Stored
    <3> QED
      BY <2>1, <2>2, <3>1, <3>3
  <2>3. ASSUME NEW q \in Requests, pc'[q] \in {"store", "storing"}
        PROVE  q = r
    BY <2>1, <2>3, Alone DEF Locked
  <2> QED
    BY <2>1, <2>2, <2>3
<1>6. ASSUME NEW r \in Requests, SetBegin(r) \/ StoreBegin(r)
      PROVE  EmailsSet'
  BY <1>6 DEF SetBegin, StoreBegin
<1>7. ASSUME NEW r \in Requests,
             \/ \E i \in Ids : StartGet(r, i)
             \/ \E i \in Ids, e \in Emails \cup {NoEmail} : StartPut(r, i, e)
             \/ Find(r) \/ Lock(r) \/ StoreEnd(r) \/ Unlock(r) \/ Echo(r)
      PROVE  /\ UNCHANGED email
             /\ pc'[r] \in Early => pc[r] \in Early
             /\ pc'[r] \notin {"store", "storing"}
  BY <1>7 DEF StartGet, StartPut, Find, Lock, StoreEnd, Unlock, Echo, dataVars
<1> QED
  BY <1>1, <1>2, <1>3, <1>4, <1>5, <1>6, <1>7, StepKinds DEF Handler

(* What is observed of a customer is added for every request that may still  *)
(* answer with it, and nothing is taken away from a request under way.       *)
LEMMA SeenGrows ==
    ASSUME IInv, NEW r \in Requests, Handler(r)
    PROVE  \A q \in Requests : pc[q] # "idle" => seen[q] \subseteq seen'[q]
<1> USE DEF IInv, TypeOK
<1>1. ASSUME NEW i, NEW v, Observe(i, v)
      PROVE  \A q \in Requests : seen[q] \subseteq seen'[q]
  BY <1>1 DEF Observe
<1>2. ASSUME NEW i \in Ids, StartGet(r, i)
      PROVE  \A q \in Requests : pc[q] # "idle" => seen[q] \subseteq seen'[q]
  BY <1>2 DEF StartGet
<1>3. CASE SetEnd(r) \/ StoreEnd(r)
  BY <1>1, <1>3 DEF SetEnd, StoreEnd
<1>4. ASSUME \/ \E i \in Ids, e \in Emails \cup {NoEmail} : StartPut(r, i, e)
             \/ Find(r) \/ Lock(r) \/ LookupOrDefault(r) \/ SetBegin(r) \/ StoreBegin(r)
             \/ Unlock(r) \/ Echo(r)
      PROVE  UNCHANGED seen
  BY <1>4 DEF StartPut, Find, Lock, LookupOrDefault, SetBegin, StoreBegin, Unlock, Echo
<1> QED
  BY <1>2, <1>3, <1>4 DEF Handler

(* What a handler would read now.                                            *)
Reading(r) == IF cust[r] = None THEN Unknown ELSE email[cust[r]]

LEMMA SetEndSeen ==
    ASSUME IInv, NEW r \in Requests, SetEnd(r), NEW q \in Requests, q # r
    PROVE  /\ pc[q] = "find" => Current(ask[q].id)' \in seen'[q]
           /\ pc[q] \in {"unlock", "echo"} => Reading(q)' \in seen'[q]
<1> USE DEF IInv, TypeOK
<1> DEFINE i == ask[r].id
<1> DEFINE v == IF customers[i] = cust[r] THEN ask[r].email ELSE Current(i)
<1>1. /\ pc[r] = "setting" /\ ask' = ask /\ cust' = cust /\ customers' = customers
      /\ cust[r] \in Objects /\ email' = [email EXCEPT ![cust[r]] = ask[r].email]
      /\ cust[r] # None /\ i \in Ids
      /\ seen' = [p \in Requests |-> IF Watching(p, i) THEN seen[p] \cup {v} ELSE seen[p]]
  BY DEF SetEnd, Observe, InStep, Asks
<1>2. IsOf(cust[r], i)
  BY <1>1 DEF ObjectsApart, Updating
<1>3. pc[q] # "idle" => ask[q] \in Asks /\ ask[q].id \in Ids
  BY DEF InStep, Asks
<1>4. \A o \in Objects : email'[o] = IF o = cust[r] THEN ask[r].email ELSE email[o]
  BY <1>1
<1> HIDE DEF v
<1>5. CASE pc[q] = "find"
  <2> DEFINE k == ask[q].id
  <2>1. k \in Ids /\ Current(k) \in seen[q] /\ ask[q].method = "GET" /\ ask[q] # None
    BY <1>3, <1>5 DEF SeenNow, InStep
  <2>2. CASE customers[k] = cust[r]
    <3>1. IsOf(cust[r], k)
      BY <1>1, <2>1, <2>2 DEF ObjectsApart
    <3>2. k = i
      BY <1>2, <3>1 DEF IsOf
    <3>3. v = ask[r].email /\ Current(k)' = ask[r].email
      BY <1>1, <1>4, <2>2, <3>2 DEF Current, v
    <3>4. Watching(q, i)
      BY <1>5, <2>1, <3>2 DEF Watching
    <3> QED
      BY <1>1, <1>5, <3>3, <3>4
  <2>3. CASE customers[k] # cust[r]
    <3>1. Current(k)' = Current(k)
      BY <1>1, <1>4, <2>1, <2>3 DEF Current
    <3> QED
      BY <1>1, <1>5, <2>1, <3>1
  <2> QED
    BY <2>2, <2>3
<1>6. CASE pc[q] \in {"unlock", "echo"}
  <2> DEFINE k == ask[q].id
  <2>1. k \in Ids /\ Reading(q) \in seen[q] /\ ask[q] # None /\ ask[q].method \in {"GET", "PUT"}
    BY <1>3, <1>6 DEF SeenNow, InStep, Reading, Asks
  <2>2. CASE cust[q] = cust[r]
    <3>1. k = i
      BY <1>1, <1>2, <1>6, <2>2 DEF ObjectsApart, IsOf
    <3>2. cust[r] = r => FALSE
      BY <1>1, <1>6, <2>2, StoreAssumption DEF ObjectsApart, Stored
    <3>3. customers[i] = cust[r]
      BY <1>1, <3>2 DEF LookupValid, Updating
    <3>4. v = ask[r].email /\ Reading(q)' = ask[r].email
      BY <1>1, <1>4, <2>2, <3>3 DEF Reading, v
    <3>5. pc[q] = "unlock" => ask[q].method = "PUT"
      BY DEF InStep, Locked
    <3>6. Watching(q, i)
      BY <1>6, <2>1, <3>1, <3>5 DEF Watching
    <3> QED
      BY <1>1, <1>6, <3>4, <3>6
  <2>3. CASE cust[q] # cust[r]
    <3>1. Reading(q)' = Reading(q)
      BY <1>1, <1>4, <2>3 DEF Reading
    <3> QED
      BY <1>1, <1>6, <2>1, <3>1
  <2> QED
    BY <2>2, <2>3
<1> QED
  BY <1>5, <1>6

LEMMA StoreEndSeen ==
    ASSUME IInv, NEW r \in Requests, StoreEnd(r), NEW q \in Requests
    PROVE  /\ pc'[q] = "find" => Current(ask[q].id)' \in seen'[q]
           /\ pc'[q] \in {"unlock", "echo"} => Reading(q)' \in seen'[q]
<1> USE DEF IInv, TypeOK
<1> DEFINE i == ask[r].id
<1> DEFINE v == email[cust[r]]
<1>1. /\ pc[r] = "storing" /\ ask' = ask /\ cust' = cust /\ email' = email
      /\ pc' = [pc EXCEPT ![r] = "unlock"]
      /\ customers' = [customers EXCEPT ![i] = cust[r]]
      /\ cust[r] # None /\ i \in Ids /\ ask[r] # None /\ ask[r].method = "PUT"
      /\ seen' = [p \in Requests |-> IF Watching(p, i) THEN seen[p] \cup {v} ELSE seen[p]]
  BY DEF StoreEnd, Observe, InStep, Asks, Locked
<1> HIDE DEF v
<1>2. Reading(q)' = Reading(q)
  BY <1>1 DEF Reading
<1>3. CASE pc'[q] = "find"
  <2> DEFINE k == ask[q].id
  <2>1. /\ k \in Ids /\ pc[q] = "find" /\ Current(k) \in seen[q]
        /\ ask[q].method = "GET" /\ ask[q] # None
    BY <1>1, <1>3 DEF SeenNow, InStep, Asks
  <2>2. CASE k = i
    <3>1. Watching(q, i)
      BY <2>1, <2>2 DEF Watching
    <3>2. Current(k)' = v
      BY <1>1, <2>2 DEF Current, v
    <3> QED
      BY <1>1, <1>3, <3>1, <3>2
  <2>3. CASE k # i
    <3>1. Current(k)' = Current(k)
      BY <1>1, <2>1, <2>3 DEF Current
    <3> QED
      BY <1>1, <1>3, <2>1, <3>1
  <2> QED
    BY <2>2, <2>3
<1>4. CASE pc'[q] \in {"unlock", "echo"} /\ q # r
  <2>1. Reading(q) \in seen[q]
    BY <1>1, <1>4 DEF SeenNow, Reading
  <2> QED
    BY <1>1, <1>2, <1>4, <2>1
<1>5. CASE q = r
  <2>1. Watching(r, i)
    BY <1>1 DEF Watching
  <2>2. Reading(r) = v
    BY <1>1 DEF Reading, v
  <2> QED
    BY <1>1, <1>2, <1>5, <2>1, <2>2
<1> QED
  BY <1>3, <1>4, <1>5

LEMMA SeenStep == ASSUME IInv, [Next]_vars PROVE SeenNow'
<1> USE DEF IInv, TypeOK
<1> DEFINE Sees(q) == /\ pc[q] = "find" => Current(ask[q].id) \in seen[q]
                      /\ pc[q] \in {"unlock", "echo"} => Reading(q) \in seen[q]
<1>0. (SeenNow <=> \A q \in Requests : Sees(q)) /\ (SeenNow <=> \A q \in Requests : Sees(q))'
  BY DEF SeenNow, Reading
<1>1. CASE UNCHANGED vars
  BY <1>1 DEF vars, requestVars, dataVars, SeenNow, Current
<1>2. CASE StartAgain
  BY <1>2 DEF StartAgain, SeenNow
<1>3. ASSUME NEW r \in Requests, Handler(r), UNCHANGED <<customers, email>>, Sees(r)'
      PROVE  SeenNow'
  <2>1. ASSUME NEW q \in Requests, q # r
        PROVE  Sees(q)'
    <3>1. /\ pc'[q] = pc[q] /\ ask'[q] = ask[q] /\ cust'[q] = cust[q]
          /\ pc[q] # "idle" => seen[q] \subseteq seen'[q]
      BY <1>3, <2>1, OwnProgress, SeenGrows
    <3>2. Current(ask[q].id)' = Current(ask[q].id) /\ Reading(q)' = Reading(q)
      BY <1>3, <3>1 DEF Current, Reading
    <3> QED
      BY <1>0, <3>1, <3>2
  <2> QED
    BY <1>0, <1>3, <2>1
<1>4. ASSUME NEW r \in Requests, NEW i \in Ids, StartGet(r, i)
      PROVE  UNCHANGED <<customers, email>> /\ Sees(r)'
  <2>1. /\ UNCHANGED <<customers, email>>
        /\ pc' = [pc EXCEPT ![r] = "find"]
        /\ ask'[r] = [method |-> "GET", id |-> i, email |-> NoEmail]
        /\ seen' = [seen EXCEPT ![r] = {Current(i)}]
    BY <1>4 DEF StartGet, dataVars
  <2>2. ask'[r].id = i
    BY <2>1
  <2>3. Current(ask[r].id)' = Current(i)
    BY <2>1, <2>2 DEF Current
  <2> QED
    BY <2>1, <2>3
<1>5. ASSUME NEW r \in Requests, Find(r)
      PROVE  UNCHANGED <<customers, email>> /\ Sees(r)'
  <2>1. /\ UNCHANGED <<customers, email, ask, seen>>
        /\ pc' = [pc EXCEPT ![r] = "echo"]
        /\ cust'[r] = customers[ask[r].id]
        /\ pc[r] = "find"
    BY <1>5 DEF Find, dataVars
  <2>2. Reading(r)' = Current(ask[r].id)
    BY <2>1 DEF Current, Reading
  <2> QED
    BY <1>0, <2>1, <2>2
<1>6. ASSUME NEW r \in Requests, Unlock(r)
      PROVE  UNCHANGED <<customers, email>> /\ Sees(r)'
  <2>1. /\ UNCHANGED <<customers, email, cust, seen>>
        /\ pc' = [pc EXCEPT ![r] = "echo"]
        /\ pc[r] = "unlock"
    BY <1>6 DEF Unlock
  <2>2. Reading(r)' = Reading(r)
    BY <2>1 DEF Reading
  <2> QED
    BY <1>0, <2>1, <2>2
<1>7. ASSUME NEW r \in Requests,
             \/ \E i \in Ids, e \in Emails \cup {NoEmail} : StartPut(r, i, e)
             \/ Lock(r) \/ LookupOrDefault(r) \/ SetBegin(r) \/ StoreBegin(r) \/ Echo(r)
      PROVE  UNCHANGED <<customers, email>> /\ Sees(r)'
  <2>1. UNCHANGED <<customers, email>> /\ pc'[r] \notin {"find", "unlock", "echo"}
    BY <1>7 DEF StartPut, Lock, LookupOrDefault, SetBegin, StoreBegin, Echo, dataVars
  <2> QED
    BY <2>1
<1>8. ASSUME NEW r \in Requests, SetEnd(r)
      PROVE  SeenNow'
  <2>1. /\ ask' = ask /\ pc' = [pc EXCEPT ![r] = "store"]
    BY <1>8 DEF SetEnd
  <2>2. ASSUME NEW q \in Requests
        PROVE  Sees(q)'
    BY <1>8, <2>1, <2>2, SetEndSeen
  <2> QED
    BY <1>0, <2>2
<1>9. ASSUME NEW r \in Requests, StoreEnd(r)
      PROVE  SeenNow'
  <2>1. ask' = ask
    BY <1>9 DEF StoreEnd
  <2>2. ASSUME NEW q \in Requests
        PROVE  Sees(q)'
    BY <1>9, <2>1, <2>2, StoreEndSeen
  <2> QED
    BY <1>0, <2>2
<1> HIDE DEF Sees
<1> QED
  BY <1>1, <1>2, <1>3, <1>4, <1>5, <1>6, <1>7, <1>8, <1>9, StepKinds DEF Handler

LEMMA AnswersStep == ASSUME IInv, [Next]_vars PROVE AnswersCurrent'
<1> USE DEF IInv, TypeOK, AnswersCurrent
<1>1. CASE UNCHANGED vars
  BY <1>1 DEF vars, requestVars
<1>2. CASE StartAgain
  BY <1>2 DEF StartAgain
<1>3. ASSUME NEW r \in Requests, Handler(r)
      PROVE  AnswersCurrent'
  <2>1. ASSUME NEW q \in Requests, answer'[q] = answer[q], answer[q] # None
        PROVE  answer'[q] \in seen'[q] \cup {Torn}
    BY <1>3, <2>1, SeenGrows DEF InStep
  <2>2. CASE UNCHANGED answer
    BY <2>1, <2>2
  <2>3. CASE Echo(r)
    <3>1. answer'[r] \in {Reading(r), Torn}
      BY <2>3 DEF Echo, Reading
    <3>2. Reading(r) \in seen[r] /\ seen' = seen
      BY <2>3 DEF Echo, SeenNow, Reading
    <3> QED
      BY <1>3, <2>1, <3>1, <3>2, OwnProgress
  <2>4. CASE ~ Echo(r)
    <3>1. UNCHANGED answer
      BY <1>3, <2>4 DEF Handler, StartGet, StartPut, Find, Lock, LookupOrDefault, SetBegin,
         SetEnd, StoreBegin, StoreEnd, Unlock
    <3> QED
      BY <2>2, <3>1
  <2> QED
    BY <2>3, <2>4
<1> QED
  BY <1>1, <1>2, <1>3, StepKinds

-----------------------------------------------------------------------------
(* The inductive invariant holds in every reachable state, whatever the      *)
(* requests, the customers and the emails.                                   *)
THEOREM Invariant == Spec => []IInv
<1>1. Init => IInv
  <2> SUFFICES ASSUME Init PROVE IInv
    OBVIOUS
  <2> USE StoreAssumption DEF Init
  <2>1. SeedMap \in [Ids -> Objects \cup {None}] /\ SeedEmails \in [Objects -> Values]
    BY DEF SeedMap, SeedEmails, Objects, Values
  <2>2. TypeOK
    BY <2>1 DEF TypeOK, Locked
  <2>3. InStep /\ MutexHeld /\ LookupValid /\ SeenNow /\ AnswersCurrent
    BY DEF InStep, MutexHeld, LookupValid, SeenNow, AnswersCurrent, Locked, Updating
  <2>4. ObjectsApart
    BY DEF ObjectsApart, SeedMap, IsOf, Stored, Updating
  <2>5. EmailsSet
    BY DEF EmailsSet, SeedEmails, Objects
  <2> QED
    BY <2>2, <2>3, <2>4, <2>5, OneUpdate DEF IInv
<1>2. IInv /\ [Next]_vars => IInv'
  <2> SUFFICES ASSUME IInv, [Next]_vars PROVE IInv'
    OBVIOUS
  <2>1. MutexHeld' /\ OneUpdateAtATime'
    BY MutexStep DEF MutexHeld, OneUpdateAtATime
  <2> QED
    BY TypeStep, InStepStep, <2>1, ApartStep, LookupStep, EmailsStep, SeenStep, AnswersStep
       DEF IInv
<1> QED
  BY <1>1, <1>2, PTL DEF Spec

(* Every variable keeps its type, and no handler holds a nil customer.       *)
THEOREM TypeCorrect == Spec => []TypeOK
<1>1. IInv => TypeOK
  BY DEF IInv
<1> QED
  BY <1>1, Invariant, PTL

(* Between Lock and Unlock there is one update, and only its steps write.    *)
THEOREM MutualExclusion == Spec => []OneUpdateAtATime
<1>1. IInv => OneUpdateAtATime
  BY DEF IInv
<1> QED
  BY <1>1, Invariant, PTL

(* However many requests read and write at once without the mutex, an answer *)
(* is a value that its customer had while the request was under way, or torn.*)
THEOREM Answers == Spec => []AnswersCurrent
<1>1. IInv => AnswersCurrent
  BY DEF IInv
<1> QED
  BY <1>1, Invariant, PTL

-----------------------------------------------------------------------------
(* The refinement of CustomerRegister. *)

valueNow == [i \in Ids |-> Current(i)]

(* What a step of one request leaves alone.                                  *)
Untouched(r) ==
    \A q \in Requests : q # r =>
        /\ Applied(q)' <=> Applied(q)
        /\ ask'[q] = ask[q]
        /\ pc'[q] = pc[q]

LEMMA OthersUntouched ==
    ASSUME IInv, NEW r \in Requests, Handler(r)
    PROVE  Untouched(r)
<1> USE DEF IInv, TypeOK
<1> SUFFICES ASSUME NEW q \in Requests, q # r
             PROVE  (Applied(q)' <=> Applied(q)) /\ ask'[q] = ask[q] /\ pc'[q] = pc[q]
  BY DEF Untouched
<1>1. ask'[q] = ask[q] /\ pc'[q] = pc[q] /\ cust'[q] = cust[q]
  BY OwnProgress
<1>2. UNCHANGED customers \/ StoreEnd(r)
  BY DEF Handler, StartGet, StartPut, Find, Lock, LookupOrDefault, SetBegin, SetEnd, StoreBegin,
         Unlock, Echo, dataVars
<1>3. StoreEnd(r) => pc[q] \notin {"store", "storing"}
  BY Alone DEF StoreEnd, Locked
<1> QED
  BY <1>1, <1>2, <1>3 DEF Applied

(* A step of a request that neither changes a record nor applies nor answers *)
(* an update is not seen by the register.                                    *)
LEMMA Unseen ==
    ASSUME NEW r \in Requests, Untouched(r),
           Applied(r)' <=> Applied(r),
           Applied(r) => ask'[r] = ask[r] /\ (pc'[r] = "done" <=> pc[r] = "done"),
           \A i \in Ids : Current(i)' = Current(i)
    PROVE  UNCHANGED Register!rvars
<1>1. [i \in Ids |-> Current(i)]' = [i \in Ids |-> Current(i)]
  OBVIOUS
<1>2. appliedPuts' = appliedPuts
  BY DEF appliedPuts, Untouched
<1>3. answeredPuts' = answeredPuts
  BY DEF answeredPuts, Untouched
<1> QED
  BY <1>1, <1>2, <1>3 DEF Register!rvars

(* A step that applies an update and gives its customer the new value is the *)
(* update of the register.                                                   *)
LEMMA UpdateSeen ==
    ASSUME NEW r \in Requests, Untouched(r), ~ Applied(r), Applied(r)', ask'[r] = ask[r],
           pc'[r] # "done", ask[r] \in Asks,
           \A i \in Ids : Current(i)' =
               IF i # ask[r].id \/ (ask[r].email = NoEmail /\ Current(i) # Unknown)
                 THEN Current(i) ELSE ask[r].email
    PROVE  Register!Next
<1> DEFINE k == ask[r].id
<1> DEFINE e == ask[r].email
<1>1. k \in Ids /\ e \in Emails \cup {NoEmail}
  BY DEF Asks
<1>2. [i \in Ids |-> Current(i)]' =
         [[i \in Ids |-> Current(i)] EXCEPT ![k] = IF e = NoEmail /\ @ # Unknown THEN @ ELSE e]
  BY <1>1
<1>3. appliedPuts[r] = None
  BY DEF appliedPuts
<1>4. appliedPuts' = [appliedPuts EXCEPT ![r] = [id |-> k, email |-> e]]
  BY DEF appliedPuts, Untouched
<1>5. answeredPuts' = answeredPuts
  BY DEF answeredPuts, Untouched
<1>6. Register!Update(r, k, e)
  BY <1>2, <1>3, <1>4, <1>5 DEF Register!Update
<1> QED
  BY <1>1, <1>6 DEF Register!Next

(* cust.Email = parsed.Email on an object in the map is the update; on a new *)
(* object nobody can see it yet.                                             *)
LEMMA SetEndUpdates ==
    ASSUME IInv, NEW r \in Requests, SetEnd(r)
    PROVE  Register!Next \/ UNCHANGED Register!rvars
<1> USE DEF IInv, TypeOK
<1> DEFINE k == ask[r].id
<1>1. /\ pc[r] = "setting" /\ pc' = [pc EXCEPT ![r] = "store"]
      /\ UNCHANGED <<ask, cust, customers>>
      /\ cust[r] \in Objects /\ cust[r] # None
      /\ email' = [email EXCEPT ![cust[r]] = ask[r].email]
      /\ ask[r] \in Asks /\ k \in Ids /\ ask[r].email # NoEmail
      /\ ask[r] # None /\ ask[r].method = "PUT"
  BY DEF SetEnd, InStep, Asks, Locked
<1>2. Untouched(r)
  BY OthersUntouched DEF Handler
<1>3. ~ Applied(r) /\ (Applied(r)' <=> customers[k] = cust[r])
  BY <1>1 DEF Applied
<1>4. \A o \in Objects : email'[o] = IF o = cust[r] THEN ask[r].email ELSE email[o]
  BY <1>1
<1>5. ASSUME NEW i \in Ids, customers[i] = cust[r]
      PROVE  i = k
  <2>1. IsOf(cust[r], k) /\ IsOf(cust[r], i)
    BY <1>1, <1>5 DEF ObjectsApart, Updating
  <2> QED
    BY <2>1 DEF IsOf
<1>6. ASSUME NEW i \in Ids
      PROVE  Current(i)' = IF customers[i] = cust[r] THEN ask[r].email ELSE Current(i)
  BY <1>1, <1>4 DEF Current
<1>7. CASE customers[k] = cust[r]
  <2>1. \A i \in Ids : Current(i)' =
           IF i # ask[r].id \/ (ask[r].email = NoEmail /\ Current(i) # Unknown)
             THEN Current(i) ELSE ask[r].email
    BY <1>1, <1>5, <1>6, <1>7
  <2>2. pc'[r] # "done"
    BY <1>1
  <2> QED
    BY <1>1, <1>2, <1>3, <1>7, <2>1, <2>2, UpdateSeen
<1>8. CASE customers[k] # cust[r]
  <2>1. \A i \in Ids : Current(i)' = Current(i)
    BY <1>5, <1>6, <1>8
  <2> QED
    BY <1>2, <1>3, <1>8, <2>1, Unseen
<1> QED
  BY <1>7, <1>8

(* customers[id] = cust is the update of a customer that was unknown, and of *)
(* one that is asked to keep its email; otherwise it has been made already.  *)
LEMMA StoreEndUpdates ==
    ASSUME IInv, NEW r \in Requests, StoreEnd(r)
    PROVE  Register!Next \/ UNCHANGED Register!rvars
<1> USE DEF IInv, TypeOK
<1> DEFINE k == ask[r].id
<1>1. /\ pc[r] = "storing" /\ pc' = [pc EXCEPT ![r] = "unlock"]
      /\ UNCHANGED <<ask, cust, email>>
      /\ cust[r] \in Objects /\ cust[r] # None
      /\ customers' = [customers EXCEPT ![k] = cust[r]]
      /\ ask[r] \in Asks /\ k \in Ids
      /\ ask[r] # None /\ ask[r].method = "PUT"
  BY DEF StoreEnd, InStep, Asks, Locked
<1>2. Untouched(r)
  BY OthersUntouched DEF Handler
<1>3. Applied(r)' /\ (Applied(r) <=> ask[r].email # NoEmail /\ customers[k] = cust[r])
  BY <1>1 DEF Applied
<1>4. ASSUME NEW i \in Ids
      PROVE  Current(i)' = IF i = k THEN email[cust[r]] ELSE Current(i)
  BY <1>1 DEF Current
<1>5. cust[r] = IF customers[k] = None THEN r ELSE customers[k]
  BY <1>1 DEF LookupValid, Updating
<1>6. CASE customers[k] = None
  <2>1. cust[r] = r /\ email[cust[r]] = ask[r].email
    BY <1>1, <1>5, <1>6 DEF EmailsSet
  <2>2. Current(k) = Unknown
    BY <1>6 DEF Current
  <2>3. \A i \in Ids : Current(i)' =
           IF i # ask[r].id \/ (ask[r].email = NoEmail /\ Current(i) # Unknown)
             THEN Current(i) ELSE ask[r].email
    BY <1>4, <2>1, <2>2
  <2>4. ~ Applied(r)
    BY <1>1, <1>3, <1>6
  <2> QED
    BY <1>1, <1>2, <1>3, <2>3, <2>4, UpdateSeen
<1>7. CASE customers[k] # None
  <2>1. Current(k) = email[cust[r]] /\ Current(k) # Unknown /\ customers[k] = cust[r]
    BY <1>1, <1>5, <1>7, StoreAssumption DEF Current
  <2>2. \A i \in Ids : Current(i)' = Current(i)
    BY <1>4, <2>1
  <2>3. CASE ask[r].email = NoEmail
    <3>1. \A i \in Ids : Current(i)' =
             IF i # ask[r].id \/ (ask[r].email = NoEmail /\ Current(i) # Unknown)
               THEN Current(i) ELSE ask[r].email
      BY <2>1, <2>2, <2>3
    <3> QED
      BY <1>1, <1>2, <1>3, <2>3, <3>1, UpdateSeen
  <2>4. CASE ask[r].email # NoEmail
    BY <1>1, <1>2, <1>3, <2>1, <2>2, <2>4, Unseen
  <2> QED
    BY <2>3, <2>4
<1> QED
  BY <1>6, <1>7

(* The answer to an update acknowledges it, and comes after it was made.     *)
LEMMA EchoAcknowledges ==
    ASSUME IInv, NEW r \in Requests, Echo(r)
    PROVE  Register!Next \/ UNCHANGED Register!rvars
<1> USE DEF IInv, TypeOK
<1>1. /\ pc[r] = "echo" /\ pc' = [pc EXCEPT ![r] = "done"]
      /\ UNCHANGED <<ask, cust, email, customers>>
      /\ ask[r] # None /\ ask[r] \in Asks
  BY DEF Echo, InStep, dataVars
<1>2. Untouched(r)
  BY OthersUntouched DEF Handler
<1>3. \A i \in Ids : Current(i)' = Current(i)
  BY <1>1 DEF Current
<1>4. Applied(r)' <=> Applied(r)
  BY <1>1 DEF Applied
<1>5. CASE Applied(r)
  <2>1. appliedPuts' = appliedPuts
    BY <1>1, <1>2, <1>4 DEF appliedPuts, Untouched
  <2>2. appliedPuts[r] # None
    <3>1. appliedPuts[r] = [id |-> ask[r].id, email |-> ask[r].email]
      BY <1>5 DEF appliedPuts
    <3>2. [id |-> ask[r].id, email |-> ask[r].email] \in Updates
      BY <1>1 DEF Asks, Updates
    <3> QED
      BY <3>1, <3>2, StoreAssumption
  <2>3. answeredPuts' = answeredPuts \cup {r}
    BY <1>1, <1>2, <1>4, <1>5 DEF answeredPuts, Untouched
  <2>4. [i \in Ids |-> Current(i)]' = [i \in Ids |-> Current(i)]
    BY <1>3
  <2>5. Register!Acknowledge(r)
    BY <2>1, <2>2, <2>3, <2>4 DEF Register!Acknowledge
  <2> QED
    BY <2>5 DEF Register!Next
<1>6. CASE ~ Applied(r)
  BY <1>2, <1>3, <1>4, <1>6, Unseen
<1> QED
  BY <1>5, <1>6

(* Every other step of a request stays behind the register.                  *)
LEMMA OthersUnseen ==
    ASSUME IInv, NEW r \in Requests, Handler(r), ~ SetEnd(r), ~ StoreEnd(r), ~ Echo(r)
    PROVE  UNCHANGED Register!rvars
<1> USE DEF IInv, TypeOK
<1>1. Untouched(r)
  BY OthersUntouched
<1>2. UNCHANGED <<customers, email>>
  BY DEF Handler, StartGet, StartPut, Find, Lock, LookupOrDefault, SetBegin, StoreBegin, Unlock,
         dataVars
<1>3. \A i \in Ids : Current(i)' = Current(i)
  BY <1>2 DEF Current
<1>4. ASSUME ~ Applied(r), ~ Applied(r)'
      PROVE  UNCHANGED Register!rvars
  BY <1>1, <1>3, <1>4, Unseen
<1>5. CASE \/ \E i \in Ids : StartGet(r, i)
           \/ \E i \in Ids, e \in Emails \cup {NoEmail} : StartPut(r, i, e)
           \/ Lock(r)
  <2>1. pc[r] \in {"idle", "lock"} /\ pc'[r] \in {"find", "lock", "lookup"}
    BY <1>5 DEF StartGet, StartPut, Lock, Locked
  <2> QED
    BY <1>4, <2>1 DEF Applied
<1>6. CASE Find(r)
  <2>1. pc[r] = "find" /\ ask'[r] = ask[r] /\ ask[r].method = "GET"
    BY <1>6 DEF Find, InStep
  <2> QED
    BY <1>4, <2>1 DEF Applied
<1>7. CASE LookupOrDefault(r)
  <2>1. /\ pc[r] = "lookup" /\ ask'[r] = ask[r]
        /\ pc'[r] = IF ask[r].email = NoEmail THEN "store" ELSE "set"
    BY <1>7 DEF LookupOrDefault
  <2> QED
    BY <1>4, <2>1 DEF Applied
<1>8. CASE SetBegin(r)
  <2>1. pc[r] = "set" /\ pc'[r] = "setting"
    BY <1>8 DEF SetBegin, Locked
  <2> QED
    BY <1>4, <2>1 DEF Applied
<1>9. CASE StoreBegin(r) \/ Unlock(r)
  <2>1. /\ UNCHANGED <<ask, cust, customers>>
        /\ \/ pc[r] = "store" /\ pc'[r] = "storing"
           \/ pc[r] = "unlock" /\ pc'[r] = "echo"
    BY <1>9 DEF StoreBegin, Unlock, Locked
  <2>2. (Applied(r)' <=> Applied(r)) /\ pc[r] # "done" /\ pc'[r] # "done"
    BY <2>1 DEF Applied
  <2> QED
    BY <1>1, <1>3, <2>1, <2>2, Unseen
<1> QED
  BY <1>5, <1>6, <1>7, <1>8, <1>9 DEF Handler

(* A start of the process sets the register back.                            *)
LEMMA StartResets ==
    ASSUME IInv, StartAgain
    PROVE  Register!Next
<1> USE DEF IInv, TypeOK
<1>1. /\ pc' = [r \in Requests |-> IF pc[r] \in {"idle", "done"} THEN pc[r] ELSE "lost"]
      /\ customers' = SeedMap /\ email' = SeedEmails
      /\ UNCHANGED <<ask, cust>>
  BY DEF StartAgain
<1>2. [i \in Ids |-> Current(i)]' = Seed
  BY <1>1, StoreAssumption DEF Current, Seed, SeedMap, SeedEmails, Objects
<1>3. \A r \in Requests : Applied(r)' <=> Applied(r) /\ pc[r] = "done"
  BY <1>1 DEF Applied
<1>4. \A r \in Requests : pc'[r] = "done" <=> pc[r] = "done"
  BY <1>1
<1>5. answeredPuts' = answeredPuts
  BY <1>3, <1>4 DEF answeredPuts
<1>6. appliedPuts' = [r \in Requests |-> IF r \in answeredPuts THEN appliedPuts[r] ELSE None]
  BY <1>1, <1>3 DEF appliedPuts, answeredPuts
<1>7. Register!Reset
  BY <1>2, <1>5, <1>6 DEF Register!Reset
<1> QED
  BY <1>7 DEF Register!Next

(* Every behaviour of the handlers is one of the register: an update that    *)
(* was answered was made, at one moment and once, and none is lost but by a  *)
(* new start of the process.                                                 *)
THEOREM Refinement == Spec => ImplementsRegister
<1>1. Init => Register!Init
  <2> SUFFICES ASSUME Init PROVE Register!Init
    OBVIOUS
  <2>1. [i \in Ids |-> Current(i)] = Seed
    BY StoreAssumption DEF Init, Current, Seed, SeedMap, SeedEmails, Objects
  <2>2. \A r \in Requests : ~ Applied(r)
    BY DEF Init, Applied
  <2>3. appliedPuts = [r \in Requests |-> None] /\ answeredPuts = {}
    BY <2>2 DEF appliedPuts, answeredPuts
  <2> QED
    BY <2>1, <2>3 DEF Register!Init
<1>2. IInv /\ [Next]_vars => [Register!Next]_(Register!rvars)
  <2> SUFFICES ASSUME IInv, [Next]_vars
               PROVE  Register!Next \/ UNCHANGED Register!rvars
    OBVIOUS
  <2>1. CASE UNCHANGED vars
    BY <2>1 DEF vars, requestVars, dataVars, Register!rvars, appliedPuts, answeredPuts, Applied,
                Current
  <2>2. CASE StartAgain
    BY <2>2, StartResets
  <2>3. ASSUME NEW r \in Requests, Handler(r)
        PROVE  Register!Next \/ UNCHANGED Register!rvars
    BY <2>3, SetEndUpdates, StoreEndUpdates, EchoAcknowledges, OthersUnseen
  <2> QED
    BY <2>1, <2>2, <2>3, StepKinds
<1> QED
  BY <1>1, <1>2, Invariant, PTL DEF Spec, ImplementsRegister, Register!Spec
=============================================================================
