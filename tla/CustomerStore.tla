---------------------------- MODULE CustomerStore ----------------------------
(***************************************************************************)
(* The customer records of acme-resource-api under concurrent requests:    *)
(* handleCustomer after authorize has let the request in.                  *)
(*                                                                         *)
(* An update (PUT) looks the customer up, sets the email and stores the    *)
(* pointer under customersMu.  A look-up (GET) reads the map WITHOUT the   *)
(* mutex, and both encode the customer they point to after it is released. *)
(* So an access that takes more than one step is two actions here, and     *)
(* what the build does when two of them overlap is a choice: the Go        *)
(* runtime aborts the process when it sees a map read during a map write,  *)
(* and a string read during a write of it is anything (Torn).              *)
(***************************************************************************)
EXTENDS FiniteSets

CONSTANTS
    Requests,      \* GETs and PUTs, each made at most once
    Ids,           \* customer ids
    Known,         \* the ids of the seed data
    Emails,        \* what a PUT may set
    NoEmail,       \* the empty string: a PUT without email
    SeedEmail,     \* the email of a customer in the seed data
    Torn,          \* what a racing read of a string may see
    Unknown,       \* the record of a customer that is not in the map
    None

Values == Emails \cup {NoEmail, SeedEmail}

(* What a request asks for; what is remembered of an update. *)
Asks    == [method : {"GET", "PUT"}, id : Ids, email : Emails \cup {NoEmail}]
Updates == [id : Ids, email : Emails \cup {NoEmail}]

ASSUME StoreAssumption ==
    /\ Known \subseteq Ids
    /\ Known \cap Requests = {}
    /\ None \notin Known \cup Requests \cup Values
    /\ Torn \notin Values
    /\ Unknown \notin Values
    /\ None \notin Asks \cup Updates

VARIABLES
    ask,           \* ask[r]: method, id and email of the request
    pc,            \* pc[r]: progress of its handler
    customers,     \* the map: the object stored for an id
    email,         \* email[o]: the Email field of object o
    writing,       \* objects whose Email is being assigned
    mapWriter,     \* the request in the middle of a map assignment
    customersMu,   \* the holder of the mutex
    cust,          \* cust[r]: the object the handler points to
    answer,        \* answer[r]: the record in the response
    seen           \* history: values the record has had while r was under way

requestVars == <<ask, pc, cust, answer, seen>>
dataVars    == <<customers, email, writing, mapWriter, customersMu>>
vars == <<requestVars, dataVars>>

(* The seed objects, and the one a request may create. *)
Objects == Known \cup Requests

(* What the records say about a customer. *)
Current(i) == IF customers[i] = None THEN Unknown ELSE email[customers[i]]

Seed      == [i \in Ids |-> IF i \in Known THEN SeedEmail ELSE Unknown]
SeedMap   == [i \in Ids |-> IF i \in Known THEN i ELSE None]
SeedEmails == [o \in Objects |-> IF o \in Known THEN SeedEmail ELSE NoEmail]

-----------------------------------------------------------------------------
Init ==
    /\ ask = [r \in Requests |-> None]
    /\ pc = [r \in Requests |-> "idle"]
    /\ cust = [r \in Requests |-> None]
    /\ answer = [r \in Requests |-> None]
    /\ seen = [r \in Requests |-> {}]
    /\ customers = SeedMap
    /\ email = SeedEmails
    /\ writing = {}
    /\ mapWriter = None
    /\ customersMu = None

(* The record of customer i may have changed: whoever is under way for it    *)
(* and answers later may have seen the new value.                            *)
Watching(r, i) ==
    /\ ask[r] # None
    /\ ask[r].id = i
    /\ \/ ask[r].method = "GET" /\ pc[r] \in {"find", "echo"}
       \/ ask[r].method = "PUT" /\ pc[r] \in {"storing", "unlock", "echo"}

Observe(i, v) ==
    seen' = [r \in Requests |-> IF Watching(r, i) THEN seen[r] \cup {v} ELSE seen[r]]

(* A request arrives.  handleCustomer reads the map before it does anything  *)
(* else on a GET.                                                            *)
StartGet(r, i) ==
    /\ pc[r] = "idle"
    /\ ask' = [ask EXCEPT ![r] = [method |-> "GET", id |-> i, email |-> NoEmail]]
    /\ pc' = [pc EXCEPT ![r] = "find"]
    /\ seen' = [seen EXCEPT ![r] = {Current(i)}]
    /\ UNCHANGED <<cust, answer, dataVars>>

StartPut(r, i, e) ==
    /\ pc[r] = "idle"
    /\ ask' = [ask EXCEPT ![r] = [method |-> "PUT", id |-> i, email |-> e]]
    /\ pc' = [pc EXCEPT ![r] = "lock"]
    /\ UNCHANGED <<cust, answer, seen, dataVars>>

-----------------------------------------------------------------------------
(* GET: lookupOrDefault without the mutex.  If a map assignment is going on  *)
(* the runtime may abort the process (FatalRace); otherwise the entry is found.  *)
Find(r) ==
    /\ pc[r] = "find"
    /\ cust' = [cust EXCEPT ![r] = customers[ask[r].id]]
    /\ pc' = [pc EXCEPT ![r] = "echo"]
    /\ UNCHANGED <<ask, answer, seen, dataVars>>

(* Defect variant of Lock: the update does not take the mutex either. *)
LockNothing(r) ==
    /\ pc[r] = "lock"
    /\ customersMu' = r
    /\ pc' = [pc EXCEPT ![r] = "lookup"]
    /\ UNCHANGED <<ask, cust, answer, seen, customers, email, writing, mapWriter>>

(* PUT: customersMu.Lock. *)
Lock(r) ==
    /\ pc[r] = "lock"
    /\ customersMu = None
    /\ customersMu' = r
    /\ pc' = [pc EXCEPT ![r] = "lookup"]
    /\ UNCHANGED <<ask, cust, answer, seen, customers, email, writing, mapWriter>>

(* Defect variant of LookupOrDefault: no default, a nil pointer. *)
LookupNoDefault(r) ==
    /\ pc[r] = "lookup"
    /\ cust' = [cust EXCEPT ![r] = customers[ask[r].id]]
    /\ pc' = [pc EXCEPT ![r] = IF ask[r].email = NoEmail THEN "store" ELSE "set"]
    /\ UNCHANGED <<ask, answer, seen, dataVars>>

(* Defect variant of LookupOrDefault: a PUT without email returns at once,   *)
(* with the mutex.                                                           *)
LookupReturningLocked(r) ==
    /\ pc[r] = "lookup"
    /\ cust' = [cust EXCEPT ![r] =
                  IF customers[ask[r].id] = None THEN r ELSE customers[ask[r].id]]
    /\ pc' = [pc EXCEPT ![r] = IF ask[r].email = NoEmail THEN "echo" ELSE "set"]
    /\ UNCHANGED <<ask, answer, seen, dataVars>>

(* PUT: lookupOrDefault under the mutex; an unknown customer is a new object. *)
LookupOrDefault(r) ==
    /\ pc[r] = "lookup"
    /\ cust' = [cust EXCEPT ![r] =
                  IF customers[ask[r].id] = None THEN r ELSE customers[ask[r].id]]
    /\ pc' = [pc EXCEPT ![r] = IF ask[r].email = NoEmail THEN "store" ELSE "set"]
    /\ UNCHANGED <<ask, answer, seen, dataVars>>

(* Defect variant of SetEnd: the mutex only protects the customer, not the map. *)
SetEndUnlocking(r) ==
    /\ pc[r] = "setting"
    /\ writing' = writing \ {cust[r]}
    /\ email' = [email EXCEPT ![cust[r]] = ask[r].email]
    /\ pc' = [pc EXCEPT ![r] = "store"]
    /\ customersMu' = None
    /\ Observe(ask[r].id,
               IF customers[ask[r].id] = cust[r] THEN ask[r].email ELSE Current(ask[r].id))
    /\ UNCHANGED <<ask, cust, answer, customers, mapWriter>>

(* PUT: cust.Email = parsed.Email, begun and done. *)
SetBegin(r) ==
    /\ pc[r] = "set"
    /\ writing' = writing \cup {cust[r]}
    /\ pc' = [pc EXCEPT ![r] = "setting"]
    /\ UNCHANGED <<ask, cust, answer, seen, customers, email, mapWriter, customersMu>>

SetEnd(r) ==
    /\ pc[r] = "setting"
    /\ writing' = writing \ {cust[r]}
    /\ email' = [email EXCEPT ![cust[r]] = ask[r].email]
    /\ pc' = [pc EXCEPT ![r] = "store"]
    /\ Observe(ask[r].id,
               IF customers[ask[r].id] = cust[r] THEN ask[r].email ELSE Current(ask[r].id))
    /\ UNCHANGED <<ask, cust, answer, customers, mapWriter, customersMu>>

(* PUT: customers[id] = cust, begun and done. *)
StoreBegin(r) ==
    /\ pc[r] = "store"
    /\ mapWriter' = r
    /\ pc' = [pc EXCEPT ![r] = "storing"]
    /\ UNCHANGED <<ask, cust, answer, seen, customers, email, writing, customersMu>>

(* Defect variant of StoreEnd: an unknown customer is answered, not stored. *)
StoreEndKnown(r) ==
    /\ pc[r] = "storing"
    /\ mapWriter' = None
    /\ pc' = [pc EXCEPT ![r] = "unlock"]
    /\ Observe(ask[r].id, Current(ask[r].id))
    /\ UNCHANGED <<ask, cust, answer, customers, email, writing, customersMu>>

StoreEnd(r) ==
    /\ pc[r] = "storing"
    /\ mapWriter' = None
    /\ customers' = [customers EXCEPT ![ask[r].id] = cust[r]]
    /\ pc' = [pc EXCEPT ![r] = "unlock"]
    /\ Observe(ask[r].id, email[cust[r]])
    /\ UNCHANGED <<ask, cust, answer, email, writing, customersMu>>

Unlock(r) ==
    /\ pc[r] = "unlock"
    /\ customersMu' = None
    /\ pc' = [pc EXCEPT ![r] = "echo"]
    /\ UNCHANGED <<ask, cust, answer, seen, customers, email, writing, mapWriter>>

(* writeEcho: the object is encoded without the mutex, as it is by now.      *)
(* During an assignment of its Email the encoder sees the old string or      *)
(* something else, Torn.                                                     *)
Echo(r) ==
    /\ pc[r] = "echo"
    /\ \E v \in IF cust[r] = None THEN {Unknown}
                ELSE IF cust[r] \in writing THEN {email[cust[r]], Torn}
                ELSE {email[cust[r]]} :
          answer' = [answer EXCEPT ![r] = v]
    /\ pc' = [pc EXCEPT ![r] = "done"]
    /\ UNCHANGED <<ask, cust, seen, dataVars>>

-----------------------------------------------------------------------------
(* The process ends and starts again with the seed data; requests are lost. *)
StartAgain ==
    /\ pc' = [r \in Requests |-> IF pc[r] \in {"idle", "done"} THEN pc[r] ELSE "lost"]
    /\ customers' = SeedMap
    /\ email' = SeedEmails
    /\ writing' = {}
    /\ mapWriter' = None
    /\ customersMu' = None
    /\ UNCHANGED <<ask, cust, answer, seen>>

(* The Go runtime: fatal error: concurrent map read and map write. *)
FatalRace(r) ==
    /\ pc[r] = "find"
    /\ mapWriter # None
    /\ StartAgain

(* The pod is stopped. *)
PodStop == StartAgain

-----------------------------------------------------------------------------
RequestNext(r) ==
    \/ \E i \in Ids : StartGet(r, i)
    \/ \E i \in Ids, e \in Emails \cup {NoEmail} : StartPut(r, i, e)
    \/ Find(r)
    \/ Lock(r)
    \/ LookupOrDefault(r)
    \/ SetBegin(r)
    \/ SetEnd(r)
    \/ StoreBegin(r)
    \/ StoreEnd(r)
    \/ Unlock(r)
    \/ Echo(r)
    \/ FatalRace(r)

Next == (\E r \in Requests : RequestNext(r)) \/ PodStop

Spec == Init /\ [][Next]_vars

(* A handler's goroutine runs on, and gets the mutex when it is free. *)
FairSpec ==
    Spec /\ \A r \in Requests :
              WF_vars(Find(r) \/ Lock(r) \/ LookupOrDefault(r) \/ SetBegin(r) \/ SetEnd(r)
                      \/ StoreBegin(r) \/ StoreEnd(r) \/ Unlock(r) \/ Echo(r))

-----------------------------------------------------------------------------
(* The steps of an update between Lock and Unlock. *)
Locked == {"lookup", "set", "setting", "store", "storing", "unlock"}

TypeOK ==
    /\ ask \in [Requests -> Asks \cup {None}]
    /\ pc \in [Requests -> {"idle", "find", "lock", "echo", "done", "lost"} \cup Locked]
    /\ customers \in [Ids -> Objects \cup {None}]
    /\ email \in [Objects -> Values]
    /\ writing \in SUBSET Objects
    /\ mapWriter \in Requests \cup {None}
    /\ customersMu \in Requests \cup {None}
    /\ cust \in [Requests -> Objects \cup {None}]
    /\ answer \in [Requests -> Values \cup {Torn, Unknown, None}]
    /\ seen \in [Requests -> SUBSET (Values \cup {Unknown})]
    /\ \A r \in Requests : pc[r] \in {"set", "setting", "store", "storing"} => cust[r] # None

(* The mutex does its work although the readers ignore it: one update at a   *)
(* time is between Lock and Unlock, and only its steps write.                *)
OneUpdateAtATime ==
    \A r \in Requests : pc[r] \in Locked =>
        /\ customersMu = r
        /\ writing \subseteq {cust[r]}
        /\ mapWriter \in {None, r}

(* An answer is the record as it was at some moment of the request (of an    *)
(* update: after it was stored), or torn - though neither the map read of a  *)
(* GET nor any encoding holds the mutex.                                     *)
AnswersCurrent ==
    \A r \in Requests : answer[r] # None => answer[r] \in seen[r] \cup {Torn}

(* Refinement: an update counts when its value can be read. *)
Applied(r) ==
    /\ ask[r] # None
    /\ ask[r].method = "PUT"
    /\ \/ pc[r] \in {"unlock", "echo", "done"}
       \/ /\ pc[r] \in {"store", "storing"}
          /\ ask[r].email # NoEmail
          /\ customers[ask[r].id] = cust[r]

appliedPuts == [r \in Requests |->
                  IF Applied(r) THEN [id |-> ask[r].id, email |-> ask[r].email] ELSE None]

answeredPuts == {r \in Requests : Applied(r) /\ pc[r] = "done"}

Register == INSTANCE CustomerRegister WITH
    Puts <- Requests, NewEmails <- Emails \cup {NoEmail},
    value <- [i \in Ids |-> Current(i)], applied <- appliedPuts, answered <- answeredPuts

(* The records are an atomic register between two starts of the process: no  *)
(* update is lost, done twice, or answered before it is done.                *)
ImplementsRegister == Register!Spec

(* No request waits for the mutex forever. *)
EveryRequestEnds ==
    \A r \in Requests : pc[r] # "idle" ~> pc[r] \in {"done", "lost"}
=============================================================================
