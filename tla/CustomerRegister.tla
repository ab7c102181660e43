-------------------------- MODULE CustomerRegister --------------------------
(***************************************************************************)
(* What a client may assume of the customer records of acme-resource-api:  *)
(* one value per customer, which an update replaces in one step, once, and *)
(* before the update is answered.  A restart of the process sets all of    *)
(* them back to the seed data.                                             *)
(***************************************************************************)
CONSTANTS
    Puts,          \* the updates, each made at most once
    Ids,           \* customer ids
    NewEmails,     \* what an update may ask for, NoEmail included
    Seed,          \* Seed[i]: the value at start
    NoEmail,       \* the empty email, which leaves a known customer alone
    Unknown,       \* value of a customer that is not in the records
    None

VARIABLES
    value,         \* value[i]
    applied,       \* applied[p]: the id and email of an update that is done
    answered       \* updates whose client has the answer

rvars == <<value, applied, answered>>

Init ==
    /\ value = Seed
    /\ applied = [p \in Puts |-> None]
    /\ answered = {}

Update(p, i, e) ==
    /\ applied[p] = None
    /\ value' = [value EXCEPT ![i] = IF e = NoEmail /\ @ # Unknown THEN @ ELSE e]
    /\ applied' = [applied EXCEPT ![p] = [id |-> i, email |-> e]]
    /\ UNCHANGED answered

Acknowledge(p) ==
    /\ applied[p] # None
    /\ answered' = answered \cup {p}
    /\ UNCHANGED <<value, applied>>

(* An update that was done but not answered is gone without a trace. *)
Reset ==
    /\ value' = Seed
    /\ applied' = [p \in Puts |-> IF p \in answered THEN applied[p] ELSE None]
    /\ UNCHANGED answered

Next ==
    \/ \E p \in Puts :
         \/ \E i \in Ids, e \in NewEmails : Update(p, i, e)
         \/ Acknowledge(p)
    \/ Reset

Spec == Init /\ [][Next]_rvars
=============================================================================
