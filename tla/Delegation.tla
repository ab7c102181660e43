----------------------------- MODULE Delegation -----------------------------
(***************************************************************************)
(* What the token exchange promises, with no gateway, no tool server and   *)
(* no HTTP: a rep is granted one scope at a time, never one outside the    *)
(* rep's entitlements, and the resource API only does what a grant says in *)
(* the name of the rep it was made to.                                     *)
(***************************************************************************)
EXTENDS AcmeScopes

VARIABLES
    grants,    \* [sub, scope] pairs granted so far
    effects    \* [sub, op] pairs: operations done, in whose name

dvars == <<grants, effects>>

Init ==
    /\ grants = {}
    /\ effects = {}

(* A rep is granted one of the scopes the rep is entitled to. *)
Grant(u, s) ==
    /\ s \in Entitlements[u]
    /\ grants' = grants \cup {[sub |-> u, scope |-> s]}
    /\ UNCHANGED effects

(* A grant is used for an operation that needs exactly its scope. *)
Perform(g, op) ==
    /\ requiredScope(op) = g.scope
    /\ effects' = effects \cup {[sub |-> g.sub, op |-> op]}
    /\ UNCHANGED grants

Next ==
    \/ \E u \in Users, s \in Scopes : Grant(u, s)
    \/ \E g \in grants, op \in Operations : Perform(g, op)

Spec == Init /\ [][Next]_dvars
=============================================================================
