--------------------------- MODULE MCTokenExchange ---------------------------
(***************************************************************************)
(* TokenExchange with the two reps of the realm.                           *)
(***************************************************************************)
EXTENDS TokenExchange, TLC

MCUsers == {"alice", "bob"}

MCEntitlements ==
    [alice |-> {"customers:read"},
     bob   |-> {"customers:read", "customers:write", "refunds:write"}]

(* A tool that every rep may use, one that not every rep may, and no tool. *)
MCTools == {"lookup_customer", "issue_refund", "no_such_tool"}

(* The tool whose denial and whose effect matter most. *)
OneTool == {"issue_refund"}

(* One tool per scope, and a name that is no tool. *)
ToolPerScope == {"lookup_customer", "update_customer", "issue_refund", "no_such_tool"}

CallSymmetry == Permutations(Calls)
=============================================================================
