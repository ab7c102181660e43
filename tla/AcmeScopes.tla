----------------------------- MODULE AcmeScopes -----------------------------
(***************************************************************************)
(* Who may do what in the Acme Support Copilot, as four places of the code *)
(* state it independently: the `entitlements' claim of the SSO token       *)
(* (realm), the table tool -> scope of the exchange plugin, the operation  *)
(* an MCP tool is bound to (OpenAPI document) and the scope each handler   *)
(* of the resource API demands.  Also the two kinds of bearer token.       *)
(***************************************************************************)
EXTENDS FiniteSets

CONSTANTS
    Users,         \* support reps known to the identity provider (`sub')
    Entitlements   \* Entitlements[u]: the scopes of u's `entitlements' claim

Scopes == {"customers:read", "customers:write", "refunds:write"}

ASSUME EntitlementsAssumption == Entitlements \in [Users -> SUBSET Scopes]

-----------------------------------------------------------------------------
(* Defect variant of TOOL_SCOPES: an update only needs to read. *)
TOOL_SCOPES_UpdateReads ==
    [lookup_customer |-> "customers:read",
     recent_orders   |-> "customers:read",
     update_customer |-> "customers:read",
     issue_refund    |-> "refunds:write"]

(* The plugin's table of tools; a tool that is not in its domain is unknown. *)
TOOL_SCOPES ==
    [lookup_customer |-> "customers:read",
     recent_orders   |-> "customers:read",
     update_customer |-> "customers:write",
     issue_refund    |-> "refunds:write"]

Tools == DOMAIN TOOL_SCOPES

(* The operation of the resource API the tool server bound to each tool. *)
OperationOf ==
    [lookup_customer |-> "GET customer",
     recent_orders   |-> "GET orders",
     update_customer |-> "PUT customer",
     issue_refund    |-> "POST refund"]

Operations == {"GET customer", "GET orders", "PUT customer", "POST refund"}

(* The scope the handler of an operation passes to requireScope. *)
requiredScope(op) ==
    CASE op \in {"GET customer", "GET orders"} -> "customers:read"
      [] op = "PUT customer"                   -> "customers:write"
      [] op = "POST refund"                    -> "refunds:write"

-----------------------------------------------------------------------------
(* A bearer keeps the four claims somebody downstream decides on. *)
SsoToken(u) ==
    [iss |-> "keycloak", aud |-> "tyk-mcp-gateway", sub |-> u, scope |-> "customers:all"]

mint_exchanged_token(u, s) ==
    [iss |-> "plugin", aud |-> "api.acme.internal", sub |-> u, scope |-> s]

SsoTokens    == {SsoToken(u) : u \in Users}
PluginTokens == {mint_exchanged_token(u, s) : u \in Users, s \in Scopes}
Tokens       == SsoTokens \cup PluginTokens

(* The hook's two tests before it mints: the tool is known, and its scope is *)
(* among the entitlements of the caller.                                     *)
Covers(u, t) == t \in Tools /\ TOOL_SCOPES[t] \in Entitlements[u]

=============================================================================
