\* Two calls in flight, by either rep, for a tool of each scope or a name that is none.
CONSTANTS
    c1 = c1
    c2 = c2
    Calls = {c1, c2}
    Users <- MCUsers
    Entitlements <- MCEntitlements
    AskedTools <- ToolPerScope
    None = None
SPECIFICATION Spec
SYMMETRY CallSymmetry
INVARIANTS
    TypeOK
    EffectAuthorised
    OnBehalfOfUnlessOverwritten
    ScopeRefusedOnlyIfOverwritten
    RefusedHasNoEffect
    InspectorShowsTokenUsed
PROPERTIES
    ImplementsDelegation
