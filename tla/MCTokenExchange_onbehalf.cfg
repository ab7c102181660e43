\* Two reps at the same time: whose sub does the API see?
CONSTANTS
    c1 = c1
    c2 = c2
    Calls = {c1, c2}
    Users <- MCUsers
    Entitlements <- MCEntitlements
    AskedTools <- MCTools
    None = None
SPECIFICATION Spec
INVARIANTS
    OnBehalfOf
