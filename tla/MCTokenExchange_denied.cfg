\* One refund alone: does the page say denied of what happened?
CONSTANTS
    c1 = c1
    c2 = c2
    Calls = {c1}
    Users <- MCUsers
    Entitlements <- MCEntitlements
    AskedTools <- OneTool
    None = None
SPECIFICATION Spec
INVARIANTS
    DeniedHasNoEffect
