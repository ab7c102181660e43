\* One call alone: does the page say done of what failed?
CONSTANTS
    c1 = c1
    c2 = c2
    Calls = {c1}
    Users <- MCUsers
    Entitlements <- MCEntitlements
    AskedTools <- MCTools
    None = None
SPECIFICATION Spec
INVARIANTS
    DoneMeansDone
