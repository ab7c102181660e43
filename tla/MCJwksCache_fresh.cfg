\* A restart of the plugin and a token minted after it.
CONSTANTS
    r1 = r1
    r2 = r2
    Boot = Boot
    Requests = {r1, r2}
    MaxKey = 2
    StaleAfter = 1
    TokenTTL = 2
    MaxFetch = 1
SPECIFICATION Spec
INVARIANTS
    FreshExchangeAccepted
