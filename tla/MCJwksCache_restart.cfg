\* Two requests at a time, a restart of the plugin, fetches that fail or lag.
CONSTANTS
    r1 = r1
    r2 = r2
    Boot = Boot
    Requests = {r1, r2}
    MaxKey = 3
    StaleAfter = 1
    TokenTTL = 2
    MaxFetch = 1
SPECIFICATION FairSpec
INVARIANTS
    TypeOK
    BoundedOutage
PROPERTIES
    SettledUntilRestart
    HungFetchKeepsOnlyItsRequest
    Recovers
