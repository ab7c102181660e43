\* Aborts, re-runs and pod restarts at any step of the three scripts.
CONSTANTS
    Versions = {0, 1}
    NoApi = NoApi
    Vendors = {"anthropic", "openai"}
    MaxLlms = 2
    NoApp = NoApp
SPECIFICATION Spec
INVARIANTS
    TypeOK
    GovernedWhenDone
    ServedAsRegistered
    RerunRepairs
