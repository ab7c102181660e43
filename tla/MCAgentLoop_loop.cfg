\* Three turns with up to two tool calls each.
CONSTANTS
    MAX_TURNS = 3
    MaxCalls = 2
SPECIFICATION FairSpec
CHECK_DEADLOCK FALSE
INVARIANTS
    TypeOK
    ConversationComplete
    ReportsTrue
    NothingRunsTwice
    HandshakeFirst
PROPERTIES
    Terminates
