\* Three requests for a known and an unknown customer.
CONSTANTS
    r1 = r1
    r2 = r2
    r3 = r3
    Requests = {r1, r2, r3}
    priya = priya
    nobody = nobody
    Ids = {priya, nobody}
    Known = {priya}
    new = new
    Emails = {new}
    NoEmail = NoEmail
    SeedEmail = SeedEmail
    Torn = Torn
    Unknown = Unknown
    None = None
SPECIFICATION FairSpec
INVARIANTS
    TypeOK
    OneUpdateAtATime
    AnswersCurrent
PROPERTIES
    ImplementsRegister
    EveryRequestEnds
