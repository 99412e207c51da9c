SPECIFICATION MCFairSpec
CONSTANTS
    c1 = c1
    c2 = c2
    Conns = {c1, c2}
    TextSizes = {1}
    Capacity = 2
    Parts = {2}
    MaxFailures = 1
    Messages <- MCMessages
    ExitCodes = {0}
    OldRows = 1
    Nobody = Nobody
INVARIANTS
    TypeOK
    WholeOrNothing
    OnlyRequestsAnswered
    AnswersTrue
    ListingTrue
PROPERTIES
    ImplementsRemoteCall
    CallsEnd
CHECK_DEADLOCK FALSE
