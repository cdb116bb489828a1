\* A clock of 12 readings; instants up to 3 ahead, the timer reaches 2.
SPECIFICATION FairSpec
CONSTANTS
    foo0 = foo0
    bar0 = bar0
    Messages = {foo0, bar0}
    Half = 6
    OverflowChecks = FALSE
    MaxReload = 2
    Ahead = 3
    Lag = 2
    Delay = 1
INVARIANTS
    TypeOK
    InstantsExact
    LatenessExact
    WakesInTime
PROPERTIES
    MeetsDeadlines
    EveryMessageReleased
CHECK_DEADLOCK FALSE
