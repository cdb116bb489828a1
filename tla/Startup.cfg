\* From the source to idle: parser, check, pre_init, init, post_init.
SPECIFICATION FairSpec
CONSTANTS
    Exceptions <- MCExceptions
    Tasks <- MCTasks
    Resources <- MCResources
    Interrupts <- MCInterrupts
    Sources <- MCSources
    TimerQueueFeature = TRUE
    NVIC_PRIO_BITS = 2
CHECK_DEADLOCK FALSE
INVARIANTS
    TypeOK
    VerdictExact
    ArgumentsExact
    NoUninitRead
    NoHandlerBeforeIdle
    PreemptsByPriority
    StatementsOnce
    FirstAssignmentWins
PROPERTIES
    ReachesIdle
