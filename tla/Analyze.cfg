\* Applications of every shape, macro built with overflow checks.
SPECIFICATION Spec
CONSTANTS
    Handlers <- MCHandlers
    Exceptions <- MCExceptions
    Tasks <- MCTasks
    Resources <- MCResources
    Interrupts <- MCInterrupts
    Apps <- MCApps
    OverflowChecks = TRUE
INVARIANTS
    TypeOK
    CeilingsExact
    SyncExact
    FreeQueuesExclude
    SpawnersExclude
    TimerQueueExcludes
    DispatchersApart
    QueuesFit
    SendAsserted
    NoBug
