\* The sizes of one level add up to 256, without overflow checks.
SPECIFICATION Spec
CONSTANTS
    Handlers <- MCHandlers
    Exceptions <- MCExceptions
    Tasks <- MCTasks
    Resources <- MCResources
    Interrupts <- MCInterrupts
    Apps <- FullLevel
    OverflowChecks = FALSE
INVARIANTS
    QueuesFit
