\* A capacity above 128.
SPECIFICATION Spec
CONSTANTS
    Handlers <- MCHandlers
    Exceptions <- MCExceptions
    Tasks <- MCTasks
    Resources <- MCResources
    Interrupts <- MCInterrupts
    Apps <- LargeInbox
    OverflowChecks = TRUE
INVARIANTS
    CapacitiesAccepted
