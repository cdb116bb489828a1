\* A message scheduled for a task of another priority.
SPECIFICATION Spec
CONSTANTS
    Handlers <- MCHandlers
    Exceptions <- MCExceptions
    Tasks <- MCTasks
    Resources <- MCResources
    Interrupts <- MCInterrupts
    Apps <- AcrossPriorities
    OverflowChecks = TRUE
INVARIANTS
    SendCoversSchedule
