\* An instant that is exactly what the handler reads from the clock.
SPECIFICATION Spec
CONSTANTS
    foo0 = foo0
    bar0 = bar0
    Messages = {foo0}
    Half = 6
    OverflowChecks = FALSE
    MaxReload = 2
    Ahead = 3
    Lag = 2
    Delay = 1
INVARIANTS
    TimerCounts
CHECK_DEADLOCK FALSE
