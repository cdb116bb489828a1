\* ARMv7-M: claims use BASEPRI below the highest priority, PRIMASK at it;
\* handlers are scheduled fairly.
SPECIFICATION FairSpec
CONSTANTS
    Handlers <- MCHandlers
    Resources <- MCResources
    Priority <- MCPriority
    Uses <- MCUses
    Ceiling <- MCCeiling
    NVIC_PRIO_BITS = 2
    Armv7m = TRUE
INVARIANTS
    TypeOK
    MutualExclusion
    CellMatchesHardware
    NoSpuriousMasking
    SingleBlocking
PROPERTIES
    FollowsPolicy
    PendingRuns
