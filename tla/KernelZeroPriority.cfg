\* A handler with `priority = 0` shares a resource with idle.
SPECIFICATION Spec
CONSTANTS
    Handlers <- ZeroHandlers
    Resources <- ZeroResources
    Priority <- ZeroPriority
    Uses <- ZeroUses
    Ceiling <- ZeroCeiling
    NVIC_PRIO_BITS = 2
    Armv7m = TRUE
INVARIANTS
    MutualExclusion
