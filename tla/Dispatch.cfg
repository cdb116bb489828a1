\* Two levels and SysTick: senders above the dispatcher and below it.
SPECIFICATION Spec
CONSTANTS
    Handlers <- MCHandlers
    Tasks <- MCTasks
    Dispatchers <- MCDispatchers
    Home <- MCHome
    Priority <- MCPriority
    Capacity <- MCCapacity
    Spawns <- MCSpawns
    Schedules <- MCSchedules
    FreeCeiling <- MCFreeCeiling
    ReadyCeiling <- MCReadyCeiling
    FreeSize <- MCCapacity
    ReadySize <- MCReadySize
INVARIANTS
    TypeOK
    SlotsConserved
    RoomLeft
    NoLostWakeup
PROPERTIES
    DeliversMessages
