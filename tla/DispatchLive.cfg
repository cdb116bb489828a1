\* Two tasks share a level above a handler that sends to both; fair scheduling.
SPECIFICATION FairSpec
CONSTANTS
    Handlers <- SharedHandlers
    Tasks <- SharedTasks
    Dispatchers <- SharedDispatchers
    Home <- SharedHome
    Priority <- SharedPriority
    Capacity <- SharedCapacity
    Spawns <- SharedSpawns
    Schedules <- SharedSchedules
    FreeCeiling <- SharedFreeCeiling
    ReadyCeiling <- SharedReadyCeiling
    FreeSize <- SharedCapacity
    ReadySize <- SharedReadySize
INVARIANTS
    NoLostWakeup
PROPERTIES
    DeliversMessages
    MessagesRun
