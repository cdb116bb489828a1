\* SysTick interrupts a spawner inside the enqueue.
SPECIFICATION Spec
CONSTANTS
    Handlers <- SharedHandlers
    Tasks <- RaceTasks
    Dispatchers <- SharedDispatchers
    Home <- RaceHome
    Priority <- RacePriority
    Capacity <- RaceCapacity
    Spawns <- RaceSpawns
    Schedules <- RaceSchedules
    FreeCeiling <- RaceFreeCeiling
    ReadyCeiling <- RaceReadyCeiling
    FreeSize <- RaceCapacity
    ReadySize <- RaceReadySize
INVARIANTS
    SlotsConserved
