CONSTANTS
    MaxTries = 2
    MaxEvents = 2
SPECIFICATION FairSpec
INVARIANTS NoLeakedLock HookBeforeSleep SleepsPaused
PROPERTIES IdleReleased ShutdownCompletes
