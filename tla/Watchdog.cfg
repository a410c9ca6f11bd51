CONSTANTS
    r1 = r1
    r2 = r2
    Requesters <- McRequesters
    MaxRestarts = 2
    Minute = 3
    MaxClock = 4
SPECIFICATION FairSpec
INVARIANTS NoMissedShutdown RestartsPerMinute
PROPERTIES ShutdownEnds EngineDiesWithLauncher
