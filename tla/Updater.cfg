SPECIFICATION FairSpec
CONSTANTS
    Commits = {c1}
    None = None
    MaxTries = 2
    MaxRestarts = 2
INVARIANT FlappingGivesUp
PROPERTIES KeepsPromise ConsentIsTaken RestartIsHealed StopEndsThread
CHECK_DEADLOCK FALSE
