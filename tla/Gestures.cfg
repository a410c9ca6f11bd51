CONSTANTS
    MaxQueue = 2
    MaxGestures = 3
    MaxToggles = 2
    MaxFaults = 1
SPECIFICATION FairSpec
INVARIANT ScrubHasEnd
PROPERTIES ActedInOrder PageFollows
