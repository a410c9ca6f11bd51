SPECIFICATION FairSpec
CONSTANTS
    Directions = {up}
    None = None
    MaxTurns = 1
    MaxQueue = 2
    MaxActs = 3
INVARIANTS PaintedIsCaptured RepeatsWhatIsHeld
PROPERTY CaptureEnds
