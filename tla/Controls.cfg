CONSTANTS
    Files <- McFiles
    Pads <- McPads
    Pulls <- McPulls
    Tilts <- McTilts
    Steers <- McSteers
SPECIFICATION ControlsSpec
INVARIANT AxesSayWhatIsHeld
PROPERTIES ScrollIsPaced RetriesBackOff TriggerFiresOnce ModifierOwnsPad
CHECK_DEADLOCK FALSE
