CONSTANTS
    Codes <- McCodes
    SystemLang = "en"
    MaxTicks = 3
    RelaxTicks = 2
    MaxVideos = 2
    MaxEdits = 2
    MaxMishaps = 1
SPECIFICATION CaptionsFairSpec
PROPERTIES ToggleStands CaptionsFollow StoreKeepsPromise
CHECK_DEADLOCK FALSE
