CONSTANTS
    Themes = {"t1"}
    Unset = Unset
    NoDatabase = NoDatabase
    MaxEdits = 2
    MaxChoices = 0
    MaxLaunches = 2
    MaxGlitches = 1
SPECIFICATION DeviceSpec
PROPERTY NoRerunAfterCleanup
CHECK_DEADLOCK FALSE
