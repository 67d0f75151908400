CONSTANTS
    Themes = {"t1", "t2"}
    Unset = Unset
    NoDatabase = NoDatabase
    MaxEdits = 2
    MaxChoices = 2
    MaxLaunches = 3
    MaxGlitches = 2
SPECIFICATION MCDeviceSpec
INVARIANTS
    DeviceTypeOK
    CacheMatchesStore
    PreferenceIsKept
    NoEditIsStranded
PROPERTIES
    DeviceSettles
\* Edits, choices, launches and failures are bounded: the app stops when they are spent.
CHECK_DEADLOCK FALSE
