\* A device upgraded from a version that stored discovery rows.
CONSTANTS
    k1 = k1  k2 = k2
    Keys <- OneGame
    Upgraded = TRUE
    Rejected <- NoGame
    PageSize = 1
    MaxPages = 2
    Window = 2
    ReplayPages = 2
    MaxBatch = 2
    MaxEdits = 2
    MaxForeign = 0
    MaxFaults = 0
    MaxResets = 0
SPECIFICATION Spec
INVARIANTS CursorIsCovered
CHECK_DEADLOCK FALSE
