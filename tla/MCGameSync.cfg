\* One device and two games, one of which the server refuses to change.
CONSTANTS
    k1 = k1  k2 = k2
    Keys <- TwoGames
    Upgraded = FALSE
    Rejected <- SecondGame
    PageSize = 1
    MaxPages = 2
    Window = 1
    ReplayPages = 2
    MaxBatch = 2
    MaxEdits = 2
    MaxForeign = 1
    MaxFaults = 1
    MaxResets = 1
SPECIFICATION FairSpec
INVARIANTS TypeOK NoEditForgotten EditsInOrder CursorIsCovered LibraryMatchesServer
PROPERTIES LedgerSpec ComesToRest
