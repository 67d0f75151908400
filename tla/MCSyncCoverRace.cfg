\* A stale push that read the row before a newer cover was committed.
CONSTANTS
    k1 = k1  k2 = k2  c1 = c1  i1 = i1
    NoCover = NoCover  NoInfo = NoInfo  Omitted = Omitted
    NoRow = NoRow  Untouched = Untouched  NoOp = NoOp
    Conns = {p1, p2}
    OpIds <- MCOpIds
    Ops <- OpsCovers
    Keys <- MCOneKey
    Covers <- MCCovers
    Infos <- MCInfos
    Enrichers = {}
    Pricers = {}
    Readers = {}
    PageSize = 1
    MaxBatch = 1
    MaxSeq = 4
SPECIFICATION Spec
PROPERTIES NewerCoverSurvives
CHECK_DEADLOCK FALSE
