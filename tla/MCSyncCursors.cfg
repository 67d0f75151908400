\* A push, a price refresh, restarts, and a client pulling the log.
CONSTANTS
    k1 = k1  k2 = k2  c1 = c1  i1 = i1
    NoCover = NoCover  NoInfo = NoInfo  Omitted = Omitted
    NoRow = NoRow  Untouched = Untouched  NoOp = NoOp
    Conns = {p1}
    OpIds <- MCOpIds
    Ops <- OpsLifecycle
    Keys <- MCOneKey
    Covers <- MCCovers
    Infos <- MCInfos
    Enrichers = {}
    Pricers = {w1}
    Readers = {r1}
    PageSize = 1
    MaxBatch = 2
    MaxSeq = 3
SPECIFICATION Spec
PROPERTIES CursorsOnlyAdvance NewerCoverSurvives
