\* A price written and logged in two statements, and a push.
CONSTANTS
    k1 = k1  k2 = k2  c1 = c1  i1 = i1
    NoCover = NoCover  NoInfo = NoInfo  Omitted = Omitted
    NoRow = NoRow  Untouched = Untouched  NoOp = NoOp
    Conns = {p1}
    OpIds <- MCOpIds
    Ops <- OpsLifecycle
    Keys <- MCOneKey
    Covers <- MCCovers
    Infos <- MCInfos
    Enrichers = {}
    Pricers = {w1}
    Readers = {}
    PageSize = 1
    MaxBatch = 1
    MaxSeq = 4
SPECIFICATION Spec
INVARIANTS LastUpsertCarriesTheEdit
CHECK_DEADLOCK FALSE
