\* Two connections and a transactional background writer on one row.
CONSTANTS
    k1 = k1  k2 = k2  c1 = c1  i1 = i1
    NoCover = NoCover  NoInfo = NoInfo  Omitted = Omitted
    NoRow = NoRow  Untouched = Untouched  NoOp = NoOp
    Conns = {p1, p2}
    OpIds <- MCOpIds
    Ops <- OpsLifecycle
    Keys <- MCOneKey
    Covers <- MCCovers
    Infos <- MCInfos
    Enrichers = {e1}
    Pricers = {}
    Readers = {}
    PageSize = 1
    MaxBatch = 1
    MaxSeq = 3
SPECIFICATION Spec
INVARIANTS LastUpsertIsTheRow
