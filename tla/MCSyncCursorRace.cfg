\* Two pushes that commit in the opposite order of their event ids.
CONSTANTS
    k1 = k1  k2 = k2  c1 = c1  i1 = i1
    NoCover = NoCover  NoInfo = NoInfo  Omitted = Omitted
    NoRow = NoRow  Untouched = Untouched  NoOp = NoOp
    Conns = {p1, p2}
    OpIds <- MCOpIds
    Ops <- OpsTwoKeys
    Keys <- MCKeys
    Covers <- MCCovers
    Infos <- MCInfos
    Enrichers = {}
    Pricers = {}
    Readers = {r1}
    PageSize = 1
    MaxBatch = 1
    MaxSeq = 4
SPECIFICATION Spec
INVARIANTS CursorCoversLog
CHECK_DEADLOCK FALSE
