\* Two connections, retried and competing pushes.
CONSTANTS
    k1 = k1  k2 = k2  c1 = c1  i1 = i1
    NoCover = NoCover  NoInfo = NoInfo  Omitted = Omitted
    NoRow = NoRow  Untouched = Untouched  NoOp = NoOp
    Conns = {p1, p2}
    OpIds <- MCOpIds
    Ops <- OpsTwoKeys
    Keys <- MCKeys
    Covers <- MCCovers
    Infos <- MCInfos
    Enrichers = {}
    Pricers = {}
    Readers = {}
    PageSize = 1
    MaxBatch = 2
    MaxSeq = 2
SPECIFICATION FairSpec
INVARIANTS TypeOK OneEventPerOp RepliesAreDurable
PROPERTIES LedgerSpec PushCompletes
