\* Two workers, jobs of one key, two troubles; replays name a known type or another.
CONSTANTS
    p1 = p1  p2 = p2  t1 = t1  t2 = t2  k1 = k1  l1 = l1  l2 = l2
    NoKey = NoKey  NoOwner = NoOwner  NoJob = NoJob  NoRequest = NoRequest
    Loops <- MCLoops
    Procs = {p1, p2}
    ProcOf <- MCProcOf
    Types = {t1, t2}
    TypeOf <- MCTypeOf
    ReplayTypes = {t1}
    Producers = {q1}
    Requests <- MCRequests
    Keys = {k1}
    MaxJobs = 2
    MaxTroubles = 2
SPECIFICATION FairSpec
INVARIANTS TypeOK RunIsExclusive FailedIsExhausted
PROPERTIES SucceededIsTerminal EveryJobEnds
