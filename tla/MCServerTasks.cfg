\* The monitor: one game, a dated marker and a quarter that ends on that date, two workers.
CONSTANTS
    dA = dA
    qB = qB
    f1 = f1
    Titles = {g1}
    Markers = {dA, qB}
    Unknown = Unknown
    DayOf <- MCDayOf
    DateShown <- MCDateShown
    Forces = {f1}
    LastDay = 2
    Monitors = {w1, w2}
    NoMonitor = NoMonitor
    NoWatch = NoWatch
    NoTask = NoTask
    EastOfUtc = TRUE
    MaxShifts = 1
    MaxMishaps = 1
\* Sale alerts: one sale, two refreshes.
    Discounts = {d1}
    FullPrice = FullPrice
    Sellers = {w1, w2}
    MaxQuotes = 5
    MaxSlips = 2
\* The compatibility refresh: two entries, two refreshes.
    e1 = e1
    e2 = e2
    good = good
    bad = bad
    Entries = {e1, e2}
    Statuses = {good, bad}
    Best = good
    Matched = e1
    NoStatus = NoStatus
    NoEntry = NoEntry
    Refreshers = {r1, r2}
    MaxReports = 1
    MaxCommands = 1
    MaxSnags = 1
\* The schedule: a release day 66 days ahead.
    ReleaseDay <- MCReleaseDay
    MonthBegin <- MCMonthBegin
    QuarterBegin <- MCQuarterBegin
    YearBegin <- MCYearBegin
    YearOver <- MCYearOver
    MaxLate = 1
    Forced <- MCForced
    LastHour <- MCLastHour
    MaxErrors = 1
\* The limiter: three requests, one slot.
    Callers = {c1, c2, c3}
    MaxConcurrent = 1
    MinInterval = 1
    MaxDelay = 1
    WindowLength = 2
    MaxRequests = 2
    MaxCooldown = 2
    MaxAsks = 4
\* Recommendations: two builders.
    Builders = {w1, w2}
    NoBuilder = NoBuilder
    MaxChanges = 1
    MaxUpsets = 2
\* Discovery matches: one candidate and all the calls, or two and none.
    g1 = g1
    g2 = g2
    Games = {g1, g2}
    Recent = {g1}
    Enrichers = {w1, w2}
    Clerks = {c1}
    Limit = 1
    MaxAttempts = 2
    MaxCalls = 2
    MaxFaults = 1
SPECIFICATION TasksSpec
INVARIANTS
    TasksTypeOK
    SingleShot
    
    SalesAreAnnounced
    SalesAreAnnouncedOnce
    BindingIsKept
    ReleaseDayIsSeen
    NoSlotIsLost
    TypedHoursStay
PROPERTIES
    DatesConverge
    CompatSettles
    EveryRequestEnds
    ServedNeverRegresses
    RecommendationsConverge
    EnrichmentSettles
\* Changes, faults and calls are bounded: a part stops when they are spent.
CHECK_DEADLOCK FALSE
