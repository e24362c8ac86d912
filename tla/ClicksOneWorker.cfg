SPECIFICATION ReportSpec
CONSTANTS
    m1 = m1
    m2 = m2
    m3 = m3
    yesterday = yesterday
    today = today
    Clicks = {m1, m2, m3}
    Poison = {m1}
    StatKeys = {yesterday, today}
    KeyOf <- OneOfToday
    LinkOfKey <- OneLink
    DateOfKey <- TwoDates
    Queries <- SomePeriods
    Unset = unset
    Today = 20
    DefaultDays = 1
    MaxRange = 3
    Workers = {w}
    BatchSize = 2
    MaxRetries = 2
    MaxStreamLen = 2
    MaxFaults = 2
INVARIANTS
    TypeOK
    EntryIsTracked
    AckedIsKept
    AggregatesAccurate
    HooksBounded
    PeriodHonoured
    ReportAgrees
CHECK_DEADLOCK FALSE
