SPECIFICATION FairSpec
CONSTANTS
    today = today
    Clicks = {m1, m2}
    Poison = {}
    StatKeys = {today}
    KeyOf <- SameKey
    Workers = {w1, w2}
    BatchSize = 2
    MaxRetries = 2
    MaxStreamLen = 1
    MaxFaults = 2
INVARIANTS
    NeverOvercounted
PROPERTIES
    EventuallyAcked
CHECK_DEADLOCK FALSE
