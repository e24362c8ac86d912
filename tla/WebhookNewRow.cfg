SPECIFICATION FairSpec
CONSTANTS
    ev1 = ev1
    ev2 = ev2
    e1 = e1
    w1 = w1
    w2 = w2
    c1 = c1
    Events <- Events1
    Endpoints <- Endpoints1
    Workers <- Workers2
    Callers <- Callers1
    RetryDelays <- Delays2
    MaxAttempts = 2
    ScansNull = FALSE
    BatchSize = 1
    MaxFaults = 1
    MaxResets = 0
PROPERTIES
    EventuallySettled
