SPECIFICATION FairSpec
CONSTANTS
    l1 = l1
    l2 = l2
    r1 = r1
    r2 = r2
    w1 = w1
    w2 = w2
    Never = Never
    NoID = NoID
    Links <- Links2
    Requests <- Requests1
    Writers <- Writers1
    Lifetimes = {2}
    Sec = 2
    LinkTTL = 2
    NegTTL = 1
    MaxWrites = 2
    MaxFaults = 1
    TornPipelines = FALSE
INVARIANTS
    EntryWasCommitted
PROPERTIES
    EventuallyConsistent
