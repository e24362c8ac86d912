SPECIFICATION Spec
CONSTANTS
    l1 = l1
    l2 = l2
    r1 = r1
    r2 = r2
    w1 = w1
    w2 = w2
    Never = Never
    NoID = NoID
    Links <- Links2
    Requests <- Requests1
    Writers <- Writers2
    Lifetimes = {1}
    Sec = 1
    LinkTTL = 2
    NegTTL = 1
    MaxWrites = 3
    MaxFaults = 1
    TornPipelines = TRUE
SYMMETRY Symmetry
INVARIANTS
    ServedWasCommitted
    StaleHasCause
PROPERTIES
    DeletedIsFinal
