SPECIFICATION Spec
CONSTANTS
    ev1 = ev1
    ev2 = ev2
    e1 = e1
    w1 = w1
    w2 = w2
    c1 = c1
    Events <- Events2
    Endpoints <- Endpoints1
    Workers <- Workers1
    Callers <- Callers1
    RetryDelays <- Delays2
    MaxAttempts = 2
    ScansNull = TRUE
    BatchSize = 2
    MaxFaults = 1
    MaxResets = 1
SYMMETRY Symmetry
INVARIANTS
    SnapshotFresh
    PostsBounded
    InactiveIsQuiet
    SuccessWasAccepted
    PostsAreCounted
PROPERTIES
    ImplementsLifecycle
