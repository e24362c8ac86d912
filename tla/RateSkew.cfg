SPECIFICATION Spec
CONSTANTS
    Rate = 2
    Burst = 3
    TTL = 4
    Skew = 1
    MaxTime = 6
    MaxFaults = 1
INVARIANTS
    AdmissionBounded
    RetryIsEnough
