SPECIFICATION Spec
CONSTANTS
    Endpoints = {e1}
    Users = {u1, u2}
    Urls = {h1, h2}
    Callers = {a, b}
    Workers = {w}
    Omitted = omitted
    MaxSecrets = 3
    MaxFaults = 1
INVARIANTS RetiredStaysRetired RetiredSignsOnce LostUpdateHasCause
PROPERTIES ChangedByOwner
SYMMETRY NamesAreAlike
CHECK_DEADLOCK FALSE
