SPECIFICATION Spec
CONSTANTS
    c1 = c1
    c2 = c2
    c3 = c3
    p = p
    q = q
    Ids = {1, 2, 3}
    Codes = {c1, c2, c3}
    Times = {1, 2}
    Statuses = {"active", "disabled"}
    Filters <- SomeFilters
    Creators = {p, q}
    MaxAliasRetries = 2
    Limit = 1
SYMMETRY CodesAndCallsAreAlike
INVARIANTS
    ConflictIsRace
    ListedOnce
    ListingComplete
