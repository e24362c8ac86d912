SPECIFICATION FairSpec
CONSTANTS
    k1 = k1
    k2 = k2
    u1 = u1
    u2 = u2
    r1 = r1
    r2 = r2
    Keys = {k1, k2}
    Users = {u1, u2}
    PrefixOf <- MCPrefix
    Seeds <- LoneOrTwo
    Requests = {r1, r2}
    TTL = 2
    MaxFaults = 1
INVARIANTS
    ContextMatchesKey
    RevokedWithinTTL
    RotationKeepsGrant
PROPERTIES
    RevokedByOwner
    RevocationTakesEffect
