\* Each part of a credential owner on an instance of its own.
SPECIFICATION OwnersSpec
CONSTANTS
    k1 = k1
    k2 = k2
    p1 = p1
    t1 = t1
    t2 = t2
    c1 = c1
    c2 = c2
    c3 = c3
    e1 = e1
    e2 = e2
    e3 = e3
    GrantKeys = {k1, k2}
    Providers = {p1}
    Capacity = 1
    Legacy = {}
    Probed = {k2}
    MaxGrantGen = 2
    MaxMishaps = 1
    NoToken = NoToken
    Keys = {k1, k2}
    Tokens = {t1, t2}
    Old = {k1, k2}
    MaxFaults = 1
    Calls = {c1, c2, c3}
    MaxAttempts = 2
    MaxGeneration = 4
    MaxCrashes = 1
    Exchanges = {e1, e2, e3}
    SigningKeys = {1, 2}
    MaxExchanges = 3
    MaxVertexGen = 4
    MaxRestarts = 1
INVARIANTS
    CapacityKept
    TypeOK OneSender NeverReplayed SpentIsFenced
    DeviceSafe
    VertexSafe
PROPERTIES CopyNeverRobs AttemptsStand
CHECK_DEADLOCK FALSE
