SPECIFICATION AttachSpec
CONSTANTS
    k1 = k1
    k2 = k2
    p1 = p1
    p2 = p2
    GrantKeys = {k1}
    Providers = {p1}
    Capacity = 1
    Legacy = {}
    Probed = {k1}
    MaxGrantGen = 2
    MaxMishaps = 0
INVARIANT InactiveFreesSlot
