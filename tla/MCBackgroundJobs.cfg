SPECIFICATION FairSpec
CONSTANTS
    j1 = j1  j2 = j2  j3 = j3  policy = policy  key = key
    Jobs = {j1}
    Managed = {j1}
    Key <- OneKey
    NoKey = NoKey
    Legs = {policy}
    Ids <- FirstHeld
    Kinds = {policy}
    Index <- Months
    Scopes = {}
    NoScope = NoScope
    NoRow = NoRow
    Never = Never
    Cost = 1
    Limit = 1
    MaxMicros = 1
    MaxLimit = 1
    MaxTime = 5
    Lease = 1
    Retention = 5
    LegacySpent <- NoDebt
    Admission = 1
    Observation = 2
    AutoRetry = 3
    Replay = 4
    ActiveLimit = 1
    Capacity = 1
    Arrivals <- Attempts
    MaxFaults = 1
INVARIANTS JobsCharged
PROPERTIES JobsEnd
CHECK_DEADLOCK FALSE
