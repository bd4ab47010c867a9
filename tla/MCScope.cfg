\* Two attempts with one key and a Responses job; three requests and their
\* identities in a table of two rows.
SPECIFICATION ScopeSpec
CONSTANTS
    j1 = j1  j2 = j2  j3 = j3  policy = policy  key = key
    Jobs = {j1, j2, j3}
    Managed = {j1, j2}
    Key <- OneKey
    NoKey = NoKey
    Legs = {policy}
    Ids = {}
    Kinds = {policy}
    Index <- Months
    Scopes = {}
    NoScope = NoScope
    NoRow = NoRow
    Never = Never
    Cost = 1
    Limit = 1
    MaxMicros = 1
    MaxLimit = 1
    MaxTime = 5
    Lease = 1
    Retention = 5
    LegacySpent <- NoDebt
    Admission = 1
    Observation = 2
    AutoRetry = 3
    Replay = 4
    ActiveLimit = 1
    Capacity = 1
    Arrivals <- Attempts
    MaxFaults = 0
    Producers = {1, 2, 3}
    Nobody = Nobody
    Responses = {"r1", "r2"}
    Turns = {"t"}
    Routes = {"a", "b"}
    Plans <- ContinuationPlans
    Keep = 1
    Room = 2
    ExpireBatch = 1
    MaxDays = 2
    MaxStops = 1
    Unset = Unset
INVARIANTS OneGeneration FrozenIsClosed ContinuationsHold
CHECK_DEADLOCK FALSE
