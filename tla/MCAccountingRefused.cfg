\* Fused admission refused by one leg while the other leg's reply is lost.
SPECIFICATION Spec
CONSTANTS
    r1 = r1  r2 = r2  policy = policy  provider = provider
    Requests <- OneRequest
    Legs <- TwoLegs
    Ids <- OneRequestTwoLegs
    Kinds <- TwoLegs
    Modes <- FusedOnly
    Index <- OneWindow
    Scopes = {}
    NoScope = NoScope
    NoRow = NoRow
    Cost = 1
    Limit = 1
    MaxMicros = 1
    MaxLimit = 1
    MaxTime = 2
    Lease = 1
    Retention = 5
    LegacySpent <- NoDebt
    MaxRetries = 1
    MaxFaults = 2
INVARIANTS PreDispatchFailureIsFree
