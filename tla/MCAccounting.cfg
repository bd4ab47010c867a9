\* One request held to two budgets, in every mode, with up to three faults:
\* partial reservations, lost replies, late calls, deaths, lease expiry and
\* the queue, under the fairness of a live worker and of the queue; or two
\* requests that compete for a budget that covers one.
SPECIFICATION ContendSpec
CONSTANTS
    r1 = r1  r2 = r2  policy = policy  provider = provider
    Requests <- TwoRequests
    Legs <- TwoLegs
    Ids <- SharedPolicy
    Kinds <- TwoLegs
    Modes <- AllModes
    Index <- OneWindow
    Scopes = {}
    NoScope = NoScope
    NoRow = NoRow
    Cost = 1
    Limit = 1
    MaxMicros = 2
    MaxLimit = 1
    MaxTime = 1
    Lease = 1
    Retention = 5
    LegacySpent <- NoDebt
    MaxRetries = 1
    MaxFaults = 3
INVARIANTS EgressAccounted SettlementsAgree
PROPERTIES SettlementArrives
