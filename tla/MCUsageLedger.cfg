\* Two events whose ids come back after their retention: the reporting
\* projection against old writers, interrupted rounds and reused rowids.
SPECIFICATION FairSpec
CONSTANTS
    e1 = e1  e2 = e2
    Ids <- TwoIds
    Raws <- Written
    RawOf <- Principal
    Normal <- NormalizeEmail
    Null = Null
    NoEvent = NoEvent
    Retention = 1
    Start = 2
    MaxTime = 3
    MaxRowid = 3
    HistoryRows = 2
    AttributionBatch = 1
    RollupBatch = 1
    ReportBatch = 1
INVARIANTS UsageExact ProjectionTrusted
PROPERTIES MigrationsFinish
