\* One key with two providers: every handler of one owner, one failure.
\* Three observations of a grant by isolates and the owner.
SPECIFICATION GrantsSpec
CONSTANTS
    k1 = k1
    k2 = k2
    p1 = p1
    p2 = p2
    GrantKeys = {k1}
    Providers = {p1, p2}
    Capacity = 1
    Legacy = {k1}
    Probed = {}
    MaxGrantGen = 3
    MaxMishaps = 1
    Feeders = {"i", "j"}
    Immediate = {"j"}
    QuotaWindows = {"a", "p", "q"}
    Polled = {"p", "q"}
    Casts <- RuntimeCasts
    Unknown = Unknown
INVARIANTS IndexAgrees FeedbackMerges
PROPERTY StaleSelectionEnds
CHECK_DEADLOCK FALSE
