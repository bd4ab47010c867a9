\* Each component before dispatch on an instance of its own.
SPECIFICATION ControlSpec
CONSTANTS
    Isolates = {"i", "j"}
    Requests = {1, 2, 3}
    Scenes <- CacheScenes
    MaxAge = 2
    FreshAge = 1
    LeaderLimit = 2
    WorkLimit = 2
    MaxTime = 2
    MaxVersion = 1
    MaxFeedback = 2
    KeyIds = {1, 2, 3}
    Members = {"u", "v"}
    Snapshots <- AuthoritySnapshots
    Editors = {1, 2}
    Admissions = {a1}
    KeyLimit = 2
    RetentionLimit = 2
    MaxChanges = 1
    Missing = Missing
    Untouched = Untouched
    Admins = {m1, m2}
    Caps = {"low", "high"}
    MaxStamp = 2
    Contributions = {p1, p2, p3}
    Bundles = {"b1", "b2"}
    MaxClaims = 3
    SoftTurns = {1, 2}
    SharedLane = {2}
    SoftLegs = {"policy"}
    SoftLimits = {0, 1, 2}
    FreshFor = 1
    MaxSoftTime = 2
    MaxSoftSpent = 1
    Nobody = Nobody
INVARIANTS CacheCurrent FeedbackKept MutationsStand OneReceipt SoftVerdict
PROPERTIES KeysChecked OverridesStand
CHECK_DEADLOCK FALSE
