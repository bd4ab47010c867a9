\* A bundle that differs from the one the ticket stored first.
SPECIFICATION SubmitSpec
CONSTANTS
    Contributions = {p1, p2, p3}
    Bundles = {"b1", "b2"}
    MaxClaims = 3
INVARIANT DifferentReplayRejected
CHECK_DEADLOCK FALSE
