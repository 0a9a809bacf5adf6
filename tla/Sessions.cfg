SPECIFICATION Spec
CONSTANTS
    Proc = {p1, p2}
    Password = {"old", "new"}
    Threshold = 2
    Delays <- MCDelays
    Lifetime = 2
    Nobody = Nobody
    MaxTime = 2
    MaxTokens = 3
    MaxRequests = 5
SYMMETRY ProcSymmetry
CHECK_DEADLOCK FALSE
INVARIANTS SessionsAreLines FailuresCount
PROPERTIES SetupOnce RevokedForGood OnlyNewTokensOutlive
