SPECIFICATION Spec
CONSTANTS
    Proc = {p1, p2}
    Password = {"old", "new"}
    Threshold = 2
    Delays <- MCDelays
    Lifetime = 2
    Nobody = Nobody
    MaxTime = 1
    MaxTokens = 3
    MaxRequests = 5
CHECK_DEADLOCK FALSE
PROPERTIES EverySessionEnds
