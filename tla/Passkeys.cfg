SPECIFICATION Spec
CONSTANTS
    Proc = {p1, p2}
    Credential = {c1}
    TTL = 1
    CleanupEvery = 1
    Nobody = Nobody
    MaxCount = 2
    MaxTime = 2
    MaxRequests = 4
SYMMETRY ProcSymmetry
CHECK_DEADLOCK FALSE
INVARIANTS ChallengeUsedOnce
PROPERTIES LiveChallengesKept RevokedForGood OnlyOverlapLosesCounts
