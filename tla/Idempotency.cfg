SPECIFICATION FairSpec
CONSTANTS
    Proc = {p1, p2}
    Key = {k1}
    Body = {b1, b2}
    Lease = 1
    Retention = 2
    NoRecord = NoRecord
    MaxTime = 2
    MaxRequests = 3
CHECK_DEADLOCK FALSE
INVARIANTS AtMostOnce RepliesAreTrue ClaimIsKept IdempotencyInv
PROPERTIES RequestsAnswered
