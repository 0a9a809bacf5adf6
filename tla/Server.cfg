SPECIFICATION Spec
CONSTANTS
    Proc = {p1, p2}
    Client = {"a", "b", "c"}
    Trusted = {"proxy"}
    Malformed = {"junk"}
    Limit = 1
    Window = 2
    MinBuckets = 1
    MaxBuckets = 2
    Base = {"USD"}
    TTL = 2
    Offered <- MCRequests
    MaxTime = 3
    MaxRequests = 5
    None = None
SYMMETRY ProcSymmetry
CHECK_DEADLOCK FALSE
INVARIANTS AdmittedWithinLimit RatesAreFresh
PROPERTIES LiveBucketsKept
