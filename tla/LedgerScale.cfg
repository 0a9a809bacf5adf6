SPECIFICATION Spec
CONSTANTS
    Proc = {p1, p2}
    AccountId = {1, 2}
    Currency = {"USD", "JPY"}
    Unit <- MCUnit
    Rate <- MCRate
    Day = {1, 2}
    Today = 2
    Label = {"old", "new"}
    Key = {"k1", "k2"}
    MaxAmount = 100
    NoAccount = NoAccount
    InitialAccount <- MCAccounts
    Offered <- ScaleRequests
    MaxRequests = 3
CHECK_DEADLOCK FALSE
INVARIANTS AmountScaleMatches
