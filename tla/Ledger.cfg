SPECIFICATION FairSpec
CONSTANTS
    Proc = {p1, p2}
    AccountId = {1, 2, 3}
    Currency = {"USD", "JPY"}
    Unit <- MCUnit
    Rate <- MCRate
    Day = {1, 2}
    Today = 2
    Label = {"old", "new"}
    Key = {"k1", "k2"}
    MaxAmount = 100
    NoAccount = NoAccount
    InitialAccount <- MCMixedAccounts
    Offered <- LedgerRequests
    MaxRequests = 4
CHECK_DEADLOCK FALSE
INVARIANTS LedgerInv TransferIntegrity TransfersNeverOverdraw OnlyReversalsDeadlock
    ReversedOnce AuditReplays FlowExplainsNetWorth
PROPERTIES ImplementsAtomicLedger RequestsReturn
