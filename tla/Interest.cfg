SPECIFICATION MCSpec
CONSTANTS
    Nobody = Nobody
    MonthLength = 2
    LeapDay = {3, 4}
    Proc = {p1, p2}
    Account = {1, 2}
    RuleId = {1, 2, 3, 4}
    InitialRules <- MCRules
    Opening <- MCOpening
    Offered <- InterestRequests
    LastDay = 2
    MaxAmount = 10
    MaxRequests = 3
    TermDays = 5
    Terms <- MCTerms
    Histories <- MCHistories
CHECK_DEADLOCK FALSE
INVARIANTS AccrualsLinked OnlyWithdrawalsEscape AccruesWhatIsEarned EveryDayPaidOnce RecalculationConfirms
PROPERTIES PaysNewDays OnlyItsRangeIsReplaced RuleUpdatesApply RequestsReturn
