SPECIFICATION Spec
CONSTANTS
    Proc = {p1, p2}
    Id = {1, 2}
    Offered <- MCImports
    Opening <- MCOpening
    None = None
    MaxImports = 3
SYMMETRY ProcSymmetry
CHECK_DEADLOCK FALSE
INVARIANTS DepositOnce MatchIsTrue ImportedAccountsOwned
