SPECIFICATION Spec
CONSTANTS
    Proc = {p1, p2}
    Account = {"a1", "a2"}
    Category = {"food", "rent"}
    Currency = {"USD", "JPY"}
    Unit <- MCUnit
    Amount = {1, 2}
    GoalPatch <- MCGoalPatch
    LimitPatch <- MCLimitPatch
    GoalId = {g1}
    LimitId = {l1, l2}
    Nobody = Nobody
    MaxRequests = 4
SYMMETRY ProcSymmetry
CHECK_DEADLOCK FALSE
INVARIANTS AmountsFit
PROPERTIES UpdatesApply
