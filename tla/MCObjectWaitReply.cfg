CONSTANTS
    t1 = t1
    t2 = t2
    None = None
    Threads = {t1, t2}
    MaxSlots = 2
    MaxRefs = 2
    MaxDepth = 2
SPECIFICATION Spec
SYMMETRY Symmetry
CHECK_DEADLOCK FALSE
INVARIANTS
    ReceiptMatches
    NoForgottenRow
    TargetOutlivesEffect
    BudgetSuffices
