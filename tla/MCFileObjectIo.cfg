CONSTANTS
    t1 = t1
    t2 = t2
    t3 = t3
    Thread = {t1, t2, t3}
    NoThread = NoThread
    Cleanup = Cleanup
    NoRow = NoRow
    MaxHandles = 2
    MaxDue = 2
    MaxAsync = 2
    Failures = TRUE
SPECIFICATION Spec
SYMMETRY ThreadSymmetry
CHECK_DEADLOCK FALSE
INVARIANTS
    ReferencesAccounted
    BusyAccounted
    CleanupExcludesIo
    WakeOutstanding
PROPERTIES
    PromotionInOrder
