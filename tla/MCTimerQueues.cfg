SPECIFICATION FairSpec
CONSTANTS
    c1 = c1
    w1 = w1
    Callers = {c1}
    Workers = {w1}
    NumQueues = 1
    NumTimers = 2
    Capacity = 1
    Dues = {0,1}
    Periods = {1}
    CallerModes = {"sync","async"}
    CallbackModes = {"sync","async"}
    MaxNow = 1
    Forever = 3
    MaxOps = 4
    MaxFaults = 1
CHECK_DEADLOCK FALSE
INVARIANTS
    TicketsAreCounted
    NoHeadOverslept
PROPERTIES
    DeletionsReturn
