SPECIFICATION FairSpec
CONSTANTS
    Callers = {c1, c2}
    NumSlots = 2
    Kinds <- MixedKinds
    CounterMax = 1
    MaxExitTries = 2
    MaxCalls = 2
    MaxIo = 1
    MaxFaults = 1
    MaxErrors = 1
    c1 = c1
    c2 = c2
CHECK_DEADLOCK FALSE
INVARIANTS
    CountersAreExact
    StartParameterAlive
PROPERTIES
    AcceptedWorkRuns
