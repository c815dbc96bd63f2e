CONSTANTS
    MaxGeneration = 2
    MaxSerial = 3
    MaxMounts = 2
    Flusher = {f1}
    NoBatch = NoBatch
SPECIFICATION Spec
CHECK_DEADLOCK FALSE
INVARIANTS
    AckedSurvives
PROPERTIES
    ImageNeverRegresses
    RetireLosesNothing
