CONSTANTS
    MinArm = 1
    MaxShot = 2
    MaxDeadline = 3
SPECIFICATION FairSpec
INVARIANTS
    NoLostWake
PROPERTIES
    EveryDeadlineServed
