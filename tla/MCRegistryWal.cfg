CONSTANTS
    short = short
    long = long
    NoPayload = NoPayload
    Payload <- MCPayload
    PayloadSectors <- MCPayloadSectors
    SectorCount = 14
    Incarnation = 1
SPECIFICATION WalSpec
INVARIANTS
    SettledFramesIntact
    ContinuationMatchesScan
    RefusedOnlyForLostHeader
PROPERTIES
    RecoveryIsExact
