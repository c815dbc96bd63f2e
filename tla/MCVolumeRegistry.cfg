CONSTANTS
    Payload <- MCPayload
    PayloadSectors <- MCPayloadSectors
    NoPayload <- MCNoPayload
    NoImage = NoImage
    SectorCount = 6
    Incarnation = 1
    ImageParts = 2
    Workloads <- RegistryWorkloads
SPECIFICATION VolumeSpec
CHECK_DEADLOCK FALSE
INVARIANTS
    ServedRegistryIsReported
    FreeReserveHasItsToken
    EraseAfterBothSlotsFolded
    BootRefusesOnlyKnownWindows
PROPERTIES
    ImplementsContract
