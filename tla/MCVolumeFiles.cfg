CONSTANTS
    Payload <- MCPayload
    PayloadSectors <- MCPayloadSectors
    NoPayload <- MCNoPayload
    NoImage = NoImage
    SectorCount = 6
    Incarnation = 1
    ImageParts = 2
    Workloads <- FileWorkloads
SPECIFICATION FairVolumeSpec
CHECK_DEADLOCK FALSE
INVARIANTS
    DirtyBitCoversFiles
    CheckpointedFilesSurvive
PROPERTIES
    MutationResolves
