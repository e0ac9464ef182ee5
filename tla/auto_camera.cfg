SPECIFICATION Spec
CONSTANTS
    Env = {"Pause", "CaptureError", "SaveError", "LogError", "LateImages", "Unplug"}
    StepCount = 2
    Steps = 2
    Delay = 1
    NoShooting = FALSE
    ManualShooting = FALSE
    Compression = {"jpeg", "nef"}
    MaxPending = 2
    StartPositions <- MCStartPositions
INVARIANTS
    TypeOK
    PhotosInOrder
    PhotosAtPosition
    PhotosSettled
    TravelBounded
PROPERTIES
    PauseHolds
