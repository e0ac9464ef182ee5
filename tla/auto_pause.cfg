SPECIFICATION FairSpec
CONSTANTS
    Env = {"Pause"}
    StepCount = 3
    Steps = 2
    Delay = 1
    NoShooting = FALSE
    ManualShooting = FALSE
    Compression = {"jpeg", "nef"}
    MaxPending = 3
    StartPositions <- MCStartPositions
INVARIANTS
    DownloadedIsSaved
    CompletedIsComplete
PROPERTIES
    ShootIsFocusStack
    ShootCompletes
    PauseTakesEffect
