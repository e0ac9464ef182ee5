SPECIFICATION FairSpec
CONSTANTS
    Env = {"Pause", "Stop", "UsbError"}
    StepCount = 3
    Steps = 2
    Delay = 1
    NoShooting = TRUE
    ManualShooting = FALSE
    Compression = {"jpeg"}
    MaxPending = 3
    StartPositions <- MCStartPositions
PROPERTIES
    PausePauses
    Responsive
