SPECIFICATION Spec
\* With a dead or deaf controller the user interface hangs for ever.
CHECK_DEADLOCK FALSE
CONSTANTS
    Env = {"Pause", "Restart", "TicError", "UsbError"}
    StepCount = 3
    Steps = 1
    Delay = 0
    NoShooting = TRUE
    ManualShooting = TRUE
    Compression = {"jpeg"}
    MaxPending = 2
    StartPositions <- MCStartPositions
INVARIANTS
    TickNotReentered
