SPECIFICATION FairSpec
CONSTANTS
    Tests <- MCTests
    Chunks = 2
    Env = {}
INVARIANTS FreedIsIdle RingInOrder CancelledForReason
PROPERTIES TestEnds
CHECK_DEADLOCK FALSE
