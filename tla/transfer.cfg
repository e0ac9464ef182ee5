SPECIFICATION FairSpec
CONSTANTS
    Lengths = {2, 5, 6, 7}
    MaxTransfer = 2
    Env = {}
INVARIANTS FreedOnceAfterUse MainOutlivesStages InOrderIfEven NothingElseIsLost
PROPERTIES CancelEnds
