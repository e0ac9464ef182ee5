SPECIFICATION Spec
CONSTANTS
    Lengths = {5}
    MaxTransfer = 2
    Env = {}
INVARIANT InOrder
