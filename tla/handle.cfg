SPECIFICATION Spec
CONSTANTS
    Programs = {p1, p2}
    NoProgram = NoProgram
    Configs <- MCConfigs
    Messages <- MCMessages
    RequestSize = 24
    MaxReadWrite = 65536
INVARIANTS  ClosedHoldsNothing MessagesAreTransparent
