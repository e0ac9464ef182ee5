SPECIFICATION Spec
CONSTANTS
    NumSlots = 2
    Products <- MCProducts
    Env = {"Stalls"}
INVARIANTS ConfigsAreOfDevice ListIsCurrent
