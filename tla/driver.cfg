SPECIFICATION FairSpec
CONSTANTS
    Irps = {r1, r2, r3}
    NoIrp = NoIrp
    Devices <- MCDevices
    Env = {"ConfigFails", "Reconfigures", "PowerFails", "LateIoctl", "RemoveStopped"}
INVARIANTS
    RemoveWaitsBarLate
    PowerReported
    StartedIsConfigured
PROPERTIES
    RemoveCompletes
    CreateReturns
