SPECIFICATION Spec
CONSTANTS
    NumClasses = 2
    NumDevices = 2
    ClassOf <- MCClassOf
    Hwid <- MCHwid
    DefaultClasses <- MCDefaultClasses
    ForeignUppers <- MCForeignUppers
    ForeignFilters <- MCForeignFilters
    Commands <- MCCommands
    MaxEntries = 2
    Env = {"WriteFails", "ServiceFails", "StateFails", "InfFails", "Replug"}
INVARIANTS
    ForeignFiltersSurvive
    FilterHasService
    LoadedMatchesRegistry
    InstallRepairs
