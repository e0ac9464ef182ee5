SPECIFICATION Spec
CONSTANTS
    Threads = {t1, t2}
    Files = {f1, f2}
    NoFile = NoFile
    Configs <- MCConfigs
    NumInterfaces = 2
    NumEndpoints = 2
    MaxSelects = 3
    Env = {}
INVARIANTS PipesReachDevice CacheIsCoherent ClaimsAreOfOpenFiles
