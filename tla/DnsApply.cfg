SPECIFICATION Spec
CONSTANTS
    Procs = {p1, p2}
    Configs <- MCConfigs
    ZoneStart <- MCStart
    Foreign <- MCForeign
    PageSize = 2
    Attempts = 2
    MaxOps = 2
    MaxFaults = 1
    MaxId = 5
INVARIANTS Converged NoPerpetualDiff QuietDiffSawZone
PROPERTIES UnmanagedKept OperationsEnd
CHECK_DEADLOCK FALSE
