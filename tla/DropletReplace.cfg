SPECIFICATION Spec
CONSTANTS
    VolNames = {"data", "logs"}
    Configs <- MCConfigs
    Sizes = {1, 2}
    MaxDroplet = 3
    MaxVolume = 3
    MaxOps = 3
    MaxFaults = 1
INVARIANTS VolumesCarriedOver AliveAccounted
PROPERTIES DeleteAfterDetach OperationsEnd
CHECK_DEADLOCK FALSE
