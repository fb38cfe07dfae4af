SPECIFICATION Spec
CONSTANTS
    VolNames = {"data", "logs"}
    Configs <- MCMoreDisks
    Sizes = {1, 2}
    MaxDroplet = 2
    MaxVolume = 2
    MaxOps = 2
    MaxFaults = 0
INVARIANT ExpectedDisks
CHECK_DEADLOCK FALSE
