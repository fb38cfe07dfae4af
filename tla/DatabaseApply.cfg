SPECIFICATION Spec
CONSTANTS
    AppNames = {"app"}
    Configs <- MCConfigs
    MaxEpoch = 2
    MaxUid = 2
    Restarts = TRUE
    MaxOps = 4
    MaxFaults = 1
INVARIANTS DeferredNotForgotten StalePasswordRotatesAgain
PROPERTY EpochMeansReset
CHECK_DEADLOCK FALSE
