SPECIFICATION FairSpec
CONSTANTS
    Jobs = {j0}
    Bases = {v1, v2}
    FirstBase = v1
    Encrypts = FALSE
    MaxDeployments = 5
    Strategies = {"rolling", "prevalidated", "canary"}
    PrevRules = {"latest"}
    MaxClones = 2
    MaxCalls <- Calls
    MaxUpdates <- Updates
    MaxForeign <- Others
    MaxFaults = 1
INVARIANTS NeverOldActive PrevalidatedRollout CloneKnown
PROPERTY HealthSettles
