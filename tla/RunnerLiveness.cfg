SPECIFICATION FairSpec
CONSTANTS
    Jobs = {j1}
    Bases = {b1}
    FirstBase = b1
    Encrypts = TRUE
    MaxDeployments = 4
    Callers = {c1}
    Disturbances = {"crash", "drop"}
    MaxDisturbances = 1
    MaxFaults = 1
PROPERTY BoundJobsEnd
CHECK_DEADLOCK FALSE
