SPECIFICATION Spec
CONSTANTS
    Jobs = {j1}
    Bases = {b1}
    FirstBase = b1
    Encrypts = TRUE
    MaxDeployments = 4
    Callers = {c1, c2}
    Disturbances = {}
    MaxDisturbances = 0
    MaxFaults = 1
INVARIANT CleanMeansOver
SYMMETRY CallerSymmetry
