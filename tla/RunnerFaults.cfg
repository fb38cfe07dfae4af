SPECIFICATION Spec
CONSTANTS
    Jobs = {j1}
    Bases = {b1, b2}
    FirstBase = b1
    Encrypts = TRUE
    MaxDeployments = 4
    Callers = {c1}
    Disturbances = {"base", "edit", "redeploy"}
    MaxDisturbances = 1
    MaxFaults = 1
INVARIANTS TypeOK BoundDeploymentOwned CleanMeansOver TruthfulReport CleanupIdentityKept
PROPERTY TouchesOnlyOwn
