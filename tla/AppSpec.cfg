SPECIFICATION FairSpec
CONSTANTS
    p1 = p1  p2 = p2  c1 = c1  c2 = c2  k1 = k1  k2 = k2  d1 = d1  d2 = d2
    Jobs = {j1}
    Bases <- AllBases
    FirstBase <- OldBase
    Encrypts = FALSE
    MaxDeployments = 4
    PrevRules = {"latest"}
    Callers = {p1, p2}
    Configs = {c1, c2}
    Counts = {k1, k2}
    Domains = {d1, d2}
    ConfigBase <- TheConfigs
    NoArg = NoArg
    Scenarios <- TheScenarios
    MaxRecords = 2
    MaxChecks = 2
    MaxFaults = 1
INVARIANTS RepairLeavesNoJob DomainsKept HealthyIsNew
PROPERTY NameServed CallsReturn
CHECK_DEADLOCK FALSE
