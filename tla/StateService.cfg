SPECIFICATION FairSpec
CONSTANTS
    r1 = r1
    r2 = r2
    k1 = k1
    k2 = k2
    Hosts = {h1, h2}
    Resources = {r1, r2}
    Keys = {k1, k2}
    SanitizeID <- DistinctKeys
    StateKey <- StateObjects
    LockKey <- LockObjects
    PageSize = 2
    Problems = {"crash", "error", "lost_lock", "lost_unlock", "force", "unreadable"}
    MaxProblems = 2
    MaxVersion = 2
INVARIANTS TypeOK MutualExclusion ListComplete
PROPERTIES NoLostUpdate LocksAreReleased
CHECK_DEADLOCK FALSE
