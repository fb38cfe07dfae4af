SPECIFICATION FairSpec
CONSTANTS
    n1 = n1
    n2 = n2
    None = None
    Legacy = Legacy
    Names = {n1, n2}
    Ids = {i1, i2, i3}
    OldNames = {n1, n2}
    Accounts <- EachBesideVPC
    TwinKinds = {"spaces_key"}
    MaxFaults = 1
    MaxOutside = 2
PROPERTIES LedgerKept GhostsForgotten CreatesConverge
