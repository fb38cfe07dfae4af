SPECIFICATION TagsSpec
CONSTANTS
    d = d
    v = v
    b = b
    k = k
    Unset = Unset
    Resources = {d, v, b, k}
    Type <- OneOfEach
    Owners = {o1, o2}
    Callers = {c1, c2}
    PageSize = 1
    MaxTagFaults = 1
    MaxCalls = 2
INVARIANTS OwnerApplied OwnerlessExplained ListSound
SYMMETRY Symmetry
CHECK_DEADLOCK FALSE
