\* One process runs init while the other adds to the store it creates.
CONSTANTS
    p1 = p1
    p2 = p2
    Proc <- Two
    MaxOps = 1
    Initializers <- Two
    Existing = FALSE
    MaxLosses = 0
SPECIFICATION Spec
INVARIANT NoLostUpdate
