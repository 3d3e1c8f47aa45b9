\* Two processes update, query and init an existing store, with kills and a power loss.
CONSTANTS
    p1 = p1
    p2 = p2
    Proc <- Two
    MaxOps = 2
    Initializers <- Two
    Existing = TRUE
    MaxLosses = 1
SPECIFICATION FairSpec
INVARIANTS NeverTorn NoLostUpdate AckedIsDurable
PROPERTIES LockIsReleased ImplementsAtomicStore
