\* Two processes edit the registry and the configuration.
CONSTANTS
    p1 = p1
    p2 = p2
    nobody = nobody
    a1 = a1
    l1 = l1
    here = here
    unlinked = unlinked
    go = go
    ttl = ttl
    Proc <- Two
    NoProc = nobody
    Agent <- OneAgent
    Alias <- OneAlias
    Path <- OnePath
    NoPath = unlinked
    Capability <- OneCapability
    Key <- OneKey
    Limit <- OnOff
    MaxStamp = 2
    MaxEdits = 2
SPECIFICATION FairSpec
PROPERTIES EditsAreAtomic FieldsHaveAuthors LocksAreReleased
CHECK_DEADLOCK FALSE
