\* Two agents and two processes; replies get lost and calls are retried.
CONSTANTS
    p1 = p1
    p2 = p2
    nobody = nobody
    ann = ann
    ben = ben
    anon = anon
    r1 = r1
    none = none
    fine = fine
    MaxTasks = 2
    MaxDeps = 0
    Actor <- TwoAgents
    NoActor = anon
    Remote <- NoRemote
    Capability <- NoCapability
    TopPriority = 0
    RequestId <- OneRequest
    NoReceipt = none
    Failure <- NoFailures
    NoFailure = fine
    RetryCap = 0
    Memory = 0
    Proc <- TwoProcs
    NoProc = nobody
    NoId = none
    Limits <- ZeroOne
    Lease = 1
    Waits <- ZeroOne
    MaxTime = 3
    MaxCalls = 2
SPECIFICATION Spec
SYMMETRY Interchangeable
INVARIANTS OneTaskPerRequest BelievedLeasesAreHeld OwnersAreRegistered
PROPERTIES GrantsRespectThePlan
CHECK_DEADLOCK FALSE
