\* Two agents race for two tasks, which may wait for a linked one, through claims, heartbeats, batches and expiry.
CONSTANTS
    MaxTasks = 2
    MaxDeps = 2
    a1 = a1
    a2 = a2
    Actor <- Agents
    NoActor = NoActor
    Remote <- LinkedTasks
    Capability = {}
    TopPriority = 0
    RequestId = {q1}
    NoReceipt = NoReceipt
    Failure = {}
    NoFailure = NoFailure
    RetryCap = 0
    Memory = 1
    MaxTime = 3
    TTL = {0, 2}
    MaxLoad = 0
    MaxChildren = 1
    MaxEdits = 1
    q1 = q1
    r1 = r1
SPECIFICATION Spec
SYMMETRY AgentSymmetry
INVARIANTS LeaseShape FeedTellsStatus
PROPERTIES HoldersKeepLeases NoRevival WorkStartsReady
