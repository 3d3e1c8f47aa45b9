\* A failing done batch over two tasks, one lease expiring in the meantime.
CONSTANTS
    MaxTasks = 2
    MaxDeps = 2
    a1 = a1
    a2 = a2
    Actor <- Agents
    NoActor = NoActor
    Remote = {}
    Capability = {}
    TopPriority = 0
    RequestId = {}
    NoReceipt = NoReceipt
    Failure = {}
    NoFailure = NoFailure
    RetryCap = 0
    Memory = 1
    MaxTime = 2
    TTL = {1}
    MaxLoad = 0
    MaxChildren = 1
    MaxEdits = 1
    q1 = q1
    r1 = r1
SPECIFICATION Spec
PROPERTY FailedBatchCommitsNothing
