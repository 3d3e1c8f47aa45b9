\* A skilled and an unskilled agent with a load limit look for ranked work.
CONSTANTS
    MaxTasks = 2
    MaxDeps = 1
    a1 = a1
    a2 = a2
    q1 = q1
    c1 = c1
    c2 = c2
    Actor <- Agents
    NoActor = NoActor
    Remote = {}
    Capability <- TwoSkills
    TopPriority = 1
    RequestId <- OneRequest
    NoReceipt = NoReceipt
    Failure = {}
    NoFailure = NoFailure
    RetryCap = 0
    Memory = 0
    MaxTime = 2
    TTL = {1}
    MaxLoad = 1
    MaxChildren = 0
    MaxEdits = 0
    Caps <- FirstIsSkilled
    Limits = {1, 2}
    MaxItems = 1
    Long <- LongSkill
SPECIFICATION ViewsSpec
INVARIANTS ViewsForecastCalls ReceiptsBacked DiagnosisHelps
PROPERTY AcquireTakesBest
