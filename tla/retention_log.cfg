\* A paging consumer follows a log that compact shortens and restore replaces.
CONSTANTS
    MaxTasks = 1
    MaxEvents = 4
    MaxRestores = 1
    Start = 1
    MaxTime = 3
    Width = 8
    q1 = q1
    c1 = c1
    f1 = f1
    RequestId <- OneRequest
    NoReceipt = NoReceipt
    Consumer <- OneReader
    Limit = {1, 2}
    KeepCount = {0, 1, 2}
    Duration = {1}
    BackupFile <- Files
    NoFile = NoFile
SPECIFICATION Spec
INVARIANTS NothingMissed RetriesFindTheirGrant
CHECK_DEADLOCK FALSE
