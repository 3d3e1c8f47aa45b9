\* One agent and anonymous callers grow, split, finish and prune three tasks.
CONSTANTS
    MaxTasks = 3
    MaxDeps = 2
    a1 = a1
    a2 = a2
    q1 = q1
    c1 = c1
    c2 = c2
    Actor <- OneAgent
    NoActor = NoActor
    Remote = {}
    Capability = {}
    TopPriority = 0
    RequestId = {}
    NoReceipt = NoReceipt
    Failure = {}
    NoFailure = NoFailure
    RetryCap = 0
    Memory = 0
    MaxTime = 2
    TTL = {1}
    MaxLoad = 0
    MaxChildren = 2
    MaxEdits = 1
    Caps <- NoCards
    Limits = {1}
    MaxItems = 1
    Long = {}
SPECIFICATION ViewsSpec
INVARIANTS DoctorFindsNothing ProgressIsHonest SubtasksAreCounted DiagnosisHelps
PROPERTIES UnblockedIsNews WhatIfComesTrue CompletedIsFinal
