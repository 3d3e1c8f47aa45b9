----------------------------- MODULE TaskStore -----------------------------
(***************************************************************************)
(* The value kept in .terminal-todo/tasks.bin and the mutators that are    *)
(* run on it.  Nothing here is a state machine: every operator takes a     *)
(* store and returns a store, or an Outcome (the store the Go callback     *)
(* left in memory and whether it returned nil), and Committed says which   *)
(* of the two values store.Update writes back.                             *)
(*                                                                         *)
(* Titles, tags, logs, lineage, the extra map and time stamps other than   *)
(* the lease are abstracted; the event list is abstracted to the last      *)
(* Memory lifecycle events of each task.                                   *)
(*                                                                         *)
(* An operator named Faulty... is a wrong variant of the operator after    *)
(* it.  No specification uses one: they are there to test that the         *)
(* properties notice such a mistake.                                       *)
(***************************************************************************)
EXTENDS Integers, FiniteSets, Sequences

CONSTANTS
    MaxTasks,   \* bound: task IDs are 1..MaxTasks
    MaxDeps,    \* maxTaskDependencies (input_limits.go)
    Actor,      \* agents that name themselves with --as
    NoActor,    \* the empty actor string
    Remote,     \* tasks of linked repositories a task may depend on
    Capability, \* capability names
    TopPriority, \* priorities are 0..TopPriority, the steps of 0.0 to 1.0
    RequestId,  \* idempotency keys of acquire
    NoReceipt,  \* no receipt under a key
    Failure,    \* messages of release --error
    NoFailure,  \* the empty error message
    RetryCap,   \* bound: RetryCount is counted up to RetryCap
    Memory      \* bound: lifecycle events remembered per task

ASSUME CountsAssumption ==
    /\ MaxTasks \in Nat /\ MaxDeps \in Nat /\ TopPriority \in Nat
    /\ RetryCap \in Nat /\ Memory \in Nat
ASSUME NamesAssumption ==
    /\ Remote \cap Nat = {}
    /\ NoActor \notin Actor
    /\ NoFailure \notin Failure
    /\ NoReceipt \notin [req : [actor : Actor, ttl : Nat, caps : SUBSET Capability],
                         id : Nat, lease : Nat, created : Nat]

TaskId == 1..MaxTasks

\* validPriority
Priority == 0..TopPriority

\* "absent" stands for an ID that is not a key of the Tasks map.
Status == {"absent", "pending", "in_progress", "completed", "blocked"}

Task ==
    [status  : Status,
     owner   : Actor \cup {NoActor},
     lease   : Nat,
     deps    : SUBSET (TaskId \cup Remote),
     caps    : SUBSET Capability,
     prio    : Priority,
     retries : 0..RetryCap,
     error   : Failure \cup {NoFailure}]

NoTask ==
    [status |-> "absent", owner |-> NoActor, lease |-> 0, deps |-> {},
     caps |-> {}, prio |-> 0, retries |-> 0, error |-> NoFailure]

\* The events that change what a watcher believes of a task's status.
EventType ==
    {"task_created", "task_claimed", "task_released", "task_completed",
     "task_blocked", "task_unblocked", "task_decomposed", "task_removed",
     "lease_expired"}

Request == [actor : Actor, ttl : Nat, caps : SUBSET Capability]
Receipt == [req : Request, id : TaskId, lease : Nat, created : Nat]

Store ==
    [task    : [TaskId -> Task],
     nextID  : 1..(MaxTasks + 1),
     receipt : [RequestId -> Receipt \cup {NoReceipt}],
     feed    : [TaskId -> Seq(EventType)]]

NewTaskStore ==
    [task    |-> [id \in TaskId |-> NoTask],
     nextID  |-> 1,
     receipt |-> [r \in RequestId |-> NoReceipt],
     feed    |-> [id \in TaskId |-> << >>]]

-----------------------------------------------------------------------------
(* Reading a store.                                                        *)

Present(s) == {id \in TaskId : s.task[id].status # "absent"}

Owned(s, a) ==
    {id \in TaskId : s.task[id].status = "in_progress" /\ s.task[id].owner = a}

\* Wrong: one completed prerequisite is enough.
FaultyDependenciesComplete(s, id, resolved) ==
    \/ s.task[id].deps = {}
    \/ \E d \in s.task[id].deps :
           IF d \in TaskId THEN s.task[d].status = "completed" ELSE d \in resolved

\* A local prerequisite must be a completed task of the store; a remote one
\* must be in the set the resolver answers true for.
DependenciesComplete(s, id, resolved) ==
    \A d \in s.task[id].deps :
        IF d \in TaskId THEN s.task[d].status = "completed" ELSE d \in resolved

Edges(s) == [id \in TaskId |-> s.task[id].deps]

\* DetectCycle searches depth-first for a cycle of prerequisites.  On a finite
\* graph there is one exactly when some nonempty set of tasks has a
\* prerequisite of every member inside it.
DetectCycle(edges) ==
    \E S \in SUBSET TaskId : S # {} /\ \A x \in S : edges[x] \cap S # {}

\* Wrong: the owner check is dropped.
FaultyMayTouch(s, id, a) == TRUE

\* requireOwner: unowned work may be touched by anyone.
MayTouch(s, id, a) == s.task[id].owner \in {NoActor, a}

LeaseIsExpired(lease, now) == lease # 0 /\ lease <= now

Expired(s, now) ==
    {id \in TaskId : s.task[id].status = "in_progress"
                     /\ LeaseIsExpired(s.task[id].lease, now)}

\* Wrong: a completed task can be claimed again.
FaultyClaimable(s, id) == s.task[id].status \notin {"absent", "blocked"}

\* requireClaimableStatus, for a task that exists.
Claimable(s, id) == s.task[id].status \in {"pending", "in_progress"}

\* Wrong: the expiry is not looked at.
FaultyLeaseActive(s, id, now) ==
    s.task[id].status = "in_progress" /\ s.task[id].owner # NoActor

\* An active lease in the sense of heartbeat and handoff.
LeaseActive(s, id, now) ==
    /\ s.task[id].status = "in_progress"
    /\ s.task[id].owner # NoActor
    /\ s.task[id].lease > now

-----------------------------------------------------------------------------
(* Writing a store.                                                        *)

\* Wrong: a full log drops the new event instead of the oldest.
FaultyRemember(q, type) == IF Len(q) < Memory THEN Append(q, type) ELSE q

Remember(q, type) ==
    LET r == Append(q, type) IN IF Len(r) > Memory THEN Tail(r) ELSE r

AddEvent(s, id, type) == [s EXCEPT !.feed[id] = Remember(@, type)]

SetTask(s, id, t) == [s EXCEPT !.task[id] = t]

\* Wrong: the expiry is left behind.
FaultyYielded(t, status) == [t EXCEPT !.status = status, !.owner = NoActor]

\* The task with its owner and lease dropped and the given status.
Yielded(t, status) == [t EXCEPT !.status = status, !.owner = NoActor, !.lease = 0]

Leased(t, a, expires) ==
    [t EXCEPT !.status = "in_progress", !.owner = a, !.lease = expires]

\* Wrong: the receipts of a removed task stay.
FaultyWithout(s, R) ==
    [s EXCEPT
        !.task = [id \in TaskId |-> IF id \in R THEN NoTask ELSE s.task[id]]]

\* RemoveTask for every task of R: the record and its receipts go.
Without(s, R) ==
    [s EXCEPT
        !.task = [id \in TaskId |-> IF id \in R THEN NoTask ELSE s.task[id]],
        !.receipt = [r \in RequestId |->
            IF s.receipt[r] # NoReceipt /\ s.receipt[r].id \in R
            THEN NoReceipt ELSE s.receipt[r]]]

CleanExpiredLeases(s, now) ==
    LET E == Expired(s, now) IN
    [s EXCEPT
        !.task = [id \in TaskId |->
            IF id \in E THEN Yielded(s.task[id], "pending") ELSE s.task[id]],
        !.feed = [id \in TaskId |->
            IF id \in E THEN Remember(s.feed[id], "lease_expired") ELSE s.feed[id]]]

\* What a mutate callback did to the in-memory store, and whether it
\* returned nil.
Outcome(ok, s) == [ok |-> ok, store |-> s]

\* A callback that checks everything before it writes.
Guarded(guard, before, after) ==
    Outcome(guard, IF guard THEN after ELSE before)

\* store.Update: a failed callback leaves the file alone unless the reclaim
\* pass before it freed a lease; then the in-memory store is written, with
\* whatever the callback had already done to it.
Committed(s, now, outcome) ==
    IF outcome.ok \/ Expired(s, now) # {} THEN outcome.store ELSE s

-----------------------------------------------------------------------------
(* The coordination operations.                                            *)

\* AddTask puts a pending task under the next ID.
AddTask(s, deps, caps, prio) ==
    [s EXCEPT
        !.task[s.nextID] = [NoTask EXCEPT !.status = "pending", !.deps = deps,
                                          !.caps = caps, !.prio = prio],
        !.nextID = @ + 1]

CreateTask(s, deps, caps, prio) ==
    Guarded(/\ deps \subseteq Present(s) \cup Remote
            /\ ~DetectCycle([Edges(s) EXCEPT ![s.nextID] = deps]),
            s,
            AddEvent(AddTask(s, deps, caps, prio), s.nextID, "task_created"))

ClaimTask(s, id, a, ttl, resolved, now) ==
    Guarded(/\ Claimable(s, id)
            /\ DependenciesComplete(s, id, resolved)
            /\ MayTouch(s, id, a) \/ s.task[id].lease <= now,
            s,
            AddEvent(SetTask(s, id, Leased(s.task[id], a, now + ttl)),
                     id, "task_claimed"))

CompleteTask(s, id, a, resolved) ==
    Guarded(/\ s.task[id].status \notin {"absent", "completed"}
            /\ DependenciesComplete(s, id, resolved)
            /\ MayTouch(s, id, a),
            s,
            AddEvent(SetTask(s, id, Yielded(s.task[id], "completed")),
                     id, "task_completed"))

ReleaseTask(s, id, a, failure) ==
    LET t == s.task[id]
        charged == [t EXCEPT !.retries = IF @ < RetryCap THEN @ + 1 ELSE @,
                             !.error = IF failure # NoFailure THEN failure ELSE @]
    IN  Guarded(t.status = "in_progress" /\ MayTouch(s, id, a),
                s,
                AddEvent(SetTask(s, id, Yielded(charged, "pending")),
                         id, "task_released"))

\* done and release apply their operation to a list of IDs and stop at the
\* first failure, leaving the earlier ones done.  The bound here is two IDs.
CompleteBatch(s, i, j, a, resolved) ==
    LET first == CompleteTask(s, i, a, resolved)
    IN  IF first.ok /\ j # i THEN CompleteTask(first.store, j, a, resolved)
        ELSE first

ReleaseBatch(s, i, j, a, failure) ==
    LET first == ReleaseTask(s, i, a, failure)
    IN  IF first.ok /\ j # i THEN ReleaseTask(first.store, j, a, failure)
        ELSE first

BlockTask(s, id, a) ==
    Guarded(s.task[id].status \notin {"absent", "completed"} /\ MayTouch(s, id, a),
            s,
            AddEvent(SetTask(s, id, Yielded(s.task[id], "blocked")),
                     id, "task_blocked"))

UnblockTask(s, id) ==
    Guarded(s.task[id].status = "blocked",
            s,
            AddEvent(SetTask(s, id, Yielded(s.task[id], "pending")),
                     id, "task_unblocked"))

RenewLease(s, id, a, ttl, now) ==
    Guarded(LeaseActive(s, id, now) /\ s.task[id].owner = a,
            s,
            SetTask(s, id, [s.task[id] EXCEPT !.lease = now + ttl]))

\* fits: the projected extra map respects its cardinality limit.
HandoffTask(s, id, a, fits, now) ==
    Guarded(LeaseActive(s, id, now) /\ s.task[id].owner = a /\ fits,
            s,
            AddEvent(SetTask(s, id, Yielded(s.task[id], "pending")),
                     id, "task_released"))

\* Dependency edits are staged: all of them are applied or none is.
EditDependencies(s, id, add, drop) ==
    LET old == s.task[id].deps
        new == (old \ drop) \cup add
    IN  Guarded(/\ drop \subseteq old
                /\ add \subseteq Present(s) \cup Remote \cup (old \ drop)
                /\ Cardinality(new) <= MaxDeps
                       \/ Cardinality(new) <= Cardinality(old)
                /\ ~DetectCycle([Edges(s) EXCEPT ![id] = new]),
                s,
                SetTask(s, id, [s.task[id] EXCEPT !.deps = new]))

\* updateTask edits the dependencies, priority and capabilities in the store
\* before it checks the size of the projected extra map (fits); that check
\* can still fail.
UpdateTask(s, id, a, add, drop, caps, prio, fits) ==
    LET edited == IF add \cup drop = {} THEN Outcome(TRUE, s)
                  ELSE EditDependencies(s, id, add, drop)
        t == edited.store.task[id]
    IN  IF s.task[id].status = "absent" \/ ~MayTouch(s, id, a) \/ ~edited.ok
        THEN Outcome(FALSE, s)
        ELSE Outcome(fits, SetTask(edited.store, id,
                                   [t EXCEPT !.caps = caps, !.prio = prio]))

\* n fresh children under the IDs nextID, nextID + 1, ...; the parent depends
\* on them, returns to pending and yields its lease.  No event announces the
\* children themselves.
DecomposeTask(s, id, a, n, caps) ==
    LET children == s.nextID .. (s.nextID + n - 1)
        t == s.task[id]
        new == t.deps \cup children
        child == [NoTask EXCEPT !.status = "pending", !.caps = caps]
    IN  Guarded(/\ t.status \notin {"absent", "completed"}
                /\ MayTouch(s, id, a)
                /\ Cardinality(new) <= MaxDeps
                /\ ~DetectCycle([Edges(s) EXCEPT ![id] = new]),
                s,
                AddEvent([s EXCEPT
                    !.task = [x \in TaskId |->
                        IF x \in children THEN child
                        ELSE IF x = id THEN [Yielded(t, "pending") EXCEPT !.deps = new]
                        ELSE s.task[x]],
                    !.nextID = @ + n],
                    id, "task_decomposed"))

\* cmdRm: refuses leased tasks and tasks a surviving task depends on; every
\* check comes before the first removal.
RemoveTasks(s, R) ==
    LET announced == [s EXCEPT !.feed = [id \in TaskId |->
                         IF id \in R THEN Remember(s.feed[id], "task_removed")
                         ELSE s.feed[id]]]
    IN  Guarded(/\ R \subseteq Present(s)
                /\ \A id \in R : ~(s.task[id].status = "in_progress"
                                   /\ s.task[id].owner # NoActor)
                /\ \A id \in TaskId \ R : s.task[id].deps \cap R = {},
                s,
                Without(announced, R))

\* Wrong: the edges to pruned tasks stay.
FaultyCutEdges(s, R) == s

\* pruneCompletedTasks: completed tasks go and surviving tasks lose their
\* local edges to them.
CutEdges(s, R) ==
    [s EXCEPT !.task = [id \in TaskId |-> [s.task[id] EXCEPT !.deps = @ \ R]]]

PruneCompletedTasks(s) ==
    LET done == {id \in TaskId : s.task[id].status = "completed"}
    IN  Outcome(TRUE, Without(CutEdges(s, done), done))

-----------------------------------------------------------------------------
(* Allocation.                                                             *)

\* The ready tasks whose required capabilities the request provides.
ReadyTasks(s, caps, resolved) ==
    {id \in TaskId : /\ s.task[id].status = "pending"
                     /\ DependenciesComplete(s, id, resolved)
                     /\ s.task[id].caps \subseteq caps}

\* Wrong: by ID alone.
FaultyRankedBefore(s, x, y) == x < y

\* Priority descending, then ID ascending.
RankedBefore(s, x, y) ==
    \/ s.task[x].prio > s.task[y].prio
    \/ s.task[x].prio = s.task[y].prio /\ x < y

AtCapacity(s, a, maxLoad) ==
    maxLoad > 0 /\ Cardinality(Owned(s, a)) >= maxLoad

\* Whether acquire answers from the receipt under rid.
Answered(s, rid) == s.receipt[rid] # NoReceipt

\* acquireFromStore: a known request ID is replayed or refused without a
\* change; otherwise the first ranked task is leased and the receipt stored.
AcquireTask(s, rid, req, maxLoad, resolved, now) ==
    LET ready == ReadyTasks(s, req.caps, resolved)
        first == CHOOSE id \in ready : \A j \in ready \ {id} : RankedBefore(s, id, j)
        granted == AddEvent(SetTask(s, first, Leased(s.task[first], req.actor,
                                                     now + req.ttl)),
                            first, "task_claimed")
    IN  IF Answered(s, rid) THEN Outcome(s.receipt[rid].req = req, s)
        ELSE IF AtCapacity(s, req.actor, maxLoad) \/ ready = {} THEN Outcome(FALSE, s)
        ELSE Outcome(TRUE, [granted EXCEPT !.receipt[rid] =
                 [req |-> req, id |-> first, lease |-> now + req.ttl, created |-> now]])
=============================================================================
