------------------------------- MODULE Views -------------------------------
(***************************************************************************)
(* What the read-only commands and handlers say about a store: next, the   *)
(* diagnosis of a failed acquire, what-if, the unblocked list of done,     *)
(* bootstrap, lineage, the dependency views, caps and doctor.  A view is   *)
(* an operator on a store; the module lets the store change by the calls   *)
(* of Board and compares what a view says with what the calls then do.     *)
(*                                                                         *)
(* Board abstracts lineage, the reference of a subtask to the task it was  *)
(* split from; it is a variable here.                                      *)
(* Lists that are cut to a limit are sets here: the first of a ranking, or *)
(* any so many of them where the code orders them as text.                 *)
(***************************************************************************)
EXTENDS Board, FiniteSetsExt

CONSTANTS
    Caps,     \* the capabilities on the card of each agent
    Limits,   \* the limit or item counts asked of bootstrap
    MaxItems, \* maxAllocationDiagnosticItems, 20 in the code
    Long      \* the values too long for a diagnosis to spell out

ASSUME ViewsAssumption ==
    /\ Caps \in [Actor -> SUBSET Capability]
    /\ Limits \subseteq Nat \ {0}
    /\ MaxItems \in Nat \ {0}
    /\ Long \subseteq Capability \cup Remote

-----------------------------------------------------------------------------
(* The dependency views.                                                   *)

\* The prerequisites a task waits for.
WaitsFor(s, id, resolved) ==
    {d \in s.task[id].deps :
        IF d \in TaskId THEN s.task[d].status # "completed" ELSE d \notin resolved}

\* GetBlockedTasksWithResolver
BlockedTasks(s, resolved) ==
    {id \in Present(s) : /\ s.task[id].status # "completed"
                         /\ WaitsFor(s, id, resolved) # {}}

\* GetReadyTasksWithResolver: ready for a worker with every capability.
Ready(s, resolved) == ReadyTasks(s, Capability, resolved)

\* Wrong: a finished dependent is left out.
FaultyDependents(s, id) ==
    {x \in Present(s) : s.task[x].status # "completed" /\ id \in s.task[x].deps}

Dependents(s, id) == {x \in Present(s) : id \in s.task[x].deps}

Depends(s, id) == [d \in s.task[id].deps |-> d \in Present(s)]

Graph(s) == {edge \in TaskId \X Present(s) : edge[1] \in s.task[edge[2]].deps}

My(s, a) == {id \in Present(s) : s.task[id].owner = a}

\* The first n tasks of S as rankedReadyTasks and sortBootstrapTasks order them.
First(s, S, n) == {x \in S : Cardinality({y \in S : RankedBefore(s, y, x)}) < n}

-----------------------------------------------------------------------------
(* diagnoseAllocation and next.                                            *)

WithStatus(s, status) == {id \in TaskId : s.task[id].status = status}

\* For next, which names no actor, every lease belongs to others.
OwnedByOthers(s, a) == WithStatus(s, "in_progress") \ Owned(s, a)

DependencyBlockers(s, resolved) ==
    UNION {WaitsFor(s, id, resolved) : id \in WithStatus(s, "pending")}

\* Wrong: the capabilities that the worker has.
FaultyMissingCapabilities(s, caps, resolved) ==
    UNION {s.task[id].caps \cap caps : id \in Ready(s, resolved)}

MissingCapabilities(s, caps, resolved) ==
    UNION {s.task[id].caps \ caps : id \in Ready(s, resolved)}

Reason(s, a, caps, limit, resolved) ==
    LET pending == WithStatus(s, "pending") # {}
        others  == OwnedByOthers(s, a) # {}
    IN  IF a # NoActor /\ AtCapacity(s, a, limit) THEN "worker_at_capacity"
        ELSE IF ReadyTasks(s, caps, resolved) # {} THEN "ready"
        ELSE IF pending /\ Ready(s, resolved) = {} THEN "dependencies_incomplete"
        ELSE IF pending THEN "capabilities_unavailable"
        ELSE IF others THEN IF a = NoActor THEN "work_in_progress"
                            ELSE "work_owned_by_others"
        ELSE "no_pending_work"

\* Wrong: a list that is cut does not say so.
FaultyBounded(S) ==
    {[items     |-> T \ Long,
      total     |-> Cardinality(S),
      truncated |-> T \cap Long # {}] :
        T \in {U \in SUBSET S : Cardinality(U) = Min({Cardinality(S), MaxItems})}}

\* boundedAllocationDiagnosticValues: at most MaxItems values of S are listed,
\* and the long ones among them are of no use to the reader.
Bounded(S) ==
    LET over == Cardinality(S) > MaxItems
        kept == IF over THEN {T \in SUBSET S : Cardinality(T) = MaxItems} ELSE {S}
    IN  {[items     |-> T \ Long,
          total     |-> Cardinality(S),
          truncated |-> over \/ T \cap Long # {}] : T \in kept}

\* diagnoseAllocation: the answers there may be.
Diagnoses(s, a, caps, limit, resolved) ==
    [reason   : {Reason(s, a, caps, limit, resolved)},
     blockers : Bounded(DependencyBlockers(s, resolved)),
     missing  : Bounded(MissingCapabilities(s, caps, resolved))]

\* newBlockedSummaryWithResolver
BlockedSummary(s, resolved) ==
    [count   |-> Cardinality(BlockedTasks(s, resolved) \cup WithStatus(s, "blocked")),
     primary |-> UNION {WaitsFor(s, id, resolved) : id \in BlockedTasks(s, resolved)}]

NextWork(s, caps, resolved) ==
    [available  |-> ReadyTasks(s, caps, resolved),
     blocked    |-> BlockedSummary(s, resolved),
     allocation |-> Diagnoses(s, NoActor, caps, 0, resolved)]

-----------------------------------------------------------------------------
(* what-if and the unblocked list of done.                                 *)

\* what-if --done: a copy of the store with one status changed.
Simulated(s, id) == [s EXCEPT !.task[id].status = "completed"]

\* Wrong: whatever is ready afterwards.
FaultyWouldUnblock(s, id, resolved) == Ready(Simulated(s, id), resolved)

WouldUnblock(s, id, resolved) ==
    Ready(Simulated(s, id), resolved) \cap BlockedTasks(s, resolved)

WhatIf(s, id, resolved) ==
    [unblocked    |-> WouldUnblock(s, id, resolved),
     stillBlocked |-> Cardinality(BlockedTasks(Simulated(s, id), resolved)),
     dependents   |-> Cardinality(Dependents(s, id))]

\* Wrong: a task that was already ready is reported.
FaultyNewlyReadyAfter(s, completed, resolved) == Ready(s, resolved)

NewlyReadyAfter(s, completed, resolved) ==
    {id \in Ready(s, resolved) : s.task[id].deps \cap completed # {}}

-----------------------------------------------------------------------------
(* lineage and bootstrap.                                                  *)

\* Everything reached from root along `next`, with root.
Reached(root, next) ==
    LET f[n \in 0..MaxTasks] ==
            IF n = 0 THEN {root} ELSE f[n - 1] \cup UNION {next[x] : x \in f[n - 1]}
    IN  f[MaxTasks]

\* lineageDescendants: the subtasks of root that are still there, theirs, ...
Descendants(s, parent, root) ==
    Reached(root, [t \in TaskId |-> {x \in Present(s) : parent[x] = t}]) \ {root}

\* The task and its local dependency closure.
Scope(s, id) ==
    Reached(id, [t \in TaskId |-> s.task[t].deps \cap Present(s)])

Progress(s, S) ==
    LET count(status) == Cardinality(S \cap WithStatus(s, status))
    IN  [total   |-> Cardinality(S),
         counts  |-> [status \in Status \ {"absent"} |-> count(status)],
         percent |-> IF S = {} THEN 0 ELSE (count("completed") * 100) \div Cardinality(S)]

\* The most prerequisites first, then as work is ranked.
Strongest(s, x, y) ==
    LET dx == Cardinality(s.task[x].deps)
        dy == Cardinality(s.task[y].deps)
    IN  dx > dy \/ (dx = dy /\ RankedBefore(s, x, y))

\* Wrong: a finished task can be the objective of unfinished work.
FaultyTopLevel(s, parent) == {id \in Present(s) : parent[id] = 0}

TopLevel(s, parent) ==
    {id \in Present(s) : s.task[id].status # "completed" /\ parent[id] = 0}

\* selectBootstrapObjective without an explicit objective.  Which of the
\* finished tasks was finished last is not modelled: {} or any of them.
Objectives(s, parent) ==
    LET top == TopLevel(s, parent)
    IN  IF top # {} THEN {id \in top : \A x \in top \ {id} : Strongest(s, id, x)}
        ELSE WithStatus(s, "completed")

\* bootstrapObjectiveProgress; 0 is no objective.
ObjectiveProgress(s, id) ==
    Progress(s, IF id = 0 THEN Present(s) ELSE Scope(s, id))

\* buildBootstrapCapabilityDemand and caps without --as.
Unclaimed(s) ==
    {id \in Present(s) : s.task[id].status # "completed" /\ s.task[id].owner = NoActor}

CapabilityDemand(s) ==
    [unclaimed   |-> Cardinality(Unclaimed(s)),
     withoutCaps |-> Cardinality({id \in Unclaimed(s) : s.task[id].caps = {}}),
     counts      |-> [c \in UNION {s.task[id].caps : id \in Unclaimed(s)} |->
                         Cardinality({id \in Unclaimed(s) : c \in s.task[id].caps})],
     unmatched   |-> UNION {s.task[id].caps : id \in Unclaimed(s)}
                         \ UNION {Caps[a] : a \in Actor}]

\* computeAgentLoad
CurrentLoad(s, a) ==
    Cardinality({id \in My(s, a) : s.task[id].status = "in_progress"})

\* buildBootstrap for an agent that gives no capabilities of its own.
Brief(s, parent, a, n, resolved) ==
    LET ready == ReadyTasks(s, Caps[a], resolved)
    IN  [load       |-> CurrentLoad(s, a),
         atCapacity |-> MaxLoad > 0 /\ CurrentLoad(s, a) >= MaxLoad,
         objectives |-> Objectives(s, parent),
         owned      |-> [total |-> Cardinality(My(s, a)), items |-> First(s, My(s, a), n)],
         ready      |-> [total |-> Cardinality(ready), items |-> First(s, ready, n)],
         explicit   |-> First(s, WithStatus(s, "blocked"), n),
         blocked    |-> BlockedSummary(s, resolved).primary,
         demand     |-> CapabilityDemand(s)]

-----------------------------------------------------------------------------
(* caps over JSON-RPC, doctor.                                             *)

\* caps --as a: the work that is not the agent's own.
CapsOf(s, a) ==
    {id \in Present(s) : /\ s.task[id].status # "completed"
                         /\ IF a = NoActor THEN s.task[id].owner = NoActor
                            ELSE s.task[id].owner # a}

\* todo.caps with actor: the work that is the agent's own.
HandleCaps(s, a) ==
    {id \in Present(s) : /\ s.task[id].status # "completed"
                         /\ a = NoActor \/ s.task[id].owner = a}

\* storeInvariantProblems
BadLease(s, id) ==
    IF s.task[id].status = "in_progress"
    THEN s.task[id].owner = NoActor \/ s.task[id].lease = 0
    ELSE s.task[id].owner # NoActor \/ s.task[id].lease # 0

Problems(s) ==
    LET of(kind, S) == {<<kind, id>> : id \in S}
    IN  of("lease", {id \in Present(s) : BadLease(s, id)})
        \cup of("missing", {id \in Present(s) :
                 ~(s.task[id].deps \cap TaskId \subseteq Present(s))})
        \cup of("next_id", {id \in Present(s) : s.nextID <= id})
        \cup (IF DetectCycle(Edges(s)) THEN of("cycle", {0}) ELSE {})

\* orphaned_deps of todo.doctor
OrphanedDeps(s) == {edge \in Graph(s) : edge[1] \notin Present(s)}

-----------------------------------------------------------------------------
VARIABLES
    lineage,  \* the task each task was split from, 0 for none
    cut       \* history: whether an update has dropped an edge

views == <<vars, lineage, cut>>

ViewsTypeOK == TypeOK /\ lineage \in [TaskId -> 0..MaxTasks] /\ cut \in BOOLEAN

ViewsInit == Init /\ lineage = [id \in TaskId |-> 0] /\ cut = FALSE

-----------------------------------------------------------------------------
(* Steps.                                                                  *)

\* Wrong: the ID of the first subtask is taken for that of the parent.
FaultyChildOf(id) == store.nextID

ChildOf(id) == id

\* Lineage goes with the record of its task.
Kept == [x \in TaskId |-> IF x \in Present(store') THEN lineage[x] ELSE 0]

Split(a) ==
    \E id \in TaskId, n \in 1..MaxChildren, caps \in SUBSET Capability :
        /\ Decompose(a, id, n, caps)
        /\ lineage' = [x \in TaskId |->
               IF x \in Present(store') \ Present(store) THEN ChildOf(id) ELSE lineage[x]]
        /\ UNCHANGED cut

Edit(a) ==
    \E id \in TaskId, add, drop \in Edits, caps \in SUBSET Capability,
       prio \in Priority, fits \in BOOLEAN :
        /\ Update(a, id, add, drop, caps, prio, fits)
        /\ lineage' = Kept
        /\ cut' = (cut \/ drop # {})

OtherCall ==
    /\ \/ \E a \in Actor : LeaseCall(a) \/ AcquireCall(a)
       \/ \E a \in Caller : StatusCall(a)
       \/ OpenCall
       \/ Tick
    /\ lineage' = Kept
    /\ UNCHANGED cut

ViewsNext == (\E a \in Caller : Split(a) \/ Edit(a)) \/ OtherCall

ViewsSpec == ViewsInit /\ [][ViewsNext]_views
-----------------------------------------------------------------------------
(* What a view says and what a call does.  Views are taken of the store    *)
(* the reclaim pass leaves, as loadStore does, and `resolved` is what the   *)
(* resolver answers.                                                       *)

\* Whether acquire under a fresh request ID gets a task, and which.  The other
\* receipts make no difference to it.
Fresh(s) == [s EXCEPT !.receipt = [fresh |-> NoReceipt]]

Try(s, a, caps, limit, resolved) ==
    AcquireTask(Fresh(s), "fresh", [actor |-> a, ttl |-> 1, caps |-> caps], limit, resolved, now)

Grants(s, a, caps, limit, resolved) == Try(s, a, caps, limit, resolved).ok

\* The store after the tasks of S were completed.
After(s, S) ==
    [s EXCEPT !.task = [id \in TaskId |->
        IF id \in S THEN [s.task[id] EXCEPT !.status = "completed"] ELSE s.task[id]]]

\* The store once every lease but a's has run out.
OthersExpired(s, a) ==
    [s EXCEPT !.task = [id \in TaskId |->
        IF id \in OwnedByOthers(s, a) THEN Yielded(s.task[id], "pending") ELSE s.task[id]]]

(***************************************************************************)
(* "Clients should use that reason to decide whether to wait for a task,   *)
(* wait for a dependency or ownership event, add capabilities, or finish   *)
(* the session" (docs/agent-protocol.md): the reason of a refused acquire  *)
(* names something that really helps.  Adding the missing capabilities     *)
(* gets a task; completing the named prerequisites makes one ready; and    *)
(* after no_pending_work no capability, limit or expiry would.  A list     *)
(* that says it is truncated may not be enough, and then the next          *)
(* diagnosis gives a reason to go on and names other values.               *)
(***************************************************************************)
Helps(s, a, caps, resolved, d) ==
    LET anything == Grants(s, a, Capability, 0, resolved)
        more     == caps \cup d.missing.items
        finished == After(s, d.blockers.items \cap TaskId)
        answered == resolved \cup d.blockers.items
    IN  CASE d.reason = "ready" -> Grants(s, a, caps, MaxLoad, resolved)
          [] d.reason = "worker_at_capacity" ->
                 ~Grants(s, a, Capability, MaxLoad, resolved) /\ My(s, a) # {}
          [] d.reason = "capabilities_unavailable" ->
                 /\ ~Grants(s, a, caps, 0, resolved)
                 /\ d.missing.truncated \/ Grants(s, a, more, 0, resolved)
                 /\ \A next \in Diagnoses(s, a, more, MaxLoad, resolved) :
                        /\ next.reason \in {"ready", "capabilities_unavailable"}
                        /\ next.missing.items \cap d.missing.items = {}
          [] d.reason = "dependencies_incomplete" ->
                 /\ ~anything
                 /\ d.blockers.truncated \/ Grants(finished, a, Capability, 0, answered)
                 /\ \A next \in Diagnoses(finished, a, caps, MaxLoad, answered) :
                        /\ next.reason \notin {"no_pending_work", "work_owned_by_others"}
                        /\ next.blockers.items \cap d.blockers.items = {}
          [] d.reason = "work_owned_by_others" ->
                 ~anything /\ OthersExpired(s, a) # s
          [] d.reason = "no_pending_work" ->
                 ~anything /\ ~Grants(OthersExpired(s, a), a, Capability, 0, resolved)

DiagnosisHelps ==
    \A a \in Actor, caps \in SUBSET Capability, resolved \in SUBSET Remote :
        \A d \in Diagnoses(Reclaimed, a, caps, MaxLoad, resolved) :
            Helps(Reclaimed, a, caps, resolved, d)

(***************************************************************************)
(* The views forecast the calls.  Every task next lists can be claimed,    *)
(* and every pending task a claim would get is listed; the session brief   *)
(* of an agent says whether acquire would give it work and shows the task  *)
(* it would give, which caps --as does not leave out; todo.caps with an    *)
(* actor keeps what the actor works on; rm refuses a task that is not      *)
(* leased exactly when dependents names one.                               *)
(***************************************************************************)
ListsClaimable(s, a, resolved) ==
    NextWork(s, Capability, resolved).available =
        {id \in WithStatus(s, "pending") : ClaimTask(s, id, a, 1, resolved, now).ok}

BriefsTheGrant(s, a, n, resolved) ==
    LET b == Brief(s, lineage, a, n, resolved)
        grant == Try(s, a, Caps[a], MaxLoad, resolved)
    IN  /\ grant.ok <=> ~b.atCapacity /\ b.ready.total > 0
        /\ grant.ok => My(grant.store, a) \ My(s, a) \subseteq b.ready.items \cap CapsOf(s, a)
        /\ b.load = b.owned.total /\ HandleCaps(s, a) = My(s, a)

ExplainsRefusal(s, id) ==
    RemoveTasks(s, {id}).ok <=> s.task[id].owner = NoActor /\ Dependents(s, id) = {}

ViewsForecastCalls ==
    /\ \A a \in Actor, resolved \in SUBSET Remote :
           /\ ListsClaimable(Reclaimed, a, resolved)
           /\ \A n \in Limits : BriefsTheGrant(Reclaimed, a, n, resolved)
    /\ \A id \in Present(Reclaimed) : ExplainsRefusal(Reclaimed, id)

(***************************************************************************)
(* doctor finds nothing to report, whatever the agents did: no half-done   *)
(* transaction, prune or edit leaves a store that storeInvariantProblems   *)
(* or orphaned_deps complains about.                                       *)
(***************************************************************************)
DoctorFindsNothing == Problems(store) = {} /\ OrphanedDeps(store) = {}

(***************************************************************************)
(* Progress is honest: an objective bootstrap inferred for unfinished work *)
(* is unfinished, so its progress is below 100 percent, and an objective   *)
(* at 100 percent has nothing left in its dependency closure.              *)
(***************************************************************************)
ProgressIsHonest ==
    /\ TopLevel(store, lineage) # {} =>
           \A id \in Objectives(store, lineage) : ObjectiveProgress(store, id).percent < 100
    /\ \A id \in Present(store) :
           ObjectiveProgress(store, id).percent = 100 =>
               ~\E x \in Scope(store, id) : WaitsFor(store, x, Remote) # {}

-----------------------------------------------------------------------------

\* A done call on i and j, which the handlers answer with the unblocked tasks.
Completes(a, i, j, resolved) ==
    /\ \A x \in {i, j} : /\ store.task[x].status # "completed"
                         /\ store'.task[x].status = "completed"
    /\ CompleteBatch(Reclaimed, i, j, a, resolved).ok
    /\ Done(a, i, j, resolved)

(***************************************************************************)
(* "unblocked lists only work the completion actually freed; a task that   *)
(* was already ready is not reported" (docs/agent-protocol.md), and all of *)
(* it: the list is what is ready after the call and was not before.        *)
(***************************************************************************)
UnblockedIsNews ==
    [][\A a \in Caller, i, j \in TaskId, resolved \in SUBSET Remote :
         Completes(a, i, j, resolved) =>
             NewlyReadyAfter(store', {i, j}, resolved)
                 = Ready(store', resolved) \ Ready(Reclaimed, resolved)]_views

(***************************************************************************)
(* what-if comes true: what it says of the completion of a task is what    *)
(* the completion then does and done reports.                              *)
(***************************************************************************)
WhatIfComesTrue ==
    [][\A a \in Caller, i \in TaskId, resolved \in SUBSET Remote :
         Completes(a, i, i, resolved) =>
             LET said == WhatIf(Reclaimed, i, resolved)
             IN  /\ said.unblocked = NewlyReadyAfter(store', {i}, resolved)
                 /\ said.stillBlocked = Cardinality(BlockedTasks(store', resolved))
                 /\ Cardinality(said.unblocked) <= said.dependents]_views

(***************************************************************************)
(* What lineage shows under a task, its dependency progress counts: the    *)
(* subtasks of every decompose stay prerequisites of their parent, however *)
(* deep and whatever is removed or pruned, until an update drops an edge.  *)
(***************************************************************************)
SubtasksAreCounted ==
    ~cut => \A id \in Present(store) :
                Descendants(store, lineage, id) \subseteq Scope(store, id)

=============================================================================
