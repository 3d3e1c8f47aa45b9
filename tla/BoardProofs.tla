---------------------------- MODULE BoardProofs ----------------------------
(***************************************************************************)
(* Theorems about Board, and about Views, which makes the same calls, for  *)
(* every number of tasks, agents, requests, linked tasks and capabilities, *)
(* and every bound on the clock.                                           *)
(*                                                                         *)
(* The first part is about states: a predicate on stores, Sound(s), that   *)
(* each operation of TaskStore keeps, whether its callback succeeds or     *)
(* fails, because store.Update may write either.  The second part is about *)
(* steps: a relation between stores, Effect(s, u, b, t), that each         *)
(* operation establishes.  The third part is about the views.              *)
(***************************************************************************)
EXTENDS Views, TLAPS, FiniteSetTheorems, WellFoundedInduction

\* A graph of prerequisites without a cycle among local tasks.
NoCycle(edges) ==
    \A S \in SUBSET TaskId : S # {} => \E x \in S : edges[x] \cap S = {}

\* The edges of present tasks stay among present tasks, below nextID.
Rooted(s) ==
    \A id \in Present(s) : LocalDeps(s, id) \subseteq Present(s) /\ id < s.nextID

Sound(s) ==
    /\ s \in Store
    /\ \A id \in TaskId : LeaseWhole(s.task[id])
    /\ Rooted(s)
    /\ NoCycle(Edges(s))

\* The inductive invariant.
IInv == Sound(store) /\ now \in 1..MaxTime

-----------------------------------------------------------------------------
(* Types of the pieces of a store.                                         *)

\* A task that yields its lease keeps everything but status, owner and lease.
LEMMA YieldedTask ==
    ASSUME NEW t \in Task, NEW st \in Status
    PROVE  /\ Yielded(t, st) \in Task
           /\ Yielded(t, st).status = st
           /\ Yielded(t, st).deps = t.deps
           /\ st # "in_progress" => LeaseWhole(Yielded(t, st))
BY DEF Yielded, Task, LeaseWhole

\* A leased task is whole: the expiry of a lease is never 0.
LEMMA LeasedTask ==
    ASSUME NEW t \in Task, NEW a \in Actor, NEW expires \in Nat \ {0}
    PROVE  /\ Leased(t, a, expires) \in Task
           /\ Leased(t, a, expires).status = "in_progress"
           /\ Leased(t, a, expires).deps = t.deps
           /\ LeaseWhole(Leased(t, a, expires))
BY NamesAssumption DEF Leased, Task, Status, LeaseWhole

\* The record of a task that is not there.
LEMMA NoTaskType == NoTask \in Task /\ LeaseWhole(NoTask)
BY CountsAssumption DEF NoTask, Task, Status, Priority, LeaseWhole

\* Recording an event keeps a feed a sequence of event types.
LEMMA RememberType ==
    ASSUME NEW q \in Seq(EventType), NEW type \in EventType
    PROVE  Remember(q, type) \in Seq(EventType)
<1>1. /\ Append(q, type) \in Seq(EventType)
      /\ Len(Append(q, type)) = Len(q) + 1
      /\ Len(q) \in Nat
  OBVIOUS
<1>2. Append(q, type) # << >>
  BY <1>1, Len(<< >>) = 0
<1>3. Tail(Append(q, type)) \in Seq(EventType)
  BY <1>1, <1>2
<1> QED
  BY <1>1, <1>3 DEF Remember

\* Fewer edges make no cycle.
LEMMA FewerEdges ==
    ASSUME NEW e1, NEW e2, NoCycle(e1),
           \A x \in TaskId : e2[x] \cap TaskId \subseteq e1[x]
    PROVE  NoCycle(e2)
BY DEF NoCycle

\* What passes the cycle check is cycle-free.
LEMMA CheckedEdges ==
    ASSUME NEW edges, ~DetectCycle(edges)
    PROVE  NoCycle(edges)
BY DEF DetectCycle, NoCycle

-----------------------------------------------------------------------------
(* Changes that leave the graph alone.                                     *)

\* A store with the same tasks, edges and next ID is as sound as its leases
\* are whole.
LEMMA SameGraphSound ==
    ASSUME NEW s, Sound(s), NEW u \in Store, u.nextID = s.nextID,
           Present(u) = Present(s),
           \A id \in TaskId : u.task[id].deps = s.task[id].deps,
           \A id \in TaskId : LeaseWhole(u.task[id])
    PROVE  Sound(u)
<1>1. Edges(u) = Edges(s)
  BY DEF Edges
<1>2. Rooted(u)
  BY DEF Sound, Rooted, LocalDeps, Present
<1> QED
  BY <1>1, <1>2 DEF Sound

\* An event changes the feed only.
LEMMA AddEventSound ==
    ASSUME NEW s, Sound(s), NEW id \in TaskId, NEW type \in EventType
    PROVE  Sound(AddEvent(s, id, type))
<1> DEFINE u == AddEvent(s, id, type)
<1>1. u \in Store /\ u.task = s.task /\ u.nextID = s.nextID
  BY RememberType DEF AddEvent, Store, Sound
<1>2. Present(u) = Present(s)
  BY <1>1 DEF Present
<1>3. \A x \in TaskId : u.task[x].deps = s.task[x].deps /\ LeaseWhole(u.task[x])
  BY <1>1 DEF Sound
<1> HIDE DEF u
<1> QED
  BY <1>1, <1>2, <1>3, SameGraphSound DEF u

\* Any change of one task that keeps it there, keeps its edges and leaves it
\* with a whole lease is sound.
LEMMA SetTaskSound ==
    ASSUME NEW s, Sound(s), NEW id \in Present(s), NEW t \in Task,
           t.status # "absent", t.deps = s.task[id].deps, LeaseWhole(t)
    PROVE  Sound(SetTask(s, id, t))
<1> DEFINE u == SetTask(s, id, t)
<1>1. id \in TaskId /\ s.task \in [TaskId -> Task]
  BY DEF Present, Sound, Store
<1>2. u \in Store /\ u.nextID = s.nextID /\ u.task = [s.task EXCEPT ![id] = t]
  BY <1>1 DEF SetTask, Store, Sound
<1> HIDE DEF u
<1>3. Present(u) = Present(s)
  BY <1>1, <1>2 DEF Present
<1>4. \A x \in TaskId : u.task[x].deps = s.task[x].deps /\ LeaseWhole(u.task[x])
  BY <1>1, <1>2 DEF Sound
<1> QED
  BY <1>2, <1>3, <1>4, SameGraphSound DEF u

\* The reclaim pass returns expired tasks to pending, whole.
LEMMA CleanSound ==
    ASSUME NEW s, Sound(s), NEW t
    PROVE  Sound(CleanExpiredLeases(s, t))
<1> DEFINE u == CleanExpiredLeases(s, t)
<1>1. s.task \in [TaskId -> Task] /\ s.feed \in [TaskId -> Seq(EventType)]
  BY DEF Sound, Store
<1>2. "pending" \in Status /\ "lease_expired" \in EventType
  BY DEF Status, EventType
<1>3. u.task \in [TaskId -> Task] /\ u.feed \in [TaskId -> Seq(EventType)]
  BY <1>1, <1>2, YieldedTask, RememberType DEF CleanExpiredLeases, Sound, Store
<1>4. u \in Store /\ u.nextID = s.nextID
  BY <1>3 DEF CleanExpiredLeases, Sound, Store
<1>5. \A id \in TaskId : u.task[id].deps = s.task[id].deps /\ LeaseWhole(u.task[id])
  BY <1>1, <1>2, YieldedTask DEF CleanExpiredLeases, Sound, Store
<1>6. \A id \in TaskId : u.task[id].status = "absent" <=> s.task[id].status = "absent"
  BY <1>1, <1>2, YieldedTask DEF CleanExpiredLeases, Expired, Sound, Store
<1>7. Present(u) = Present(s)
  BY <1>6 DEF Present
<1> HIDE DEF u
<1> QED
  BY <1>4, <1>5, <1>7, SameGraphSound DEF u

\* Every operation that only yields the lease of a task and announces it.
LEMMA YieldSound ==
    ASSUME NEW s, Sound(s), NEW id \in Present(s), NEW t \in Task,
           t.deps = s.task[id].deps,
           NEW st \in {"pending", "completed", "blocked"}, NEW type \in EventType
    PROVE  Sound(AddEvent(SetTask(s, id, Yielded(t, st)), id, type))
<1>1. st \in Status /\ id \in TaskId
  BY DEF Status, Present
<1>2. Sound(SetTask(s, id, Yielded(t, st)))
  BY <1>1, YieldedTask, SetTaskSound
<1> QED
  BY <1>1, <1>2, AddEventSound

-----------------------------------------------------------------------------
(* The lease and status operations.                                        *)

LEMMA ClaimSound ==
    ASSUME NEW s, Sound(s), NEW id \in TaskId, NEW a \in Actor, NEW ttl \in Nat,
           NEW resolved, NEW t \in Nat \ {0}
    PROVE  Sound(ClaimTask(s, id, a, ttl, resolved, t).store)
<1>1. s.task[id] \in Task /\ t + ttl \in Nat \ {0}
  BY DEF Sound, Store
<1>2. CASE Claimable(s, id)
  <2>1. id \in Present(s)
    BY <1>2 DEF Claimable, Present
  <2>2. Sound(SetTask(s, id, Leased(s.task[id], a, t + ttl)))
    BY <1>1, <2>1, LeasedTask, SetTaskSound
  <2>3. Sound(AddEvent(SetTask(s, id, Leased(s.task[id], a, t + ttl)), id, "task_claimed"))
    BY <2>2, AddEventSound DEF EventType
  <2> QED
    BY <2>3 DEF ClaimTask, Guarded, Outcome
<1>3. CASE ~Claimable(s, id)
  BY <1>3 DEF ClaimTask, Guarded, Outcome
<1> QED
  BY <1>2, <1>3

LEMMA CompleteSound ==
    ASSUME NEW s, Sound(s), NEW id \in TaskId, NEW a, NEW resolved
    PROVE  Sound(CompleteTask(s, id, a, resolved).store)
<1>1. CASE id \in Present(s)
  <2>1. Sound(AddEvent(SetTask(s, id, Yielded(s.task[id], "completed")),
                       id, "task_completed"))
    BY <1>1, YieldSound DEF EventType, Sound, Store
  <2> QED
    BY <2>1 DEF CompleteTask, Guarded, Outcome
<1>2. CASE id \notin Present(s)
  BY <1>2 DEF CompleteTask, Guarded, Outcome, Present
<1> QED
  BY <1>1, <1>2

LEMMA ReleaseSound ==
    ASSUME NEW s, Sound(s), NEW id \in TaskId, NEW a,
           NEW failure \in Failure \cup {NoFailure}
    PROVE  Sound(ReleaseTask(s, id, a, failure).store)
<1> DEFINE t == s.task[id]
           charged == [t EXCEPT !.retries = IF @ < RetryCap THEN @ + 1 ELSE @,
                                !.error = IF failure # NoFailure THEN failure ELSE @]
<1>1. t \in Task
  BY DEF Sound, Store
<1>2. charged \in Task /\ charged.deps = t.deps
  <2>1. t.retries \in 0..RetryCap /\ t.error \in Failure \cup {NoFailure}
    BY <1>1 DEF Task
  <2>2. (IF t.retries < RetryCap THEN t.retries + 1 ELSE t.retries) \in 0..RetryCap
    BY <2>1, CountsAssumption
  <2>3. (IF failure # NoFailure THEN failure ELSE t.error) \in Failure \cup {NoFailure}
    BY <2>1
  <2> QED
    BY <1>1, <2>2, <2>3 DEF Task
<1>3. CASE id \in Present(s)
  <2>1. Sound(AddEvent(SetTask(s, id, Yielded(charged, "pending")), id, "task_released"))
    BY <1>2, <1>3, YieldSound DEF EventType
  <2> QED
    BY <2>1 DEF ReleaseTask, Guarded, Outcome
<1>4. CASE id \notin Present(s)
  BY <1>4 DEF ReleaseTask, Guarded, Outcome, Present
<1> QED
  BY <1>3, <1>4

\* Batches: the second ID runs on what the first left.
LEMMA BatchSound ==
    ASSUME NEW s, Sound(s), NEW i \in TaskId, NEW j \in TaskId, NEW a, NEW resolved,
           NEW failure \in Failure \cup {NoFailure}
    PROVE  /\ Sound(CompleteBatch(s, i, j, a, resolved).store)
           /\ Sound(ReleaseBatch(s, i, j, a, failure).store)
BY CompleteSound, ReleaseSound DEF CompleteBatch, ReleaseBatch

LEMMA BlockSound ==
    ASSUME NEW s, Sound(s), NEW id \in TaskId, NEW a
    PROVE  /\ Sound(BlockTask(s, id, a).store)
           /\ Sound(UnblockTask(s, id).store)
<1>1. CASE id \in Present(s)
  <2>1. Sound(AddEvent(SetTask(s, id, Yielded(s.task[id], "blocked")),
                       id, "task_blocked"))
    BY <1>1, YieldSound DEF EventType, Sound, Store
  <2>2. Sound(AddEvent(SetTask(s, id, Yielded(s.task[id], "pending")),
                       id, "task_unblocked"))
    BY <1>1, YieldSound DEF EventType, Sound, Store
  <2> QED
    BY <2>1, <2>2 DEF BlockTask, UnblockTask, Guarded, Outcome
<1>2. CASE id \notin Present(s)
  BY <1>2 DEF BlockTask, UnblockTask, Guarded, Outcome, Present
<1> QED
  BY <1>1, <1>2

LEMMA RenewSound ==
    ASSUME NEW s, Sound(s), NEW id \in TaskId, NEW a, NEW ttl \in Nat,
           NEW t \in Nat \ {0}
    PROVE  Sound(RenewLease(s, id, a, ttl, t).store)
<1> DEFINE new == [s.task[id] EXCEPT !.lease = t + ttl]
<1>1. CASE LeaseActive(s, id, t)
  <2>1. s.task[id] \in Task /\ s.task[id].status = "in_progress" /\ id \in Present(s)
    BY <1>1 DEF Sound, Store, LeaseActive, Present
  <2>2. new \in Task /\ new.status = "in_progress" /\ new.deps = s.task[id].deps
    BY <2>1 DEF Task
  <2>3. LeaseWhole(new)
    BY <2>1 DEF Sound, LeaseWhole, Task
  <2>4. Sound(SetTask(s, id, new))
    BY <2>1, <2>2, <2>3, SetTaskSound
  <2> QED
    BY <2>4 DEF RenewLease, Guarded, Outcome
<1>2. CASE ~LeaseActive(s, id, t)
  BY <1>2 DEF RenewLease, Guarded, Outcome
<1> QED
  BY <1>1, <1>2

LEMMA HandoffSound ==
    ASSUME NEW s, Sound(s), NEW id \in TaskId, NEW a, NEW fits, NEW t
    PROVE  Sound(HandoffTask(s, id, a, fits, t).store)
<1>1. CASE LeaseActive(s, id, t)
  <2>1. id \in Present(s)
    BY <1>1 DEF LeaseActive, Present
  <2>2. Sound(AddEvent(SetTask(s, id, Yielded(s.task[id], "pending")),
                       id, "task_released"))
    BY <2>1, YieldSound DEF EventType, Sound, Store
  <2> QED
    BY <2>2 DEF HandoffTask, Guarded, Outcome
<1>2. CASE ~LeaseActive(s, id, t)
  BY <1>2 DEF HandoffTask, Guarded, Outcome
<1> QED
  BY <1>1, <1>2

-----------------------------------------------------------------------------
(* The operations that change the graph.                                   *)

\* A new task depends on tasks that are there, and passed the cycle check.
LEMMA CreateSound ==
    ASSUME NEW s, Sound(s), s.nextID <= MaxTasks,
           NEW deps \in SUBSET Reference, NEW caps \in SUBSET Capability,
           NEW prio \in Priority
    PROVE  Sound(CreateTask(s, deps, caps, prio).store)
<1> DEFINE u == AddTask(s, deps, caps, prio)
           n == s.nextID
           e == [Edges(s) EXCEPT ![n] = deps]
           new == [NoTask EXCEPT !.status = "pending", !.deps = deps,
                                 !.caps = caps, !.prio = prio]
<1>1. CASE deps \subseteq Present(s) \cup Remote /\ ~DetectCycle(e)
  <2>1. n \in TaskId /\ n \in 1..(MaxTasks + 1) /\ s.task \in [TaskId -> Task]
    BY CountsAssumption DEF Sound, Store, TaskId
  <2>2. /\ new \in Task /\ LeaseWhole(new)
        /\ new.deps = deps /\ new.status = "pending"
    BY NoTaskType DEF Task, Status, Reference, LeaseWhole, NoTask
  <2>3. /\ u \in Store /\ u.nextID = n + 1
        /\ u.task = [s.task EXCEPT ![n] = new]
    <3>1. u = [s EXCEPT !.task[n] = new, !.nextID = n + 1]
      BY DEF AddTask
    <3>2. n + 1 \in 1..(MaxTasks + 1)
      BY <2>1, CountsAssumption DEF TaskId
    <3> HIDE DEF u, new
    <3> QED
      BY <2>1, <2>2, <3>1, <3>2 DEF Sound, Store
  <2> HIDE DEF u, new
  <2>4. Present(u) = Present(s) \cup {n}
    BY <2>1, <2>2, <2>3 DEF Present
  <2>5. Edges(u) = e
    BY <2>1, <2>2, <2>3 DEF Edges
  <2>6. \A id \in TaskId : LeaseWhole(u.task[id])
    BY <2>1, <2>2, <2>3 DEF Sound
  <2>7. deps \cap TaskId \subseteq Present(s)
    BY <1>1, NamesAssumption DEF TaskId
  <2>8. Rooted(u)
    <3> SUFFICES ASSUME NEW id \in Present(u)
                 PROVE  LocalDeps(u, id) \subseteq Present(u) /\ id < u.nextID
      BY DEF Rooted
    <3>1. CASE id = n
      <4>1. u.task[n].deps = deps
        BY <2>1, <2>2, <2>3
      <4>2. n < u.nextID
        BY <2>1, <2>3
      <4> QED
        BY <2>4, <2>7, <3>1, <4>1, <4>2 DEF LocalDeps
    <3>2. CASE id # n
      <4>1. id \in Present(s) /\ u.task[id] = s.task[id]
        BY <2>1, <2>3, <2>4, <3>2 DEF Present
      <4> QED
        BY <2>1, <2>3, <2>4, <4>1 DEF LocalDeps, Sound, Rooted, TaskId, Present
    <3> QED
      BY <3>1, <3>2
  <2>9. Sound(u)
    BY <1>1, <2>3, <2>5, <2>6, <2>8, CheckedEdges DEF Sound
  <2> QED
    BY <1>1, <2>1, <2>9, AddEventSound DEF CreateTask, Guarded, Outcome, EventType, u
<1>2. CASE ~(deps \subseteq Present(s) \cup Remote /\ ~DetectCycle(e))
  BY <1>2 DEF CreateTask, Guarded, Outcome
<1> QED
  BY <1>1, <1>2

\* Edited dependencies point at tasks that are there and passed the check.
LEMMA EditSound ==
    ASSUME NEW s, Sound(s), NEW id \in Present(s),
           NEW add \in SUBSET Reference, NEW drop \in SUBSET Reference
    PROVE  LET o == EditDependencies(s, id, add, drop)
           IN  /\ Sound(o.store)
               /\ id \in Present(o.store)
<1> DEFINE old == s.task[id].deps
           new == (old \ drop) \cup add
           t == [s.task[id] EXCEPT !.deps = new]
           u == SetTask(s, id, t)
           e == [Edges(s) EXCEPT ![id] = new]
           ok == /\ drop \subseteq old
                 /\ add \subseteq Present(s) \cup Remote \cup (old \ drop)
                 /\ Cardinality(new) <= MaxDeps \/ Cardinality(new) <= Cardinality(old)
                 /\ ~DetectCycle(e)
<1>1. id \in TaskId /\ s.task \in [TaskId -> Task] /\ s.task[id] \in Task
  BY DEF Present, Sound, Store
<1>2. CASE ok
  <2>1. new \in SUBSET Reference /\ old \subseteq Reference
    BY <1>1 DEF Task, Reference
  <2>2. t \in Task /\ t.deps = new /\ t.status = s.task[id].status /\ LeaseWhole(t)
    BY <1>1, <2>1 DEF Task, Reference, Sound, LeaseWhole
  <2>3. u \in Store /\ u.nextID = s.nextID /\ u.task = [s.task EXCEPT ![id] = t]
    BY <1>1, <2>2 DEF SetTask, Sound, Store
  <2>4. new \cap TaskId \subseteq Present(s)
    BY <1>1, <1>2, NamesAssumption DEF Sound, Rooted, LocalDeps, TaskId
  <2> HIDE DEF u, t, new
  <2>5. Present(u) = Present(s)
    BY <1>1, <2>2, <2>3 DEF Present
  <2>6. Edges(u) = e
    BY <1>1, <2>2, <2>3 DEF Edges
  <2>7. \A x \in TaskId : LeaseWhole(u.task[x])
    BY <1>1, <2>2, <2>3 DEF Sound
  <2>8. Rooted(u)
    BY <1>1, <2>2, <2>3, <2>4, <2>5 DEF Sound, Rooted, LocalDeps, Present
  <2>9. Sound(u) /\ id \in Present(u)
    BY <1>2, <2>3, <2>5, <2>6, <2>7, <2>8, CheckedEdges DEF Sound
  <2>10. EditDependencies(s, id, add, drop).store = u
    BY <1>2 DEF EditDependencies, Guarded, Outcome, u, t, new
  <2> QED
    BY <2>9, <2>10
<1>3. CASE ~ok
  BY <1>3 DEF EditDependencies, Guarded, Outcome
<1> QED
  BY <1>2, <1>3

\* update may fail after it has edited the store; what it leaves is sound.
LEMMA UpdateSound ==
    ASSUME NEW s, Sound(s), NEW id \in TaskId, NEW a,
           NEW add \in SUBSET Reference, NEW drop \in SUBSET Reference,
           NEW caps \in SUBSET Capability, NEW prio \in Priority, NEW fits
    PROVE  Sound(UpdateTask(s, id, a, add, drop, caps, prio, fits).store)
<1> DEFINE edited == IF add \cup drop = {} THEN Outcome(TRUE, s)
                     ELSE EditDependencies(s, id, add, drop)
           v == edited.store
           t == [v.task[id] EXCEPT !.caps = caps, !.prio = prio]
<1>1. CASE id \in Present(s)
  <2>1. Sound(v) /\ id \in Present(v)
    BY <1>1, EditSound DEF Outcome
  <2> HIDE DEF v
  <2>2. v.task[id] \in Task /\ LeaseWhole(v.task[id]) /\ v.task[id].status # "absent"
    BY <2>1 DEF Sound, Store, Present
  <2>3. t \in Task /\ t.status = v.task[id].status /\ t.deps = v.task[id].deps
        /\ LeaseWhole(t)
    BY <2>2 DEF Task, LeaseWhole
  <2>4. Sound(SetTask(v, id, t))
    BY <2>1, <2>2, <2>3, SetTaskSound
  <2> QED
    BY <2>4 DEF UpdateTask, Outcome, v
<1>2. CASE id \notin Present(s)
  BY <1>2 DEF UpdateTask, Outcome, Present
<1> QED
  BY <1>1, <1>2

\* The parent of fresh children passed the cycle check with its new edges.
LEMMA DecomposeSound ==
    ASSUME NEW s, Sound(s), NEW id \in TaskId, NEW a, NEW n \in Nat \ {0},
           s.nextID + n - 1 <= MaxTasks, NEW caps \in SUBSET Capability
    PROVE  Sound(DecomposeTask(s, id, a, n, caps).store)
<1> DEFINE children == s.nextID .. (s.nextID + n - 1)
           t == s.task[id]
           new == t.deps \cup children
           child == [NoTask EXCEPT !.status = "pending", !.caps = caps]
           parent == [Yielded(t, "pending") EXCEPT !.deps = new]
           tasks == [x \in TaskId |-> IF x \in children THEN child
                                      ELSE IF x = id THEN parent ELSE s.task[x]]
           u == [s EXCEPT !.task = tasks, !.nextID = @ + n]
           e == [Edges(s) EXCEPT ![id] = new]
           ok == /\ t.status \notin {"absent", "completed"}
                 /\ MayTouch(s, id, a)
                 /\ Cardinality(new) <= MaxDeps
                 /\ ~DetectCycle(e)
<1>1. s.nextID \in Nat \ {0} /\ s.task \in [TaskId -> Task] /\ t \in Task
  BY CountsAssumption DEF Sound, Store
<1>2. CASE ok
  <2>1. id \in Present(s)
    BY <1>2 DEF Present
  <2>2. id < s.nextID /\ LocalDeps(s, id) \subseteq Present(s)
    BY <2>1 DEF Sound, Rooted
  <2>3. children \subseteq TaskId /\ id \notin children
        /\ \A x \in children : s.nextID <= x /\ x < s.nextID + n
    BY <1>1, <2>2, CountsAssumption DEF TaskId
  <2>4. /\ child \in Task /\ LeaseWhole(child)
        /\ child.deps = {} /\ child.status = "pending"
    BY NoTaskType DEF Task, Status, LeaseWhole, NoTask
  <2>5. /\ parent \in Task /\ LeaseWhole(parent)
        /\ parent.deps = new /\ parent.status = "pending"
    <3>1. new \in SUBSET (TaskId \cup Remote)
      BY <1>1, <2>3 DEF Task
    <3>2. Yielded(t, "pending") \in Task /\ LeaseWhole(Yielded(t, "pending"))
          /\ Yielded(t, "pending").status = "pending"
      BY <1>1, YieldedTask DEF Status
    <3> HIDE DEF new
    <3> QED
      BY <3>1, <3>2 DEF Task, LeaseWhole
  <2> HIDE DEF child, parent, new, children, t
  <2>6. tasks \in [TaskId -> Task]
    BY <1>1, <2>4, <2>5
  <2>7. s.nextID + n \in 1..(MaxTasks + 1)
    BY <1>1, CountsAssumption
  <2>8. u \in Store /\ u.nextID = s.nextID + n /\ u.task = tasks
    BY <2>6, <2>7 DEF Sound, Store
  <2>9. \A x \in TaskId :
          /\ x \in children => u.task[x] = child
          /\ x = id => u.task[x] = parent
          /\ x \notin children /\ x # id => u.task[x] = s.task[x]
    BY <2>3, <2>8
  <2> HIDE DEF u, tasks
  <2>10. Present(u) = Present(s) \cup children
    BY <2>1, <2>3, <2>4, <2>5, <2>9 DEF Present
  <2>11. \A x \in TaskId : LeaseWhole(u.task[x])
    BY <2>4, <2>5, <2>9 DEF Sound
  <2>12. NoCycle(Edges(u))
    <3>1. NoCycle(e)
      BY <1>2, CheckedEdges
    <3>2. \A x \in TaskId : Edges(u)[x] \subseteq e[x]
      BY <2>4, <2>5, <2>9 DEF Edges
    <3> QED
      BY <3>1, <3>2, FewerEdges
  <2>13. Rooted(u)
    <3> SUFFICES ASSUME NEW x \in Present(u)
                 PROVE  LocalDeps(u, x) \subseteq Present(u) /\ x < u.nextID
      BY DEF Rooted
    <3>0. x \in TaskId
      BY DEF Present
    <3>1. CASE x \in children
      BY <2>3, <2>4, <2>8, <2>9, <3>0, <3>1 DEF LocalDeps
    <3>2. CASE x = id
      <4>1. LocalDeps(u, x) \subseteq LocalDeps(s, id) \cup children
        BY <2>5, <2>9, <3>0, <3>2 DEF LocalDeps, new, t
      <4>2. x < u.nextID
        BY <1>1, <2>2, <2>8, <3>2 DEF TaskId
      <4> QED
        BY <2>2, <2>10, <4>1, <4>2
    <3>3. CASE x \notin children /\ x # id
      <4>1. x \in Present(s) /\ u.task[x] = s.task[x]
        BY <2>9, <2>10, <3>0, <3>3
      <4>2. LocalDeps(s, x) \subseteq Present(s) /\ x < s.nextID
        BY <4>1 DEF Sound, Rooted
      <4>3. x < u.nextID
        BY <1>1, <2>8, <3>0, <4>2 DEF TaskId
      <4> QED
        BY <2>10, <4>1, <4>2, <4>3 DEF LocalDeps
    <3> QED
      BY <3>1, <3>2, <3>3
  <2>14. Sound(u)
    BY <2>8, <2>11, <2>12, <2>13 DEF Sound
  <2>15. DecomposeTask(s, id, a, n, caps).store = AddEvent(u, id, "task_decomposed")
    BY <1>2 DEF DecomposeTask, Guarded, Outcome, u, tasks, child, parent, new, children, t
  <2> QED
    BY <2>14, <2>15, AddEventSound DEF EventType
<1>3. CASE ~ok
  BY <1>3 DEF DecomposeTask, Guarded, Outcome
<1> QED
  BY <1>2, <1>3

\* Tasks may go when no survivor depends on them.
LEMMA WithoutSound ==
    ASSUME NEW s, Sound(s), NEW R \in SUBSET TaskId,
           \A id \in TaskId \ R : s.task[id].deps \cap R = {}
    PROVE  Sound(Without(s, R))
<1> DEFINE u == Without(s, R)
<1>1. /\ s.task \in [TaskId -> Task]
      /\ s.receipt \in [RequestId -> Receipt \cup {NoReceipt}]
  BY DEF Sound, Store
<1>2. /\ u \in Store /\ u.nextID = s.nextID
      /\ u.task = [id \in TaskId |-> IF id \in R THEN NoTask ELSE s.task[id]]
  BY <1>1, NoTaskType DEF Without, Sound, Store
<1> HIDE DEF u
<1>3. Present(u) = Present(s) \ R
  BY <1>2 DEF Present, NoTask
<1>4. \A id \in TaskId : LeaseWhole(u.task[id])
  BY <1>2, NoTaskType DEF Sound
<1>5. \A id \in TaskId : Edges(u)[id] \subseteq Edges(s)[id]
  BY <1>2 DEF Edges, NoTask
<1>6. Rooted(u)
  <2> SUFFICES ASSUME NEW id \in Present(u)
               PROVE  LocalDeps(u, id) \subseteq Present(u) /\ id < u.nextID
    BY DEF Rooted
  <2>1. id \in TaskId \ R /\ id \in Present(s) /\ u.task[id] = s.task[id]
    BY <1>2, <1>3 DEF Present
  <2> QED
    BY <1>2, <1>3, <2>1 DEF Sound, Rooted, LocalDeps
<1>7. NoCycle(Edges(u))
  BY <1>5, FewerEdges DEF Sound
<1> QED
  BY <1>2, <1>4, <1>6, <1>7 DEF Sound, u

\* rm refuses while a survivor depends on a removed task.
LEMMA RemoveSound ==
    ASSUME NEW s, Sound(s), NEW R \in SUBSET TaskId
    PROVE  Sound(RemoveTasks(s, R).store)
<1> DEFINE u == [s EXCEPT !.feed = [id \in TaskId |->
                    IF id \in R THEN Remember(s.feed[id], "task_removed")
                    ELSE s.feed[id]]]
<1>1. s.feed \in [TaskId -> Seq(EventType)] /\ "task_removed" \in EventType
  BY DEF Sound, Store, EventType
<1>2. u \in Store /\ u.task = s.task /\ u.nextID = s.nextID
  BY <1>1, RememberType DEF Sound, Store
<1>3. Present(u) = Present(s)
  BY <1>2 DEF Present
<1>4. \A id \in TaskId : u.task[id].deps = s.task[id].deps /\ LeaseWhole(u.task[id])
  BY <1>2 DEF Sound
<1> HIDE DEF u
<1>5. Sound(u)
  BY <1>2, <1>3, <1>4, SameGraphSound
<1>6. CASE \A id \in TaskId \ R : s.task[id].deps \cap R = {}
  <2>1. Sound(Without(u, R))
    BY <1>4, <1>5, <1>6, WithoutSound
  <2> QED
    BY <2>1 DEF RemoveTasks, Guarded, Outcome, u
<1>7. CASE ~ \A id \in TaskId \ R : s.task[id].deps \cap R = {}
  BY <1>7 DEF RemoveTasks, Guarded, Outcome
<1> QED
  BY <1>6, <1>7

\* Losing edges to the pruned tasks is sound, and then nothing needs them.
LEMMA PruneSound ==
    ASSUME NEW s, Sound(s)
    PROVE  Sound(PruneCompletedTasks(s).store)
<1> DEFINE done == {id \in TaskId : s.task[id].status = "completed"}
           u == CutEdges(s, done)
<1>1. s.task \in [TaskId -> Task]
  BY DEF Sound, Store
<1>2. \A id \in TaskId : [s.task[id] EXCEPT !.deps = @ \ done] \in Task
  BY <1>1 DEF Task
<1>3. /\ u \in Store /\ u.nextID = s.nextID
      /\ u.task = [id \in TaskId |-> [s.task[id] EXCEPT !.deps = @ \ done]]
  BY <1>2 DEF CutEdges, Sound, Store
<1> HIDE DEF u
<1>4. \A id \in TaskId :
        /\ u.task[id].deps = s.task[id].deps \ done
        /\ u.task[id].status = s.task[id].status
        /\ LeaseWhole(u.task[id])
  BY <1>1, <1>3 DEF Task, LeaseWhole, Sound
<1>5. Present(u) = Present(s)
  BY <1>4 DEF Present
<1>6. Rooted(u)
  BY <1>3, <1>4, <1>5 DEF Sound, Rooted, LocalDeps, Present
<1>7. \A id \in TaskId : Edges(u)[id] \subseteq Edges(s)[id]
  BY <1>4 DEF Edges
<1>8. Sound(u)
  BY <1>3, <1>4, <1>6, <1>7, FewerEdges DEF Sound
<1>9. Sound(Without(u, done))
  BY <1>4, <1>8, WithoutSound
<1> QED
  BY <1>9 DEF PruneCompletedTasks, Outcome, u

-----------------------------------------------------------------------------
(* Allocation.                                                             *)

\* Some ready task is ranked before all the others: ranking is a strict
\* total order and there are finitely many tasks.
LEMMA BestExists ==
    ASSUME NEW s \in Store, NEW ready \in SUBSET TaskId, ready # {}
    PROVE  \E id \in ready : \A j \in ready \ {id} : RankedBefore(s, id, j)
<1> DEFINE ahead(i) == {j \in ready : RankedBefore(s, j, i)}
           T == {ahead(i) : i \in ready}
<1>1. \A i \in TaskId : i \in Nat /\ s.task[i].prio \in Nat
  BY CountsAssumption DEF Store, Task, Priority, TaskId
<1>2. IsFiniteSet(ready)
  <2>1. IsFiniteSet(TaskId)
    BY FS_Interval, CountsAssumption DEF TaskId
  <2> QED
    BY <2>1, FS_Subset
<1>3. IsWellFoundedOn(StrictSubsetOrdering(ready), SUBSET ready)
  BY <1>2, FS_StrictSubsetOrderingWellFounded, FS_FiniteSubsetsOfFinite
<1>4. T \subseteq SUBSET ready /\ T # {}
  OBVIOUS
<1>5. PICK x \in T : \A y \in T : ~ (<<y, x>> \in StrictSubsetOrdering(ready))
  BY <1>3, <1>4, WFMin
<1>6. PICK i \in ready : x = ahead(i)
  BY <1>5
<1>7. ASSUME NEW j \in ready \ {i}, ~RankedBefore(s, i, j)
      PROVE  FALSE
  <2>1. RankedBefore(s, j, i)
    BY <1>1, <1>7 DEF RankedBefore
  <2>2. \A k \in ready : RankedBefore(s, k, j) => RankedBefore(s, k, i)
    BY <1>1, <2>1 DEF RankedBefore
  <2>3. ~RankedBefore(s, j, j)
    BY <1>1 DEF RankedBefore
  <2>4. ahead(j) \subseteq ahead(i) /\ ahead(j) # ahead(i)
    BY <2>1, <2>2, <2>3
  <2>5. <<ahead(j), ahead(i)>> \in StrictSubsetOrdering(ready)
    BY <2>4 DEF StrictSubsetOrdering
  <2> QED
    BY <1>5, <1>6, <2>5
<1> QED
  BY <1>6, <1>7

\* A grant leases a ready task and records a receipt for it.
LEMMA AcquireSound ==
    ASSUME NEW s, Sound(s), NEW rid \in RequestId,
           NEW a \in Actor, NEW ttl \in Nat, NEW caps \in SUBSET Capability,
           NEW maxLoad, NEW resolved, NEW t \in Nat \ {0}
    PROVE  LET req == [actor |-> a, ttl |-> ttl, caps |-> caps]
           IN  Sound(AcquireTask(s, rid, req, maxLoad, resolved, t).store)
<1> DEFINE req == [actor |-> a, ttl |-> ttl, caps |-> caps]
           ready == ReadyTasks(s, req.caps, resolved)
           first == CHOOSE id \in ready : \A j \in ready \ {id} : RankedBefore(s, id, j)
           u == AddEvent(SetTask(s, first, Leased(s.task[first], req.actor, t + req.ttl)),
                         first, "task_claimed")
           r == [req |-> req, id |-> first, lease |-> t + req.ttl, created |-> t]
           v == [u EXCEPT !.receipt[rid] = r]
           granted == ~Answered(s, rid) /\ ~AtCapacity(s, req.actor, maxLoad)
                      /\ ready # {}
<1>1. CASE granted
  <2>1. ready \in SUBSET TaskId /\ s \in Store
    BY DEF ReadyTasks, Sound
  <2>2. first \in ready
    BY <1>1, <2>1, BestExists
  <2> HIDE DEF first
  <2>3. first \in Present(s) /\ first \in TaskId /\ s.task[first] \in Task
    BY <2>1, <2>2 DEF ReadyTasks, Present, Store
  <2>4. req \in Request /\ t + req.ttl \in Nat \ {0} /\ req.actor \in Actor
    BY DEF Request
  <2> HIDE DEF req
  <2>5. Sound(SetTask(s, first, Leased(s.task[first], req.actor, t + req.ttl)))
    BY <2>3, <2>4, LeasedTask, SetTaskSound
  <2>6. Sound(u)
    BY <2>3, <2>5, AddEventSound DEF EventType
  <2>7. r \in Receipt
    BY <2>3, <2>4 DEF Receipt
  <2> HIDE DEF u, r
  <2>8. v \in Store /\ v.task = u.task /\ v.nextID = u.nextID
    BY <2>6, <2>7 DEF Sound, Store
  <2>9. /\ Present(v) = Present(u)
        /\ \A id \in TaskId : v.task[id].deps = u.task[id].deps /\ LeaseWhole(v.task[id])
    BY <2>6, <2>8 DEF Present, Sound
  <2> HIDE DEF v
  <2>10. Sound(v)
    BY <2>6, <2>8, <2>9, SameGraphSound
  <2>11. AcquireTask(s, rid, req, maxLoad, resolved, t).store = v
    BY <1>1 DEF AcquireTask, Outcome, v, u, r, first
  <2> QED
    BY <2>10, <2>11 DEF req
<1>2. CASE ~granted
  BY <1>2 DEF AcquireTask, Outcome
<1> QED
  BY <1>1, <1>2

-----------------------------------------------------------------------------
(* The invariant.                                                          *)

\* Whatever store.Update writes is sound if the callback leaves a sound store.
LEMMA TransactSound ==
    ASSUME IInv, NEW o, Sound(o.store), NEW at \in Later, Transact(o, at)
    PROVE  IInv'
<1>1. at \in 1..MaxTime
  BY BoardAssumption DEF IInv, Later
<1>2. Sound(store')
  BY DEF IInv, Transact, Committed
<1> QED
  BY <1>1, <1>2 DEF IInv, Transact, Sound, Rooted, NoCycle, Edges, Present, LocalDeps

\* What a transaction starts from, and when.
LEMMA ReclaimedSound ==
    ASSUME IInv
    PROVE  /\ Sound(Reclaimed) /\ Reclaimed.nextID = store.nextID
           /\ now \in Later /\ Later \subseteq Nat \ {0}
<1>1. Sound(Reclaimed)
  BY CleanSound DEF IInv, Reclaimed
<1>2. store \in Store
  BY DEF IInv, Sound
<1>3. Reclaimed.nextID = store.nextID
  BY <1>2 DEF Reclaimed, CleanExpiredLeases, Store
<1>4. now \in Later /\ Later \subseteq Nat \ {0}
  BY BoardAssumption DEF IInv, Later
<1> QED
  BY <1>1, <1>3, <1>4

LEMMA InitSound == Init => IInv
<1> SUFFICES ASSUME Init PROVE IInv
  OBVIOUS
<1>1. NewTaskStore \in Store
  BY NoTaskType, CountsAssumption DEF NewTaskStore, Store
<1>2. \A id \in TaskId : store.task[id] = NoTask
  BY DEF Init, NewTaskStore
<1>3. Present(store) = {} /\ \A id \in TaskId : LeaseWhole(store.task[id])
  BY <1>2, NoTaskType DEF Present, NoTask
<1>4. \A id \in TaskId : Edges(store)[id] = {}
  BY <1>2 DEF Edges, NoTask
<1> QED
  BY <1>1, <1>3, <1>4, BoardAssumption DEF Init, IInv, Sound, Rooted, NoCycle

\* Every call is a transaction whose callback leaves a sound store.
LEMMA CallSound ==
    ASSUME IInv, NEW a \in Caller, CallOf(a)
    PROVE  IInv'
<1> USE ReclaimedSound
<1>1. CASE a # NoActor /\ LeaseCall(a)
  <2>0. a \in Actor /\ TTL \subseteq Nat
    BY <1>1, BoardAssumption DEF Caller
  <2>1. PICK id \in TaskId, at \in Later :
          \/ \E ttl \in TTL, resolved \in SUBSET Remote : Claim(a, id, ttl, resolved, at)
          \/ \E ttl \in TTL : Heartbeat(a, id, ttl, at)
          \/ \E fits \in BOOLEAN : Handoff(a, id, fits, at)
    BY <1>1 DEF LeaseCall
  <2>2. CASE \E ttl \in TTL, resolved \in SUBSET Remote : Claim(a, id, ttl, resolved, at)
    BY <2>0, <2>2, ClaimSound, TransactSound DEF Claim
  <2>3. CASE \E ttl \in TTL : Heartbeat(a, id, ttl, at)
    BY <2>0, <2>3, RenewSound, TransactSound DEF Heartbeat
  <2>4. CASE \E fits \in BOOLEAN : Handoff(a, id, fits, at)
    BY <2>4, HandoffSound, TransactSound DEF Handoff
  <2> QED
    BY <2>1, <2>2, <2>3, <2>4
<1>2. CASE a # NoActor /\ AcquireCall(a)
  <2>0. a \in Actor /\ TTL \subseteq Nat
    BY <1>2, BoardAssumption DEF Caller
  <2> QED
    BY <1>2, <2>0, AcquireSound, TransactSound DEF AcquireCall, Acquire
<1>3. CASE StatusCall(a)
  <2>1. PICK i \in TaskId :
          \/ \E j \in TaskId, resolved \in SUBSET Remote : Done(a, i, j, resolved)
          \/ \E j \in TaskId, failure \in Failure \cup {NoFailure} :
                 Release(a, i, j, failure)
          \/ Block(a, i)
    BY <1>3 DEF StatusCall
  <2>2. CASE \E j \in TaskId, resolved \in SUBSET Remote : Done(a, i, j, resolved)
    BY <2>2, BatchSound, TransactSound DEF Done
  <2>3. CASE \E j \in TaskId, failure \in Failure \cup {NoFailure} : Release(a, i, j, failure)
    BY <2>3, BatchSound, TransactSound DEF Release
  <2>4. CASE Block(a, i)
    BY <2>4, BlockSound, TransactSound DEF Block
  <2> QED
    BY <2>1, <2>2, <2>3, <2>4
<1>4. CASE EditCall(a)
  <2>1. PICK id \in TaskId, caps \in SUBSET Capability :
          \/ \E add \in Edits, drop \in Edits, prio \in Priority, fits \in BOOLEAN :
                 Update(a, id, add, drop, caps, prio, fits)
          \/ \E n \in 1..MaxChildren : Decompose(a, id, n, caps)
    BY <1>4 DEF EditCall
  <2>2. CASE \E add \in Edits, drop \in Edits, prio \in Priority, fits \in BOOLEAN :
                 Update(a, id, add, drop, caps, prio, fits)
    BY <2>2, UpdateSound, TransactSound DEF Update, Edits
  <2>3. CASE \E n \in 1..MaxChildren : Decompose(a, id, n, caps)
    BY <2>3, DecomposeSound, TransactSound, BoardAssumption DEF Decompose
  <2> QED
    BY <2>1, <2>2, <2>3
<1> QED
  BY <1>1, <1>2, <1>3, <1>4 DEF CallOf

LEMMA OpenCallSound ==
    ASSUME IInv, OpenCall
    PROVE  IInv'
<1> USE ReclaimedSound
<1>1. ASSUME NEW deps \in SUBSET Reference, NEW caps \in SUBSET Capability,
             NEW prio \in Priority, Add(deps, caps, prio)
      PROVE  IInv'
  BY <1>1, CreateSound, TransactSound DEF Add
<1>2. ASSUME NEW id \in TaskId, Unblock(id)
      PROVE  IInv'
  BY <1>2, BlockSound, TransactSound DEF Unblock
<1>3. ASSUME NEW R \in SUBSET TaskId, Remove(R)
      PROVE  IInv'
  BY <1>3, RemoveSound, TransactSound DEF Remove
<1>4. ASSUME Prune
      PROVE  IInv'
  BY <1>4, PruneSound, TransactSound DEF Prune
<1>5. ASSUME Query
      PROVE  IInv'
  BY <1>5 DEF Query, IInv, Sound, Rooted, NoCycle, Edges, Present, LocalDeps
<1> QED
  BY <1>1, <1>2, <1>3, <1>4, <1>5 DEF OpenCall

LEMMA StepSound == IInv /\ [Next]_vars => IInv'
<1> SUFFICES ASSUME IInv, [Next]_vars
             PROVE  IInv'
  OBVIOUS
<1>1. CASE Tick
  BY <1>1, BoardAssumption DEF Tick, IInv, Sound, Rooted, NoCycle, Edges, Present, LocalDeps
<1>2. CASE UNCHANGED vars
  BY <1>2 DEF vars, IInv, Sound, Rooted, NoCycle, Edges, Present, LocalDeps
<1> QED
  BY <1>1, <1>2, CallSound, OpenCallSound DEF Next

LEMMA Invariance == Spec => []IInv
  BY InitSound, StepSound, PTL DEF Spec

-----------------------------------------------------------------------------
(* The theorems.                                                           *)

(***************************************************************************)
(* Every reachable store is a value the program could write: no call, and  *)
(* no failure of a call, leaves a field out of its range.                  *)
(***************************************************************************)
THEOREM TypeCorrect == Spec => []TypeOK
<1>1. IInv => TypeOK
  BY DEF IInv, TypeOK, Sound
<1> QED
  BY <1>1, Invariance, PTL

(***************************************************************************)
(* Ownership leases are all or nothing, for any number of agents and tasks *)
(* and whatever calls fail half-way: what doctor looks for never happens.  *)
(***************************************************************************)
THEOREM LeasesAreWhole == Spec => []LeaseShape
<1>1. IInv => LeaseShape
  BY DEF IInv, LeaseShape, Sound
<1> QED
  BY <1>1, Invariance, PTL

(***************************************************************************)
(* No call leaves a dangling local dependency or reuses an ID from NextID  *)
(* up.                                                                     *)
(***************************************************************************)
THEOREM GraphStaysIntact == Spec => []GraphIntact
<1>1. IInv => GraphIntact
  BY DEF IInv, GraphIntact, Sound, Rooted
<1> QED
  BY <1>1, Invariance, PTL

(***************************************************************************)
(* The stored dependency graph never has a cycle.                          *)
(***************************************************************************)
THEOREM GraphStaysAcyclic == Spec => []Acyclic
<1>1. IInv => Acyclic
  <2> SUFFICES ASSUME IInv, NEW S \in SUBSET TaskId, S # {}
               PROVE  \E x \in S : LocalDeps(store, x) \cap S = {}
    BY DEF Acyclic
  <2>1. PICK x \in S : Edges(store)[x] \cap S = {}
    BY DEF IInv, Sound, NoCycle
  <2> QED
    BY <2>1 DEF Edges, LocalDeps
<1> QED
  BY <1>1, Invariance, PTL

-----------------------------------------------------------------------------
(* What a call does to the tasks, in whatever state it leaves the store.   *)

\* What a call of b that ends at time t may do to the tasks, in whatever state it
\* leaves the store: completion is final and IDs are not reused,
\* a lease of another agent that runs beyond t stays as it is, and work that
\* starts or completes has its local prerequisites completed.
Lasting(s, u) ==
    /\ s.nextID <= u.nextID
    /\ \A id \in TaskId :
        /\ s.task[id].status = "completed"
               => u.task[id].status \in {"completed", "absent"}
        /\ s.task[id].status = "absent" /\ id < s.nextID
               => u.task[id].status = "absent"

Spared(s, u, b, t) ==
    \A id \in TaskId :
        s.task[id].owner \notin {NoActor, b} /\ s.task[id].lease > t
            => u.task[id].owner = s.task[id].owner /\ u.task[id].lease = s.task[id].lease

Starts(s, u, id) ==
    \/ u.task[id].owner \notin {NoActor, s.task[id].owner}
    \/ u.task[id].status = "completed" /\ s.task[id].status # "completed"

DepsDone(s, id) == \A d \in LocalDeps(s, id) : s.task[d].status = "completed"

\* What a grant of u that s did not have leaves behind.
BestGranted(s, u) ==
    \A r \in RequestId, id \in TaskId :
        LET best == u.task[u.receipt[r].id]
            t == u.task[id]
        IN  (/\ s.receipt[r] = NoReceipt /\ u.receipt[r] # NoReceipt
             /\ t.status = "pending"
             /\ t.caps \subseteq u.receipt[r].req.caps
             /\ t.deps \subseteq {d \in TaskId : u.task[d].status = "completed"})
            => \/ t.prio < best.prio
               \/ t.prio = best.prio /\ id > u.receipt[r].id

\* Receipts are of tasks that are there.
Backed(s) ==
    \A r \in RequestId : s.receipt[r] # NoReceipt => s.receipt[r].id \in Present(s)

\* The feeds tell the status of the tasks; IDs not yet given have none.
Told(s) ==
    /\ \A id \in Present(s) : Announced(s.feed[id]) = s.task[id].status
    /\ \A id \in TaskId : s.nextID <= id => s.feed[id] = << >>

\* An ID without a task has no dependencies.
Bare(s) == \A id \in TaskId : s.task[id].status = "absent" => s.task[id].deps = {}

Effect(s, u, b, t) ==
    /\ Lasting(s, u)
    /\ Spared(s, u, b, t)
    /\ \A id \in TaskId : Starts(s, u, id) => DepsDone(u, id)
    /\ BestGranted(s, u)
    /\ Backed(s) => Backed(u)
    /\ Bare(s) => Bare(u)
    /\ Memory > 0 /\ Told(s) => Told(u)

\* A callback that leaves the tasks alone.
LEMMA SameTasksEffect ==
    ASSUME NEW s, Sound(s), NEW b, NEW t
    PROVE  Effect(s, s, b, t)
BY DEF Effect, Lasting, Spared, Starts, BestGranted, Sound, Store

\* u differs from s in task id and its feed at most.
OneTask(s, u, id) ==
    /\ u.nextID = s.nextID /\ u.receipt = s.receipt
    /\ \A x \in TaskId \ {id} : u.task[x] = s.task[x] /\ u.feed[x] = s.feed[x]

\* A callback that changes one task.
LEMMA OneTaskEffect ==
    ASSUME NEW s, Sound(s), NEW u, NEW id \in TaskId, OneTask(s, u, id), NEW b, NEW t,
           s.task[id].status # "absent", u.task[id].status # "absent",
           s.task[id].status = "completed" => u.task[id].status = "completed",
           \/ s.task[id].owner \in {NoActor, b}
           \/ ~(s.task[id].lease > t)
           \/ u.task[id].owner = s.task[id].owner /\ u.task[id].lease = s.task[id].lease,
           Starts(s, u, id) => /\ s.task[id].status # "completed"
                               /\ u.task[id].deps = s.task[id].deps
                               /\ DepsDone(s, id),
           \/ u.feed[id] = s.feed[id] /\ u.task[id].status = s.task[id].status
           \/ Memory > 0 => Announced(u.feed[id]) = u.task[id].status
    PROVE  Effect(s, u, b, t)
<1>1. s.nextID \in Int /\ TaskId \subseteq Int
  BY CountsAssumption DEF Sound, Store, TaskId
<1>2. Present(u) = Present(s)
  BY DEF Present, OneTask
<1>3. Lasting(s, u)
  BY <1>1 DEF Lasting, OneTask
<1>4. Spared(s, u, b, t)
  BY DEF Spared, OneTask
<1>5. ASSUME NEW x \in TaskId, Starts(s, u, x) PROVE DepsDone(u, x)
  <2>1. x = id
    BY <1>5 DEF Starts, OneTask
  <2>2. /\ s.task[id].status # "completed" /\ u.task[id].deps = s.task[id].deps
        /\ DepsDone(s, id)
    BY <1>5, <2>1
  <2>3. LocalDeps(u, id) = LocalDeps(s, id)
    BY <2>2 DEF LocalDeps
  <2>4. \A d \in LocalDeps(s, id) : u.task[d] = s.task[d]
    BY <2>2 DEF LocalDeps, DepsDone, OneTask
  <2> QED
    BY <2>1, <2>2, <2>3, <2>4 DEF DepsDone
<1>6. BestGranted(s, u)
  BY DEF BestGranted, OneTask
<1>7. (Backed(s) => Backed(u)) /\ (Bare(s) => Bare(u))
  BY <1>2 DEF Backed, Bare, OneTask
<1>8. ASSUME Memory > 0, Told(s) PROVE Told(u)
  <2>1. id < s.nextID /\ id \in Present(s)
    BY DEF Sound, Rooted, Present
  <2>2. Announced(u.feed[id]) = u.task[id].status
    BY <1>8, <2>1 DEF Told
  <2>3. \A x \in Present(u) : Announced(u.feed[x]) = u.task[x].status
    BY <1>2, <1>8, <2>2 DEF Told, OneTask, Present
  <2>4. \A x \in TaskId : u.nextID <= x => u.feed[x] = << >>
    BY <1>1, <1>8, <2>1 DEF Told, OneTask
  <2> QED
    BY <2>3, <2>4 DEF Told
<1> QED
  BY <1>3, <1>4, <1>5, <1>6, <1>7, <1>8 DEF Effect

\* The last event of a feed that remembers any is the one recorded last.
LEMMA RememberLast ==
    ASSUME NEW q \in Seq(EventType), NEW type \in EventType, Memory > 0
    PROVE  LET r == Remember(q, type) IN r # << >> /\ r[Len(r)] = type
<1> DEFINE r == Append(q, type)
<1>1. /\ r \in Seq(EventType) /\ Len(r) = Len(q) + 1 /\ Len(q) \in Nat
      /\ r[Len(r)] = type
  OBVIOUS
<1>2. CASE Len(r) > Memory
  <2>1. Len(r) > 1 /\ r # << >>
    BY <1>1, <1>2, CountsAssumption
  <2>2. /\ Tail(r) \in Seq(EventType) /\ Len(Tail(r)) = Len(r) - 1
        /\ \A i \in 1..(Len(r) - 1) : Tail(r)[i] = r[i + 1]
    BY <1>1, <2>1
  <2>3. Tail(r)[Len(r) - 1] = type /\ Len(Tail(r)) # 0
    BY <1>1, <2>1, <2>2
  <2> QED
    BY <1>2, <2>2, <2>3 DEF Remember
<1>3. CASE ~(Len(r) > Memory)
  BY <1>1, <1>3 DEF Remember
<1> QED
  BY <1>2, <1>3

\* The status an event implies.
StatusAfter(type) ==
    CASE type = "task_claimed"   -> "in_progress"
      [] type = "task_completed" -> "completed"
      [] type = "task_blocked"   -> "blocked"
      [] type = "task_removed"   -> "absent"
      [] OTHER                   -> "pending"

LEMMA RememberTells ==
    ASSUME NEW q \in Seq(EventType), NEW type \in EventType, Memory > 0
    PROVE  Announced(Remember(q, type)) = StatusAfter(type)
<1>1. /\ Remember(q, type) # << >>
      /\ Remember(q, type)[Len(Remember(q, type))] = type
  BY RememberLast
<1> QED
  BY <1>1 DEF Announced, StatusAfter

LEMMA ReadyDepsDone ==
    ASSUME NEW s, NEW id, NEW resolved, DependenciesComplete(s, id, resolved)
    PROVE  DepsDone(s, id)
BY DEF DependenciesComplete, DepsDone, LocalDeps

\* The fields of a task that was leased or yielded.
LEMMA YieldedFields ==
    ASSUME NEW t \in Task, NEW st
    PROVE  /\ Yielded(t, st).status = st /\ Yielded(t, st).owner = NoActor
           /\ Yielded(t, st).lease = 0 /\ Yielded(t, st).deps = t.deps
BY DEF Yielded, Task

LEMMA LeasedFields ==
    ASSUME NEW t \in Task, NEW a, NEW expires
    PROVE  /\ Leased(t, a, expires).status = "in_progress"
           /\ Leased(t, a, expires).owner = a
           /\ Leased(t, a, expires).lease = expires
           /\ Leased(t, a, expires).deps = t.deps
           /\ Leased(t, a, expires).prio = t.prio
BY DEF Leased, Task

LEMMA SetTaskFields ==
    ASSUME NEW s \in Store, NEW id \in TaskId, NEW new \in Task
    PROVE  /\ OneTask(s, SetTask(s, id, new), id)
           /\ SetTask(s, id, new).task[id] = new
           /\ SetTask(s, id, new).feed = s.feed
BY DEF SetTask, Store, OneTask

LEMMA AddEventFields ==
    ASSUME NEW s \in Store, NEW id \in TaskId, NEW new \in Task, NEW type
    PROVE  /\ AddEvent(SetTask(s, id, new), id, type).task[id] = new
           /\ OneTask(s, AddEvent(SetTask(s, id, new), id, type), id)
           /\ AddEvent(SetTask(s, id, new), id, type).feed[id] = Remember(s.feed[id], type)
BY DEF SetTask, AddEvent, Store, OneTask

LEMMA ClaimEffect ==
    ASSUME NEW s, Sound(s), NEW id \in TaskId, NEW a \in Actor, NEW ttl \in Nat,
           NEW resolved, NEW t \in Nat \ {0}
    PROVE  Effect(s, ClaimTask(s, id, a, ttl, resolved, t).store, a, t)
<1> DEFINE new == Leased(s.task[id], a, t + ttl)
           u == AddEvent(SetTask(s, id, new), id, "task_claimed")
           ok == /\ Claimable(s, id)
                 /\ DependenciesComplete(s, id, resolved)
                 /\ MayTouch(s, id, a) \/ s.task[id].lease <= t
<1>1. /\ s \in Store /\ s.task[id] \in Task /\ s.task[id].lease \in Nat
      /\ s.feed[id] \in Seq(EventType) /\ "task_claimed" \in EventType
  BY DEF Sound, Store, Task, EventType
<1>2. CASE ok
  <2>1. /\ new \in Task /\ new.status = "in_progress" /\ new.owner = a
        /\ new.deps = s.task[id].deps
    BY <1>1, LeasedTask, LeasedFields
  <2> HIDE DEF new
  <2>2. /\ u.task[id] = new /\ OneTask(s, u, id)
        /\ u.feed[id] = Remember(s.feed[id], "task_claimed")
    BY <1>1, <2>1, AddEventFields
  <2>3. DepsDone(s, id) /\ s.task[id].status \notin {"absent", "completed"}
    BY <1>2, ReadyDepsDone DEF Claimable
  <2>4. s.task[id].owner \in {NoActor, a} \/ ~(s.task[id].lease > t)
    BY <1>1, <1>2 DEF MayTouch
  <2>5. ClaimTask(s, id, a, ttl, resolved, t).store = u
    BY <1>2 DEF ClaimTask, Guarded, Outcome, new
  <2>6. Memory > 0 => Announced(u.feed[id]) = u.task[id].status
    BY <1>1, <2>1, <2>2, RememberTells DEF StatusAfter
  <2> HIDE DEF u
  <2> QED
    BY <2>1, <2>2, <2>3, <2>4, <2>5, <2>6, OneTaskEffect DEF Starts
<1>3. CASE ~ok
  BY <1>3, SameTasksEffect DEF ClaimTask, Guarded, Outcome
<1> QED
  BY <1>2, <1>3

\* Every operation that only yields the lease of a task its caller may touch.
LEMMA YieldEffect ==
    ASSUME NEW s, Sound(s), NEW id \in TaskId, NEW b, NEW t, NEW charged \in Task,
           charged.deps = s.task[id].deps, NEW type \in EventType,
           NEW st \in {"pending", "completed", "blocked"}, st = StatusAfter(type),
           s.task[id].status \notin {"absent", "completed"},
           MayTouch(s, id, b),
           st = "completed" => DepsDone(s, id)
    PROVE  Effect(s, AddEvent(SetTask(s, id, Yielded(charged, st)), id, type), b, t)
<1> DEFINE new == Yielded(charged, st)
           u == AddEvent(SetTask(s, id, new), id, type)
<1>1. /\ new \in Task /\ new.status = st /\ new.owner = NoActor
      /\ new.deps = s.task[id].deps
  BY YieldedTask, YieldedFields DEF Status
<1> HIDE DEF new
<1>2. /\ u.task[id] = new /\ OneTask(s, u, id)
      /\ u.feed[id] = Remember(s.feed[id], type)
  <2>1. s \in Store
    BY DEF Sound
  <2> QED
    BY <1>1, <2>1, AddEventFields
<1> HIDE DEF u
<1>3. Memory > 0 => Announced(u.feed[id]) = st
  BY <1>2, RememberTells DEF Sound, Store
<1>4. Effect(s, u, b, t)
  BY <1>1, <1>2, <1>3, OneTaskEffect DEF MayTouch, Starts
<1> QED
  BY <1>4 DEF u, new

LEMMA CompleteEffect ==
    ASSUME NEW s, Sound(s), NEW id \in TaskId, NEW a, NEW resolved, NEW t
    PROVE  Effect(s, CompleteTask(s, id, a, resolved).store, a, t)
<1> DEFINE ok == /\ s.task[id].status \notin {"absent", "completed"}
                 /\ DependenciesComplete(s, id, resolved)
                 /\ MayTouch(s, id, a)
<1>1. s.task[id] \in Task
  BY DEF Sound, Store
<1>2. CASE ok
  BY <1>1, <1>2, YieldEffect, ReadyDepsDone
     DEF CompleteTask, Guarded, Outcome, EventType, StatusAfter
<1>3. CASE ~ok
  BY <1>3, SameTasksEffect DEF CompleteTask, Guarded, Outcome
<1> QED
  BY <1>2, <1>3

\* Recording a failure changes the retry count and the error only.
LEMMA ChargedTask ==
    ASSUME NEW t \in Task, NEW failure \in Failure \cup {NoFailure}
    PROVE  LET charged == [t EXCEPT !.retries = IF @ < RetryCap THEN @ + 1 ELSE @,
                                    !.error = IF failure # NoFailure THEN failure ELSE @]
           IN  charged \in Task /\ charged.deps = t.deps
<1>1. t.retries \in 0..RetryCap /\ t.error \in Failure \cup {NoFailure}
  BY DEF Task
<1>2. (IF t.retries < RetryCap THEN t.retries + 1 ELSE t.retries) \in 0..RetryCap
  BY <1>1, CountsAssumption
<1>3. (IF failure # NoFailure THEN failure ELSE t.error) \in Failure \cup {NoFailure}
  BY <1>1
<1> QED
  BY <1>2, <1>3 DEF Task

LEMMA ReleaseEffect ==
    ASSUME NEW s, Sound(s), NEW id \in TaskId, NEW a,
           NEW failure \in Failure \cup {NoFailure}, NEW now0
    PROVE  Effect(s, ReleaseTask(s, id, a, failure).store, a, now0)
<1> DEFINE t == s.task[id]
           charged == [t EXCEPT !.retries = IF @ < RetryCap THEN @ + 1 ELSE @,
                                !.error = IF failure # NoFailure THEN failure ELSE @]
           ok == t.status = "in_progress" /\ MayTouch(s, id, a)
<1>1. t \in Task
  BY DEF Sound, Store
<1>2. charged \in Task /\ charged.deps = t.deps
  BY <1>1, ChargedTask
<1>3. CASE ok
  <2> HIDE DEF charged
  <2>1. Effect(s, AddEvent(SetTask(s, id, Yielded(charged, "pending")),
                           id, "task_released"), a, now0)
    BY <1>2, <1>3, YieldEffect DEF EventType, StatusAfter
  <2> QED
    BY <1>3, <2>1 DEF ReleaseTask, Guarded, Outcome, charged
<1>4. CASE ~ok
  BY <1>4, SameTasksEffect DEF ReleaseTask, Guarded, Outcome
<1> QED
  BY <1>3, <1>4

\* Two callbacks after each other, when the second takes no receipt, keeps
\* the edges and undoes no completion.
LEMMA EffectsCompose ==
    ASSUME NEW s, Sound(s), NEW u, NEW w, NEW b, NEW t, s.nextID \in Nat,
           u.nextID \in Nat, w.nextID \in Nat,
           Effect(s, u, b, t), Effect(u, w, b, t),
           u.receipt = s.receipt, w.receipt = s.receipt,
           \A id \in TaskId :
               /\ w.task[id].deps = u.task[id].deps
               /\ u.task[id].status = "completed" => w.task[id].status = "completed"
    PROVE  Effect(s, w, b, t)
<1>1. Lasting(s, w)
  <2>1. \A id \in TaskId : s.task[id].status = "completed" => id < s.nextID
    BY DEF Sound, Rooted, Present
  <2> QED
    BY <2>1 DEF Effect, Lasting, TaskId
<1>2. Spared(s, w, b, t)
  BY DEF Effect, Spared
<1>3. ASSUME NEW id \in TaskId, Starts(s, w, id) PROVE DepsDone(w, id)
  <2>1. CASE Starts(u, w, id)
    BY <2>1 DEF Effect
  <2>2. CASE ~Starts(u, w, id)
    <3>1. Starts(s, u, id)
      BY <1>3, <2>2 DEF Starts
    <3>2. DepsDone(u, id)
      BY <3>1 DEF Effect
    <3> QED
      BY <3>2 DEF DepsDone, LocalDeps
  <2> QED
    BY <2>1, <2>2
<1>4. BestGranted(s, w)
  BY DEF BestGranted
<1> QED
  BY <1>1, <1>2, <1>3, <1>4 DEF Effect

\* What completing and releasing a task leave alone.
LEMMA YieldKeeps ==
    ASSUME NEW s \in Store, NEW id \in TaskId, NEW charged \in Task,
           charged.deps = s.task[id].deps, NEW type,
           NEW st \in {"pending", "completed"}, s.task[id].status # "completed"
    PROVE  LET u == AddEvent(SetTask(s, id, Yielded(charged, st)), id, type)
           IN  /\ u.receipt = s.receipt
               /\ \A x \in TaskId :
                   /\ u.task[x].deps = s.task[x].deps
                   /\ s.task[x].status = "completed" => u.task[x].status = "completed"
<1> DEFINE new == Yielded(charged, st)
           u == AddEvent(SetTask(s, id, new), id, type)
<1>1. new \in Task /\ new.deps = s.task[id].deps
  BY YieldedTask DEF Status
<1> HIDE DEF new
<1>2. u.task[id] = new /\ OneTask(s, u, id)
  BY <1>1, AddEventFields
<1> HIDE DEF u
<1>3. /\ u.receipt = s.receipt
      /\ \A x \in TaskId :
          /\ u.task[x].deps = s.task[x].deps
          /\ s.task[x].status = "completed" => u.task[x].status = "completed"
  BY <1>1, <1>2 DEF OneTask
<1> QED
  BY <1>3 DEF u, new

LEMMA CompleteKeeps ==
    ASSUME NEW s \in Store, NEW id \in TaskId, NEW a, NEW resolved
    PROVE  LET u == CompleteTask(s, id, a, resolved).store
           IN  /\ u.receipt = s.receipt
               /\ \A x \in TaskId :
                   /\ u.task[x].deps = s.task[x].deps
                   /\ s.task[x].status = "completed" => u.task[x].status = "completed"
<1>1. s.task[id] \in Task
  BY DEF Store
<1>2. CASE s.task[id].status = "completed"
  BY <1>2 DEF CompleteTask, Guarded, Outcome
<1>3. CASE s.task[id].status # "completed"
  BY <1>1, <1>3, YieldKeeps DEF CompleteTask, Guarded, Outcome
<1> QED
  BY <1>2, <1>3

LEMMA ReleaseKeeps ==
    ASSUME NEW s \in Store, NEW id \in TaskId, NEW a,
           NEW failure \in Failure \cup {NoFailure}
    PROVE  LET u == ReleaseTask(s, id, a, failure).store
           IN  /\ u.receipt = s.receipt
               /\ \A x \in TaskId :
                   /\ u.task[x].deps = s.task[x].deps
                   /\ s.task[x].status = "completed" => u.task[x].status = "completed"
<1> DEFINE t == s.task[id]
           charged == [t EXCEPT !.retries = IF @ < RetryCap THEN @ + 1 ELSE @,
                                !.error = IF failure # NoFailure THEN failure ELSE @]
<1>1. t \in Task
  BY DEF Store
<1>2. charged \in Task /\ charged.deps = t.deps
  BY <1>1, ChargedTask
<1>3. CASE t.status = "in_progress"
  <2> HIDE DEF charged
  <2> DEFINE u == AddEvent(SetTask(s, id, Yielded(charged, "pending")), id, "task_released")
  <2>1. /\ u.receipt = s.receipt
        /\ \A x \in TaskId :
            /\ u.task[x].deps = s.task[x].deps
            /\ s.task[x].status = "completed" => u.task[x].status = "completed"
    BY <1>2, <1>3, YieldKeeps
  <2> HIDE DEF u
  <2>2. ReleaseTask(s, id, a, failure).store \in {s, u}
    BY DEF ReleaseTask, Guarded, Outcome, charged, u
  <2> QED
    BY <2>1, <2>2
<1>4. CASE t.status # "in_progress"
  BY <1>4 DEF ReleaseTask, Guarded, Outcome
<1> QED
  BY <1>3, <1>4

LEMMA BatchEffect ==
    ASSUME NEW s, Sound(s), NEW i \in TaskId, NEW j \in TaskId, NEW a, NEW resolved,
           NEW failure \in Failure \cup {NoFailure}, NEW t
    PROVE  /\ Effect(s, CompleteBatch(s, i, j, a, resolved).store, a, t)
           /\ Effect(s, ReleaseBatch(s, i, j, a, failure).store, a, t)
<1> DEFINE u == CompleteTask(s, i, a, resolved).store
           w == CompleteTask(u, j, a, resolved).store
           x == ReleaseTask(s, i, a, failure).store
           y == ReleaseTask(x, j, a, failure).store
<1>1. Sound(u) /\ Sound(x) /\ Effect(s, u, a, t) /\ Effect(s, x, a, t)
  BY CompleteSound, ReleaseSound, CompleteEffect, ReleaseEffect
<1>2. u.receipt = s.receipt /\ x.receipt = s.receipt
  BY CompleteKeeps, ReleaseKeeps DEF Sound
<1>3. Sound(w) /\ Sound(y) /\ Effect(u, w, a, t) /\ Effect(x, y, a, t)
  <2> HIDE DEF u, x
  <2> QED
    BY <1>1, CompleteSound, ReleaseSound, CompleteEffect, ReleaseEffect
<1>4. /\ w.receipt = u.receipt
      /\ \A z \in TaskId :
          /\ w.task[z].deps = u.task[z].deps
          /\ u.task[z].status = "completed" => w.task[z].status = "completed"
  <2> HIDE DEF u
  <2> QED
    BY <1>1, CompleteKeeps DEF Sound
<1>5. /\ y.receipt = x.receipt
      /\ \A z \in TaskId :
          /\ y.task[z].deps = x.task[z].deps
          /\ x.task[z].status = "completed" => y.task[z].status = "completed"
  <2> HIDE DEF x
  <2> QED
    BY <1>1, ReleaseKeeps DEF Sound
<1>6. /\ CompleteBatch(s, i, j, a, resolved).store \in {u, w}
      /\ ReleaseBatch(s, i, j, a, failure).store \in {x, y}
  BY DEF CompleteBatch, ReleaseBatch
<1> HIDE DEF u, w, x, y
<1>7. \A z \in {s, u, w, x, y} : z.nextID \in Nat
  BY <1>1, <1>3, CountsAssumption DEF Sound, Store
<1>8. Effect(s, w, a, t) /\ Effect(s, y, a, t)
  BY <1>1, <1>2, <1>3, <1>4, <1>5, <1>7, EffectsCompose
<1> QED
  BY <1>1, <1>6, <1>8

LEMMA BlockEffect ==
    ASSUME NEW s, Sound(s), NEW id \in TaskId, NEW a, NEW t
    PROVE  /\ Effect(s, BlockTask(s, id, a).store, a, t)
           /\ Effect(s, UnblockTask(s, id).store, a, t)
<1>1. s.task[id] \in Task /\ LeaseWhole(s.task[id])
  BY DEF Sound, Store
<1>2. Effect(s, BlockTask(s, id, a).store, a, t)
  <2> DEFINE ok == s.task[id].status \notin {"absent", "completed"} /\ MayTouch(s, id, a)
  <2>1. CASE ok
    <3>1. Effect(s, AddEvent(SetTask(s, id, Yielded(s.task[id], "blocked")),
                             id, "task_blocked"), a, t)
      BY <1>1, <2>1, YieldEffect DEF EventType, StatusAfter
    <3> QED
      BY <2>1, <3>1 DEF BlockTask, Guarded, Outcome
  <2>2. CASE ~ok
    BY <2>2, SameTasksEffect DEF BlockTask, Guarded, Outcome
  <2> QED
    BY <2>1, <2>2
<1>3. CASE s.task[id].status = "blocked"
  <2>1. MayTouch(s, id, a)
    BY <1>1, <1>3 DEF LeaseWhole, MayTouch
  <2>2. Effect(s, AddEvent(SetTask(s, id, Yielded(s.task[id], "pending")),
                           id, "task_unblocked"), a, t)
    BY <1>1, <1>3, <2>1, YieldEffect DEF EventType, StatusAfter
  <2> QED
    BY <1>2, <1>3, <2>2 DEF UnblockTask, Guarded, Outcome
<1>4. CASE s.task[id].status # "blocked"
  BY <1>2, <1>4, SameTasksEffect DEF UnblockTask, Guarded, Outcome
<1> QED
  BY <1>2, <1>3, <1>4

LEMMA RenewEffect ==
    ASSUME NEW s, Sound(s), NEW id \in TaskId, NEW a, NEW ttl \in Nat,
           NEW t \in Nat \ {0}
    PROVE  Effect(s, RenewLease(s, id, a, ttl, t).store, a, t)
<1> DEFINE new == [s.task[id] EXCEPT !.lease = t + ttl]
           u == SetTask(s, id, new)
           ok == LeaseActive(s, id, t) /\ s.task[id].owner = a
<1>1. CASE ok
  <2>1. s.task[id] \in Task /\ s.task[id].status = "in_progress" /\ s \in Store
    BY <1>1 DEF Sound, Store, LeaseActive
  <2>2. new \in Task /\ new.status = "in_progress" /\ new.owner = s.task[id].owner
    BY <2>1 DEF Task
  <2>3. RenewLease(s, id, a, ttl, t).store = u
    BY <1>1 DEF RenewLease, Guarded, Outcome
  <2> HIDE DEF new
  <2>4. u.task[id] = new /\ OneTask(s, u, id) /\ u.feed = s.feed
    BY <2>1, <2>2, SetTaskFields
  <2> HIDE DEF u
  <2> QED
    BY <1>1, <2>1, <2>2, <2>3, <2>4, OneTaskEffect DEF Starts
<1>2. CASE ~ok
  BY <1>2, SameTasksEffect DEF RenewLease, Guarded, Outcome
<1> QED
  BY <1>1, <1>2

LEMMA HandoffEffect ==
    ASSUME NEW s, Sound(s), NEW id \in TaskId, NEW a, NEW fits, NEW t
    PROVE  Effect(s, HandoffTask(s, id, a, fits, t).store, a, t)
<1>1. s.task[id] \in Task
  BY DEF Sound, Store
<1>2. CASE LeaseActive(s, id, t) /\ s.task[id].owner = a /\ fits
  <2>1. Effect(s, AddEvent(SetTask(s, id, Yielded(s.task[id], "pending")),
                           id, "task_released"), a, t)
    BY <1>1, <1>2, YieldEffect DEF EventType, StatusAfter, MayTouch, LeaseActive
  <2> QED
    BY <1>2, <2>1 DEF HandoffTask, Guarded, Outcome
<1>3. CASE ~(LeaseActive(s, id, t) /\ s.task[id].owner = a /\ fits)
  BY <1>3, SameTasksEffect DEF HandoffTask, Guarded, Outcome
<1> QED
  BY <1>2, <1>3

\* A callback that starts no work and grants nothing.
LEMMA QuietEffect ==
    ASSUME NEW s, NEW u, NEW b, NEW t, Lasting(s, u), Spared(s, u, b, t),
           \A id \in TaskId : ~Starts(s, u, id),
           \A r \in RequestId : u.receipt[r] \in {s.receipt[r], NoReceipt},
           Backed(s) => Backed(u), Bare(s) => Bare(u),
           Memory > 0 /\ Told(s) => Told(u)
    PROVE  Effect(s, u, b, t)
<1>1. BestGranted(s, u)
  BY DEF BestGranted
<1> QED
  BY <1>1 DEF Effect

\* IDs from nextID up are free.
LEMMA FreeIds ==
    ASSUME NEW s, Sound(s)
    PROVE  /\ s.nextID \in Nat
           /\ \A x \in TaskId : x \in Nat /\ (s.nextID <= x => s.task[x].status = "absent")
           /\ \A x \in TaskId : s.nextID <= x => s.task[x].owner = NoActor
<1>1. s.nextID \in Nat /\ \A x \in TaskId : x \in Nat
  BY CountsAssumption DEF Sound, Store, TaskId
<1>2. \A x \in TaskId : s.nextID <= x => s.task[x].status = "absent"
  BY <1>1 DEF Sound, Rooted, Present
<1> QED
  BY <1>1, <1>2 DEF Sound, LeaseWhole

\* A new task is pending and announced as such.
LEMMA CreateEffect ==
    ASSUME NEW s, Sound(s), s.nextID <= MaxTasks,
           NEW deps \in SUBSET Reference, NEW caps \in SUBSET Capability,
           NEW prio \in Priority, NEW b, NEW t
    PROVE  Effect(s, CreateTask(s, deps, caps, prio).store, b, t)
<1> DEFINE n == s.nextID
           e == [Edges(s) EXCEPT ![n] = deps]
           new == [NoTask EXCEPT !.status = "pending", !.deps = deps,
                                 !.caps = caps, !.prio = prio]
           u == AddEvent(AddTask(s, deps, caps, prio), n, "task_created")
           ok == deps \subseteq Present(s) \cup Remote /\ ~DetectCycle(e)
<1>1. CASE ok
  <2>1. /\ n \in TaskId /\ n \in Nat /\ s.task \in [TaskId -> Task]
        /\ s.feed \in [TaskId -> Seq(EventType)] /\ "task_created" \in EventType
    BY CountsAssumption DEF Sound, Store, TaskId, EventType
  <2>2. new.status = "pending" /\ new.owner = NoActor
    BY DEF NoTask
  <2>3. /\ u.nextID = n + 1 /\ u.receipt = s.receipt
        /\ \A x \in TaskId : u.task[x] = IF x = n THEN new ELSE s.task[x]
        /\ \A x \in TaskId : u.feed[x] = IF x = n THEN Remember(s.feed[n], "task_created")
                                         ELSE s.feed[x]
    <3> HIDE DEF new
    <3>1. AddTask(s, deps, caps, prio) = [s EXCEPT !.task[n] = new, !.nextID = n + 1]
      BY DEF AddTask, new
    <3> QED
      BY <2>1, <3>1 DEF AddEvent, Sound, Store
  <2>4. CreateTask(s, deps, caps, prio).store = u
    BY <1>1 DEF CreateTask, Guarded, Outcome
  <2> HIDE DEF u, new, n
  <2>5. s.task[n].status = "absent" /\ s.task[n].owner = NoActor
    BY <2>1, FreeIds DEF n
  <2>6. Lasting(s, u)
    BY <2>1, <2>3, <2>5 DEF Lasting, n
  <2>7. Spared(s, u, b, t)
    BY <2>3, <2>5 DEF Spared
  <2>8. \A x \in TaskId : ~Starts(s, u, x)
    BY <2>2, <2>3 DEF Starts
  <2>9. (Backed(s) => Backed(u)) /\ (Bare(s) => Bare(u))
    BY <2>2, <2>3 DEF Backed, Bare, Present
  <2>10. ASSUME Memory > 0, Told(s) PROVE Told(u)
    <3>1. Announced(u.feed[n]) = "pending"
      BY <2>1, <2>3, <2>10, RememberTells DEF StatusAfter
    <3>2. \A x \in Present(u) : Announced(u.feed[x]) = u.task[x].status
      BY <2>2, <2>3, <2>10, <3>1 DEF Told, Present
    <3>3. \A x \in TaskId : u.nextID <= x => u.feed[x] = << >>
      BY <2>1, <2>3, <2>10, FreeIds DEF Told, n
    <3> QED
      BY <3>2, <3>3 DEF Told
  <2>11. Effect(s, u, b, t)
    BY <2>3, <2>6, <2>7, <2>8, <2>9, <2>10, QuietEffect
  <2> QED
    BY <2>4, <2>11
<1>2. CASE ~ok
  BY <1>2, SameTasksEffect DEF CreateTask, Guarded, Outcome
<1> QED
  BY <1>1, <1>2

\* An update, also one that fails half-way, changes neither status nor lease.
LEMMA UpdateEffect ==
    ASSUME NEW s, Sound(s), NEW id \in TaskId, NEW a,
           NEW add \in SUBSET Reference, NEW drop \in SUBSET Reference,
           NEW caps \in SUBSET Capability, NEW prio \in Priority, NEW fits, NEW b, NEW t
    PROVE  Effect(s, UpdateTask(s, id, a, add, drop, caps, prio, fits).store, b, t)
<1> DEFINE old == s.task[id].deps
           new == (old \ drop) \cup add
           edit == [s.task[id] EXCEPT !.deps = new]
           edited == IF add \cup drop = {} THEN Outcome(TRUE, s)
                     ELSE EditDependencies(s, id, add, drop)
           v == edited.store
           task == [v.task[id] EXCEPT !.caps = caps, !.prio = prio]
           u == SetTask(v, id, task)
<1>1. CASE s.task[id].status # "absent"
  <2>1. s \in Store /\ s.task[id] \in Task
    BY DEF Sound, Store
  <2>2. edit \in Task /\ edit.status = s.task[id].status
        /\ edit.owner = s.task[id].owner /\ edit.lease = s.task[id].lease
    BY <2>1 DEF Task, Reference
  <2>3. v \in {s, SetTask(s, id, edit)}
    BY DEF EditDependencies, Guarded, Outcome
  <2> HIDE DEF edit
  <2>4. /\ v \in Store
        /\ v.task[id] \in Task /\ v.task[id].status = s.task[id].status
        /\ v.task[id].owner = s.task[id].owner /\ v.task[id].lease = s.task[id].lease
        /\ OneTask(s, v, id) /\ v.feed = s.feed
    <3>1. SetTask(s, id, edit) \in Store
      BY <2>1, <2>2 DEF SetTask, Store
    <3>2. OneTask(s, s, id)
      BY DEF OneTask
    <3>3. /\ SetTask(s, id, edit).task[id] = edit
          /\ OneTask(s, SetTask(s, id, edit), id) /\ SetTask(s, id, edit).feed = s.feed
      BY <2>1, <2>2, SetTaskFields
    <3>4. CASE v = s
      BY <2>1, <3>2, <3>4
    <3>5. CASE v = SetTask(s, id, edit)
      BY <2>2, <3>1, <3>3, <3>5
    <3> QED
      BY <2>3, <3>4, <3>5
  <2> HIDE DEF v
  <2>5. /\ task \in Task /\ task.status = s.task[id].status
        /\ task.owner = s.task[id].owner /\ task.lease = s.task[id].lease
    BY <2>4 DEF Task
  <2> HIDE DEF task
  <2>6. u.task[id] = task /\ OneTask(v, u, id) /\ u.feed = v.feed
    BY <2>4, <2>5, SetTaskFields
  <2> HIDE DEF u
  <2>7. OneTask(s, u, id) /\ u.feed = s.feed
    BY <2>4, <2>6 DEF OneTask
  <2>8. Effect(s, u, b, t)
    BY <1>1, <2>5, <2>6, <2>7, OneTaskEffect DEF Starts
  <2>9. UpdateTask(s, id, a, add, drop, caps, prio, fits).store \in {s, u}
    BY DEF UpdateTask, Outcome, u, task, v
  <2> QED
    BY <2>8, <2>9, SameTasksEffect
<1>2. CASE s.task[id].status = "absent"
  BY <1>2, SameTasksEffect DEF UpdateTask, Outcome
<1> QED
  BY <1>1, <1>2

\* The parent yields and returns to pending; the children are pending, and
\* nothing was said of their IDs before.
LEMMA DecomposeEffect ==
    ASSUME NEW s, Sound(s), NEW id \in TaskId, NEW a, NEW n \in Nat \ {0},
           s.nextID + n - 1 <= MaxTasks, NEW caps \in SUBSET Capability, NEW now0
    PROVE  Effect(s, DecomposeTask(s, id, a, n, caps).store, a, now0)
<1> DEFINE children == s.nextID .. (s.nextID + n - 1)
           t == s.task[id]
           new == t.deps \cup children
           child == [NoTask EXCEPT !.status = "pending", !.caps = caps]
           parent == [Yielded(t, "pending") EXCEPT !.deps = new]
           tasks == [x \in TaskId |-> IF x \in children THEN child
                                      ELSE IF x = id THEN parent ELSE s.task[x]]
           w == [s EXCEPT !.task = tasks, !.nextID = @ + n]
           u == AddEvent(w, id, "task_decomposed")
           ok == /\ t.status \notin {"absent", "completed"}
                 /\ MayTouch(s, id, a)
                 /\ Cardinality(new) <= MaxDeps
                 /\ ~DetectCycle([Edges(s) EXCEPT ![id] = new])
<1>1. /\ s.nextID \in Nat /\ t \in Task /\ s.feed \in [TaskId -> Seq(EventType)]
      /\ "task_decomposed" \in EventType
  BY CountsAssumption DEF Sound, Store, EventType
<1>2. CASE ok
  <2>1. id < s.nextID
    BY <1>2 DEF Sound, Rooted, Present
  <2>2. \A x \in TaskId : x \in children => s.nextID <= x /\ x < s.nextID + n /\ x # id
    BY <1>1, <2>1, FreeIds DEF TaskId
  <2>3. child.status = "pending" /\ child.owner = NoActor
    BY DEF NoTask
  <2>4. parent.status = "pending" /\ parent.owner = NoActor
    <3>1. /\ Yielded(t, "pending") \in Task
          /\ Yielded(t, "pending").status = "pending"
          /\ Yielded(t, "pending").owner = NoActor
      BY <1>1, YieldedTask, YieldedFields DEF Status
    <3> HIDE DEF new
    <3> QED
      BY <3>1 DEF Task
  <2> HIDE DEF child, parent, new, children, t
  <2>5. /\ u.nextID = s.nextID + n /\ u.receipt = s.receipt
        /\ \A x \in TaskId : u.task[x] = IF x \in children THEN child
                                         ELSE IF x = id THEN parent ELSE s.task[x]
        /\ \A x \in TaskId : u.feed[x] = IF x = id THEN Remember(s.feed[id], "task_decomposed")
                                         ELSE s.feed[x]
    BY <1>1 DEF AddEvent, Sound, Store
  <2>6. DecomposeTask(s, id, a, n, caps).store = u
    BY <1>2 DEF DecomposeTask, Guarded, Outcome, u, w, tasks, child, parent, new, children, t
  <2> HIDE DEF u, w, tasks
  <2>7. \A x \in TaskId : /\ x \in Nat
                          /\ s.nextID <= x => s.task[x].status = "absent"
                          /\ s.nextID <= x => s.task[x].owner = NoActor
    BY FreeIds
  <2>8. Lasting(s, u)
    <3>1. s.nextID <= u.nextID
      BY <1>1, <2>5
    <3>2. \A x \in TaskId : s.task[x].status = "completed" => u.task[x].status = "completed"
      BY <1>2, <2>2, <2>5, <2>7 DEF t
    <3>3. \A x \in TaskId : s.task[x].status = "absent" /\ x < s.nextID => x \notin children
      BY <1>1, <2>2, <2>7
    <3>4. \A x \in TaskId : s.task[x].status = "absent" /\ x < s.nextID
                              => u.task[x].status = "absent"
      BY <1>2, <2>5, <3>3 DEF t
    <3> QED
      BY <3>1, <3>2, <3>4 DEF Lasting
  <2>9. Spared(s, u, a, now0)
    BY <1>2, <2>2, <2>5, <2>7 DEF Spared, MayTouch
  <2>10. \A x \in TaskId : ~Starts(s, u, x)
    BY <2>3, <2>4, <2>5 DEF Starts
  <2>11. (Backed(s) => Backed(u)) /\ (Bare(s) => Bare(u))
    BY <2>3, <2>4, <2>5 DEF Backed, Bare, Present
  <2>12. ASSUME Memory > 0, Told(s) PROVE Told(u)
    <3>1. Announced(u.feed[id]) = "pending"
      BY <1>1, <2>5, <2>12, RememberTells DEF StatusAfter
    <3>2. \A x \in TaskId : x \in children => Announced(u.feed[x]) = "pending"
      BY <2>2, <2>5, <2>12 DEF Told, Announced
    <3>3. \A x \in Present(u) : Announced(u.feed[x]) = u.task[x].status
      BY <2>3, <2>4, <2>5, <2>12, <3>1, <3>2 DEF Told, Present
    <3>4. \A x \in TaskId : u.nextID <= x => u.feed[x] = << >>
      <4> SUFFICES ASSUME NEW x \in TaskId, u.nextID <= x PROVE u.feed[x] = << >>
        OBVIOUS
      <4>1. x # id /\ s.nextID <= x
        BY <1>1, <2>1, <2>5, <2>7
      <4> QED
        BY <2>5, <2>12, <4>1 DEF Told
    <3> QED
      BY <3>3, <3>4 DEF Told
  <2>13. Effect(s, u, a, now0)
    BY <2>5, <2>8, <2>9, <2>10, <2>11, <2>12, QuietEffect
  <2> QED
    BY <2>6, <2>13
<1>3. CASE ~ok
  BY <1>3, SameTasksEffect DEF DecomposeTask, Guarded, Outcome
<1> QED
  BY <1>2, <1>3


\* Removing tasks nobody holds from a store whose other tasks have kept status,
\* lease and feed.
LEMMA WithoutEffect ==
    ASSUME NEW s, Sound(s), NEW v \in Store, NEW R \in SUBSET Present(s), NEW b, NEW t,
           v.nextID = s.nextID, v.receipt = s.receipt,
           \A id \in R : s.task[id].owner = NoActor,
           \A id \in TaskId \ R :
               /\ v.task[id].status = s.task[id].status
               /\ v.task[id].owner = s.task[id].owner
               /\ v.task[id].lease = s.task[id].lease
               /\ v.task[id].deps \subseteq s.task[id].deps
               /\ v.feed[id] = s.feed[id]
    PROVE  Effect(s, Without(v, R), b, t)
<1> DEFINE u == Without(v, R)
<1>1. /\ u.nextID = s.nextID
      /\ \A x \in TaskId : u.feed[x] = v.feed[x]
      /\ \A x \in TaskId : u.task[x] = IF x \in R THEN NoTask ELSE v.task[x]
      /\ \A r \in RequestId :
           u.receipt[r] = IF s.receipt[r] # NoReceipt /\ s.receipt[r].id \in R
                          THEN NoReceipt ELSE s.receipt[r]
  BY DEF Without, Store
<1> HIDE DEF u
<1>2. NoTask.status = "absent" /\ NoTask.owner = NoActor /\ NoTask.deps = {}
  BY DEF NoTask
<1>3. /\ s.nextID \in Nat
      /\ \A x \in TaskId : x \in Nat /\ (s.nextID <= x => x \notin R)
  BY FreeIds DEF Present
<1>4. Lasting(s, u)
  BY <1>1, <1>2, <1>3 DEF Lasting
<1>5. Spared(s, u, b, t)
  BY <1>1 DEF Spared
<1>6. \A x \in TaskId : ~Starts(s, u, x)
  BY <1>1, <1>2 DEF Starts
<1>7. ASSUME Backed(s) PROVE Backed(u)
  <2> SUFFICES ASSUME NEW r \in RequestId, u.receipt[r] # NoReceipt
               PROVE  u.receipt[r].id \in Present(u)
    BY DEF Backed
  <2>1. u.receipt[r] = s.receipt[r] /\ s.receipt[r].id \in Present(s) \ R
    BY <1>1, <1>7 DEF Backed
  <2> QED
    BY <1>1, <2>1 DEF Present
<1>8. Bare(s) => Bare(u)
  BY <1>1, <1>2 DEF Bare
<1>9. ASSUME Told(s) PROVE Told(u)
  BY <1>1, <1>2, <1>3, <1>9 DEF Told, Present
<1> QED
  BY <1>1, <1>4, <1>5, <1>6, <1>7, <1>8, <1>9, QuietEffect DEF u

LEMMA RemoveEffect ==
    ASSUME NEW s, Sound(s), NEW R \in SUBSET TaskId, NEW b, NEW t
    PROVE  Effect(s, RemoveTasks(s, R).store, b, t)
<1> DEFINE v == [s EXCEPT !.feed = [id \in TaskId |->
                    IF id \in R THEN Remember(s.feed[id], "task_removed")
                    ELSE s.feed[id]]]
           ok == /\ R \subseteq Present(s)
                 /\ \A id \in R : ~(s.task[id].status = "in_progress"
                                    /\ s.task[id].owner # NoActor)
                 /\ \A id \in TaskId \ R : s.task[id].deps \cap R = {}
<1>1. s.feed \in [TaskId -> Seq(EventType)] /\ "task_removed" \in EventType
  BY DEF Sound, Store, EventType
<1>2. /\ v \in Store /\ v.task = s.task /\ v.nextID = s.nextID /\ v.receipt = s.receipt
      /\ \A id \in TaskId \ R : v.feed[id] = s.feed[id]
  BY <1>1, RememberType DEF Sound, Store
<1>3. CASE ok
  <2> HIDE DEF v
  <2>1. \A id \in R : s.task[id].owner = NoActor
    BY <1>3 DEF Sound, LeaseWhole
  <2>2. Effect(s, Without(v, R), b, t)
    BY <1>2, <1>3, <2>1, WithoutEffect
  <2> QED
    BY <1>3, <2>2 DEF RemoveTasks, Guarded, Outcome, v
<1>4. CASE ~ok
  BY <1>4, SameTasksEffect DEF RemoveTasks, Guarded, Outcome
<1> QED
  BY <1>3, <1>4

LEMMA PruneEffect ==
    ASSUME NEW s, Sound(s), NEW b, NEW t
    PROVE  Effect(s, PruneCompletedTasks(s).store, b, t)
<1> DEFINE done == {id \in TaskId : s.task[id].status = "completed"}
           v == CutEdges(s, done)
<1>1. s.task \in [TaskId -> Task]
  BY DEF Sound, Store
<1>2. \A id \in TaskId : [s.task[id] EXCEPT !.deps = @ \ done] \in Task
  BY <1>1 DEF Task
<1>3. /\ v \in Store /\ v.nextID = s.nextID /\ v.receipt = s.receipt /\ v.feed = s.feed
      /\ v.task = [id \in TaskId |-> [s.task[id] EXCEPT !.deps = @ \ done]]
  BY <1>2 DEF CutEdges, Sound, Store
<1> HIDE DEF v
<1>4. \A id \in TaskId : /\ v.task[id].status = s.task[id].status
                         /\ v.task[id].deps \subseteq s.task[id].deps
                         /\ v.task[id].owner = s.task[id].owner
                         /\ v.task[id].lease = s.task[id].lease
  BY <1>1, <1>3 DEF Task
<1>5. done \subseteq Present(s) /\ \A id \in done : s.task[id].owner = NoActor
  BY DEF Present, Sound, LeaseWhole
<1> HIDE DEF done
<1>6. Effect(s, Without(v, done), b, t)
  BY <1>3, <1>4, <1>5, WithoutEffect
<1> QED
  BY <1>6 DEF PruneCompletedTasks, Outcome, v, done

\* A grant goes to a ready task, and every other ready task is ranked after it.
LEMMA AcquireEffect ==
    ASSUME NEW s, Sound(s), NEW rid \in RequestId,
           NEW a \in Actor, NEW ttl \in Nat, NEW caps \in SUBSET Capability,
           NEW maxLoad, NEW resolved, NEW t \in Nat \ {0}
    PROVE  LET req == [actor |-> a, ttl |-> ttl, caps |-> caps]
           IN  Effect(s, AcquireTask(s, rid, req, maxLoad, resolved, t).store, a, t)
<1> DEFINE req == [actor |-> a, ttl |-> ttl, caps |-> caps]
           ready == ReadyTasks(s, req.caps, resolved)
           first == CHOOSE id \in ready : \A j \in ready \ {id} : RankedBefore(s, id, j)
           new == Leased(s.task[first], req.actor, t + req.ttl)
           w == AddEvent(SetTask(s, first, new), first, "task_claimed")
           receipt == [req |-> req, id |-> first, lease |-> t + req.ttl, created |-> t]
           u == [w EXCEPT !.receipt[rid] = receipt]
           granted == ~Answered(s, rid) /\ ~AtCapacity(s, req.actor, maxLoad)
                      /\ ready # {}
<1>1. CASE granted
  <2>1. ready \in SUBSET TaskId /\ s \in Store
    BY DEF ReadyTasks, Sound
  <2>2. first \in ready /\ \A j \in ready \ {first} : RankedBefore(s, first, j)
    BY <1>1, <2>1, BestExists
  <2> HIDE DEF first
  <2>3. /\ first \in TaskId /\ s.task[first] \in Task
        /\ s.task[first].status = "pending"
        /\ s.feed[first] \in Seq(EventType) /\ "task_claimed" \in EventType
    BY <2>1, <2>2 DEF ReadyTasks, Store, EventType
  <2>4. DepsDone(s, first) /\ s.task[first].owner = NoActor
    <3>1. DepsDone(s, first)
      BY <2>2, ReadyDepsDone DEF ReadyTasks
    <3>2. LeaseWhole(s.task[first])
      BY <2>3 DEF Sound
    <3> QED
      BY <2>3, <3>1, <3>2 DEF LeaseWhole
  <2>5. req.actor = a /\ req.ttl = ttl /\ req.caps = caps /\ t + ttl \in Nat \ {0}
    OBVIOUS
  <2>6. /\ new \in Task /\ new.status = "in_progress" /\ new.owner = a
        /\ new.deps = s.task[first].deps /\ new.prio = s.task[first].prio
    BY <2>3, <2>5, LeasedTask, LeasedFields
  <2> HIDE DEF req, new
  <2>7. /\ w.task[first] = new /\ OneTask(s, w, first)
        /\ w.feed[first] = Remember(s.feed[first], "task_claimed")
    BY <2>1, <2>3, <2>6, AddEventFields
  <2>8. Memory > 0 => Announced(w.feed[first]) = "in_progress"
    BY <2>3, <2>7, RememberTells DEF StatusAfter
  <2>9. Effect(s, w, a, t)
    BY <2>3, <2>4, <2>6, <2>7, <2>8, OneTaskEffect DEF Starts
  <2>10. Sound(w)
    BY <2>3, <2>5, <2>6, SetTaskSound, AddEventSound, LeasedTask DEF new, Present
  <2>11. receipt.id = first /\ receipt.req = req
    OBVIOUS
  <2>12. /\ u.task = w.task /\ u.nextID = w.nextID /\ u.feed = w.feed
         /\ \A r \in RequestId : u.receipt[r] = IF r = rid THEN receipt ELSE s.receipt[r]
    BY <2>7, <2>10 DEF Sound, Store, OneTask
  <2>13. AcquireTask(s, rid, req, maxLoad, resolved, t).store = u
    BY <1>1 DEF AcquireTask, Outcome, u, w, receipt, first, new
  <2> HIDE DEF u, w, receipt
  <2>14. Lasting(s, u) /\ Spared(s, u, a, t)
         /\ \A id \in TaskId : Starts(s, u, id) => DepsDone(u, id)
    BY <2>9, <2>12 DEF Effect, Lasting, Spared, Starts, DepsDone, LocalDeps
  <2>15. BestGranted(s, u)
    <3> SUFFICES ASSUME NEW r \in RequestId, NEW id \in TaskId,
                        s.receipt[r] = NoReceipt, u.receipt[r] # NoReceipt,
                        u.task[id].status = "pending",
                        u.task[id].caps \subseteq u.receipt[r].req.caps,
                        u.task[id].deps \subseteq
                            {d \in TaskId : u.task[d].status = "completed"}
                 PROVE  \/ u.task[id].prio < u.task[u.receipt[r].id].prio
                        \/ /\ u.task[id].prio = u.task[u.receipt[r].id].prio
                           /\ id > u.receipt[r].id
      BY DEF BestGranted
    <3>1. r = rid /\ u.receipt[r].id = first /\ u.receipt[r].req = req
      BY <2>11, <2>12
    <3>2. id # first /\ \A x \in TaskId \ {first} : u.task[x] = s.task[x]
      BY <2>6, <2>7, <2>12 DEF OneTask
    <3>3. \A d \in s.task[id].deps : d \in TaskId /\ s.task[d].status = "completed"
      BY <2>6, <2>7, <2>12, <3>2
    <3>4. id \in ready
      BY <3>1, <3>2, <3>3 DEF ReadyTasks, DependenciesComplete
    <3>5. RankedBefore(s, first, id)
      BY <2>2, <3>2, <3>4
    <3>6. u.task[first].prio = s.task[first].prio
      BY <2>6, <2>7, <2>12
    <3>7. \A x \in TaskId : x \in Nat /\ s.task[x].prio \in Nat
      BY <2>1, CountsAssumption DEF Store, Task, Priority, TaskId
    <3> QED
      BY <2>3, <3>1, <3>2, <3>5, <3>6, <3>7 DEF RankedBefore
  <2>16. Backed(s) => Backed(u)
    <3>1. first \in Present(u)
      BY <2>3, <2>6, <2>7, <2>12 DEF Present
    <3>2. Backed(s) => Backed(w)
      BY <2>9 DEF Effect
    <3>3. Present(u) = Present(w) /\ w.receipt = s.receipt
      BY <2>7, <2>12 DEF Present, OneTask
    <3> QED
      BY <2>11, <2>12, <3>1, <3>2, <3>3 DEF Backed
  <2>17. (Memory > 0 /\ Told(s) => Told(u)) /\ (Bare(s) => Bare(u))
    BY <2>9, <2>12 DEF Effect, Told, Bare, Present
  <2>18. Effect(s, u, a, t)
    BY <2>14, <2>15, <2>16, <2>17 DEF Effect
  <2> QED
    BY <2>13, <2>18 DEF req
<1>2. CASE ~granted
  BY <1>2, SameTasksEffect DEF AcquireTask, Outcome
<1> QED
  BY <1>1, <1>2

-----------------------------------------------------------------------------
(* From callbacks to steps.                                                *)

\* What the reclaim pass does to each task.
LEMMA Reclaiming ==
    ASSUME IInv
    PROVE  /\ Reclaimed.nextID = store.nextID /\ Reclaimed.receipt = store.receipt
           /\ \A id \in TaskId :
               \/ /\ Reclaimed.task[id] = store.task[id]
                  /\ Reclaimed.feed[id] = store.feed[id]
               \/ /\ store.task[id].status = "in_progress" /\ store.task[id].lease <= now
                  /\ Reclaimed.task[id].status = "pending"
                  /\ Reclaimed.task[id].owner = NoActor
                  /\ Reclaimed.task[id].lease = 0
                  /\ Reclaimed.task[id].deps = store.task[id].deps
                  /\ Reclaimed.feed[id] = Remember(store.feed[id], "lease_expired")
<1>1. store.task \in [TaskId -> Task] /\ store \in Store
  BY DEF IInv, Sound, Store
<1>2. \A id \in TaskId : /\ Yielded(store.task[id], "pending").status = "pending"
                         /\ Yielded(store.task[id], "pending").owner = NoActor
                         /\ Yielded(store.task[id], "pending").lease = 0
                         /\ Yielded(store.task[id], "pending").deps = store.task[id].deps
  BY <1>1, YieldedFields
<1> QED
  BY <1>1, <1>2 DEF Reclaimed, CleanExpiredLeases, Expired, LeaseIsExpired, Store

\* The feeds and receipts survive the reclaim pass.
LEMMA ReclaimedFaith ==
    ASSUME IInv
    PROVE  /\ Backed(store) => Backed(Reclaimed)
           /\ Bare(store) => Bare(Reclaimed)
           /\ Memory > 0 /\ Told(store) => Told(Reclaimed)
<1> USE Reclaiming
<1>1. Present(Reclaimed) = Present(store)
  BY DEF Present
<1>2. (Backed(store) => Backed(Reclaimed)) /\ (Bare(store) => Bare(Reclaimed))
  BY <1>1 DEF Backed, Bare
<1>3. ASSUME Memory > 0, Told(store) PROVE Told(Reclaimed)
  <2>1. \A id \in TaskId : Announced(Remember(store.feed[id], "lease_expired")) = "pending"
    BY <1>3, RememberTells DEF IInv, Sound, Store, EventType, StatusAfter
  <2>2. \A id \in Present(Reclaimed) :
            Announced(Reclaimed.feed[id]) = Reclaimed.task[id].status
    BY <1>1, <1>3, <2>1 DEF Told, Present
  <2>3. ASSUME NEW id \in TaskId, Reclaimed.nextID <= id
        PROVE  Reclaimed.feed[id] = << >>
    <3>1. store.task[id].status = "absent"
      BY <2>3, FreeIds DEF IInv
    <3> QED
      BY <1>3, <2>3, <3>1 DEF Told
  <2> QED
    BY <2>2, <2>3 DEF Told
<1> QED
  BY <1>2, <1>3

\* A callback runs on the reclaimed store, but its effect can be told from the
\* committed one: the reclaim pass starts no work and takes no running lease.
LEMMA EffectFromStore ==
    ASSUME IInv, NEW u, NEW b, NEW at \in Later, Effect(Reclaimed, u, b, at)
    PROVE  Effect(store, u, b, at)
<1> USE Reclaiming
<1>0. /\ now \in Nat /\ at \in Nat /\ now <= at
      /\ \A id \in TaskId : store.task[id].lease \in Nat
  BY BoardAssumption DEF IInv, Later, Sound, Store, Task
<1>1. Lasting(store, u)
  BY DEF Effect, Lasting
<1>2. Spared(store, u, b, at)
  BY <1>0 DEF Effect, Spared
<1>3. \A id \in TaskId : Starts(store, u, id) => Starts(Reclaimed, u, id)
  BY DEF Starts
<1>4. BestGranted(store, u)
  BY DEF Effect, BestGranted
<1> QED
  BY <1>1, <1>2, <1>3, <1>4, ReclaimedFaith DEF Effect

\* What store.Update writes has the effect of the callback, or none.
LEMMA TransactEffect ==
    ASSUME IInv, NEW o, NEW b, NEW at \in Later, Effect(Reclaimed, o.store, b, at),
           Transact(o, at)
    PROVE  Effect(store, store', b, now')
<1>1. Effect(store, store, b, at)
  BY SameTasksEffect DEF IInv
<1> QED
  BY <1>1, EffectFromStore DEF Transact, Committed

LEMMA CallEffect ==
    ASSUME IInv, NEW a \in Caller, CallOf(a)
    PROVE  Effect(store, store', a, now')
<1> USE ReclaimedSound
<1>1. CASE a # NoActor /\ LeaseCall(a)
  <2>0. a \in Actor /\ TTL \subseteq Nat
    BY <1>1, BoardAssumption DEF Caller
  <2>1. PICK id \in TaskId, at \in Later :
          \/ \E ttl \in TTL, resolved \in SUBSET Remote : Claim(a, id, ttl, resolved, at)
          \/ \E ttl \in TTL : Heartbeat(a, id, ttl, at)
          \/ \E fits \in BOOLEAN : Handoff(a, id, fits, at)
    BY <1>1 DEF LeaseCall
  <2>2. CASE \E ttl \in TTL, resolved \in SUBSET Remote : Claim(a, id, ttl, resolved, at)
    BY <2>0, <2>2, ClaimEffect, TransactEffect DEF Claim
  <2>3. CASE \E ttl \in TTL : Heartbeat(a, id, ttl, at)
    BY <2>0, <2>3, RenewEffect, TransactEffect DEF Heartbeat
  <2>4. CASE \E fits \in BOOLEAN : Handoff(a, id, fits, at)
    BY <2>4, HandoffEffect, TransactEffect DEF Handoff
  <2> QED
    BY <2>1, <2>2, <2>3, <2>4
<1>2. CASE a # NoActor /\ AcquireCall(a)
  <2>0. a \in Actor /\ TTL \subseteq Nat
    BY <1>2, BoardAssumption DEF Caller
  <2> QED
    BY <1>2, <2>0, AcquireEffect, TransactEffect DEF AcquireCall, Acquire
<1>3. CASE StatusCall(a)
  <2>1. PICK i \in TaskId :
          \/ \E j \in TaskId, resolved \in SUBSET Remote : Done(a, i, j, resolved)
          \/ \E j \in TaskId, failure \in Failure \cup {NoFailure} :
                 Release(a, i, j, failure)
          \/ Block(a, i)
    BY <1>3 DEF StatusCall
  <2>2. CASE \E j \in TaskId, resolved \in SUBSET Remote : Done(a, i, j, resolved)
    BY <2>2, BatchEffect, TransactEffect DEF Done
  <2>3. CASE \E j \in TaskId, failure \in Failure \cup {NoFailure} : Release(a, i, j, failure)
    BY <2>3, BatchEffect, TransactEffect DEF Release
  <2>4. CASE Block(a, i)
    BY <2>4, BlockEffect, TransactEffect DEF Block
  <2> QED
    BY <2>1, <2>2, <2>3, <2>4
<1>4. CASE EditCall(a)
  <2>1. PICK id \in TaskId, caps \in SUBSET Capability :
          \/ \E add \in Edits, drop \in Edits, prio \in Priority, fits \in BOOLEAN :
                 Update(a, id, add, drop, caps, prio, fits)
          \/ \E n \in 1..MaxChildren : Decompose(a, id, n, caps)
    BY <1>4 DEF EditCall
  <2>2. CASE \E add \in Edits, drop \in Edits, prio \in Priority, fits \in BOOLEAN :
                 Update(a, id, add, drop, caps, prio, fits)
    BY <2>2, UpdateEffect, TransactEffect DEF Update, Edits
  <2>3. CASE \E n \in 1..MaxChildren : Decompose(a, id, n, caps)
    <3>1. PICK n \in 1..MaxChildren : Decompose(a, id, n, caps)
      BY <2>3
    <3>2. n \in Nat \ {0}
      BY BoardAssumption
    <3>3. Effect(Reclaimed, DecomposeTask(Reclaimed, id, a, n, caps).store, a, now)
      BY <3>1, <3>2, DecomposeEffect DEF Decompose
    <3> QED
      BY <3>1, <3>3, TransactEffect DEF Decompose
  <2> QED
    BY <2>1, <2>2, <2>3
<1> QED
  BY <1>1, <1>2, <1>3, <1>4 DEF CallOf

\* A call that checks no owner spares every lease, whoever holds it.
LEMMA OpenCallEffect ==
    ASSUME IInv, OpenCall
    PROVE  Effect(store, store', NoActor, now')
<1> USE ReclaimedSound
<1>1. ASSUME NEW deps \in SUBSET Reference, NEW caps \in SUBSET Capability,
             NEW prio \in Priority, Add(deps, caps, prio)
      PROVE  Effect(store, store', NoActor, now')
  BY <1>1, CreateEffect, TransactEffect DEF Add
<1>2. ASSUME NEW id \in TaskId, Unblock(id)
      PROVE  Effect(store, store', NoActor, now')
  BY <1>2, BlockEffect, TransactEffect DEF Unblock
<1>3. ASSUME NEW R \in SUBSET TaskId, Remove(R)
      PROVE  Effect(store, store', NoActor, now')
  BY <1>3, RemoveEffect, TransactEffect DEF Remove
<1>4. ASSUME Prune
      PROVE  Effect(store, store', NoActor, now')
  BY <1>4, PruneEffect, TransactEffect DEF Prune
<1>5. ASSUME Query
      PROVE  Effect(store, store', NoActor, now')
  <2>1. Effect(Reclaimed, Reclaimed, NoActor, now)
    BY SameTasksEffect
  <2> QED
    BY <1>5, <2>1, EffectFromStore DEF Query
<1> QED
  BY <1>1, <1>2, <1>3, <1>4, <1>5 DEF OpenCall

\* Every step is a call, and a step that is not leaves the store alone.
LEMMA StepEffect ==
    ASSUME IInv, [Next]_vars
    PROVE  \E b \in Caller : Effect(store, store', b, now')
<1>1. NoActor \in Caller
  BY DEF Caller
<1>2. CASE UNCHANGED store
  <2>1. Effect(store, store, NoActor, now')
    BY SameTasksEffect DEF IInv
  <2> QED
    BY <1>1, <1>2, <2>1
<1> QED
  BY <1>1, <1>2, CallEffect, OpenCallEffect DEF Next, Tick, vars

-----------------------------------------------------------------------------
(* Theorems about what the agents are told.                                *)

Faith == Backed(store) /\ Bare(store) /\ (Memory > 0 => Told(store))

LEMMA FaithKept == Spec => []Faith
<1>1. Init => Faith
  <2> SUFFICES ASSUME Init PROVE Faith
    OBVIOUS
  <2>1. /\ \A r \in RequestId : store.receipt[r] = NoReceipt
        /\ \A id \in TaskId : /\ store.task[id].status = "absent"
                              /\ store.task[id].deps = {} /\ store.feed[id] = << >>
    BY DEF Init, NewTaskStore, NoTask
  <2> QED
    BY <2>1 DEF Faith, Backed, Bare, Told, Present
<1>2. IInv /\ Faith /\ [Next]_vars => Faith'
  BY StepEffect DEF Effect, Faith, Backed, Bare, Told, Present
<1> QED
  BY <1>1, <1>2, Invariance, PTL DEF Spec

(***************************************************************************)
(* A receipt outlives every change of its task but its removal: a replayed *)
(* acquire never names a task that is gone.                                *)
(***************************************************************************)
THEOREM ReceiptsStayBacked == Spec => []ReceiptsBacked
<1>1. Faith => ReceiptsBacked
  BY DEF Faith, Backed, ReceiptsBacked
<1> QED
  BY <1>1, FaithKept, PTL

(***************************************************************************)
(* The feed never disagrees with the store, as long as it remembers at     *)
(* least the last event of a task.                                         *)
(***************************************************************************)
THEOREM FeedStaysTrue ==
    ASSUME Memory > 0
    PROVE  Spec => []FeedTellsStatus
<1>1. Faith => FeedTellsStatus
  BY DEF Faith, Told, FeedTellsStatus
<1> QED
  BY <1>1, FaithKept, PTL

-----------------------------------------------------------------------------
(* Theorems about steps.                                                   *)

(***************************************************************************)
(* No call of anybody else ends an unexpired lease, whatever call it is    *)
(* and whether it succeeds.                                                *)
(***************************************************************************)
THEOREM LeasesAreSpared == Spec => HoldersKeepLeases
<1>1. ASSUME IInv, [Next]_vars
      PROVE  \A a \in Actor, id \in TaskId :
               (/\ store.task[id].owner = a
                /\ store.task[id].lease > now'
                /\ store'.task[id].owner # a)
               => ~OpenCall /\ \A b \in Caller \ {a} : ~CallOf(b)
  <2> SUFFICES ASSUME NEW a \in Actor, NEW id \in TaskId,
                      store.task[id].owner = a, store.task[id].lease > now',
                      store'.task[id].owner # a
               PROVE  ~OpenCall /\ \A b \in Caller \ {a} : ~CallOf(b)
    OBVIOUS
  <2>1. a # NoActor
    BY NamesAssumption
  <2>2. \A b \in Caller \ {a} : ~Effect(store, store', b, now')
    BY <2>1 DEF Effect, Spared
  <2>3. NoActor \in Caller \ {a}
    BY <2>1 DEF Caller
  <2> QED
    BY <1>1, <2>2, <2>3, CallEffect, OpenCallEffect
<1> QED
  BY <1>1, Invariance, PTL DEF Spec, HoldersKeepLeases

(***************************************************************************)
(* Completion is final and IDs are never reused.                           *)
(***************************************************************************)
THEOREM CompletionLasts == Spec => CompletedIsFinal
<1>1. ASSUME IInv, [Next]_vars
      PROVE  \A id \in TaskId :
               /\ store.task[id].status = "completed"
                      => store'.task[id].status \in {"completed", "absent"}
               /\ store.task[id].status = "absent" /\ id < store.nextID
                      => store'.task[id].status = "absent"
  BY <1>1, StepEffect DEF Effect, Lasting
<1> QED
  BY <1>1, Invariance, PTL DEF Spec, CompletedIsFinal

(***************************************************************************)
(* Work starts and completes only with its local prerequisites completed,  *)
(* in single calls and in batches.                                         *)
(***************************************************************************)
THEOREM WorkIsReady == Spec => WorkStartsReady
<1>1. ASSUME IInv, [Next]_vars
      PROVE  \A id \in TaskId :
               (\/ store'.task[id].owner \notin {NoActor, store.task[id].owner}
                \/ store'.task[id].status = "completed" /\ store.task[id].status # "completed")
               => \A d \in LocalDeps(store', id) : store'.task[d].status = "completed"
  BY <1>1, StepEffect DEF Effect, Starts, DepsDone
<1> QED
  BY <1>1, Invariance, PTL DEF Spec, WorkStartsReady

(***************************************************************************)
(* A heartbeat does not extend a lease that has run out by the time it     *)
(* looks at the clock, reclaimed or not.                                   *)
(***************************************************************************)
THEOREM LeasesAreNotRevived == Spec => NoRevival
<1>1. ASSUME IInv, [Next]_vars
      PROVE  \A id \in TaskId :
               (/\ store.task[id].lease # 0
                /\ store.task[id].lease <= now'
                /\ store'.task[id].lease > store.task[id].lease)
               => \A a \in Actor, ttl \in TTL : ~Heartbeat(a, id, ttl, now')
  <2> SUFFICES ASSUME NEW id \in TaskId, NEW a \in Actor, NEW ttl \in TTL,
                      store.task[id].lease <= now', Heartbeat(a, id, ttl, now')
               PROVE  ~(store'.task[id].lease > store.task[id].lease)
    OBVIOUS
  <2>1. store.task[id].lease \in Nat /\ now \in Nat
    BY <1>1 DEF IInv, Sound, Store, Task
  <2>2. /\ Reclaimed.task[id].lease \in {store.task[id].lease, 0}
        /\ ~(Reclaimed.task[id].lease > now') \/ now' \notin Int
    BY <1>1, <2>1, Reclaiming
  <2>3. now' \in Int
    BY <1>1, StepSound DEF IInv
  <2>4. RenewLease(Reclaimed, id, a, ttl, now').store = Reclaimed
    BY <2>2, <2>3 DEF RenewLease, Guarded, Outcome, LeaseActive
  <2>5. store' \in {store, Reclaimed}
    BY <2>4 DEF Heartbeat, Transact, Committed
  <2> QED
    BY <2>1, <2>2, <2>5
<1> QED
  BY <1>1, Invariance, PTL DEF Spec, NoRevival

(***************************************************************************)
(* No priority inversion: a grant is of the best ready task.               *)
(***************************************************************************)
THEOREM GrantsAreBest == Spec => AcquireTakesBest
<1>1. ASSUME IInv, [Next]_vars
      PROVE  \A r \in Granted, id \in TaskId :
               LET best == store'.task[store'.receipt[r].id]
                   t == store'.task[id]
               IN  (/\ t.status = "pending"
                    /\ t.caps \subseteq store'.receipt[r].req.caps
                    /\ t.deps \subseteq {d \in TaskId : store'.task[d].status = "completed"})
                   => \/ t.prio < best.prio
                      \/ t.prio = best.prio /\ id > store'.receipt[r].id
  BY <1>1, StepEffect DEF Effect, BestGranted, Granted
<1> QED
  BY <1>1, Invariance, PTL DEF Spec, AcquireTakesBest

-----------------------------------------------------------------------------
(* The views: lineage, and what doctor finds.                              *)

LineageOK == lineage \in [TaskId -> 0..MaxTasks] /\ cut \in BOOLEAN

\* Every step of Views is a step of Board or leaves the store alone.
LEMMA ViewsStepsAreCalls == [ViewsNext]_views => [Next]_vars
<1> SUFFICES ASSUME ViewsNext PROVE Next
  BY DEF views
<1>1. ASSUME NEW a \in Caller, Split(a) PROVE CallOf(a)
  BY <1>1 DEF Split, CallOf, EditCall
<1>2. ASSUME NEW a \in Caller, Edit(a) PROVE CallOf(a)
  BY <1>2 DEF Edit, CallOf, EditCall
<1>3. ASSUME OtherCall PROVE Next
  <2>1. ASSUME NEW a \in Actor, LeaseCall(a) PROVE a \in Caller /\ CallOf(a)
    BY <2>1, NamesAssumption DEF Caller, CallOf
  <2>2. ASSUME NEW a \in Caller, StatusCall(a) PROVE CallOf(a)
    BY <2>2 DEF CallOf
  <2>3. ASSUME NEW a \in Actor, AcquireCall(a) PROVE a \in Caller /\ CallOf(a)
    BY <2>3, NamesAssumption DEF Caller, CallOf
  <2> QED
    BY <1>3, <2>1, <2>2, <2>3 DEF OtherCall, Next
<1> QED
  BY <1>1, <1>2, <1>3 DEF ViewsNext, Next

\* Views makes the calls of Board and no other.
LEMMA ViewsCallsBoard == ViewsSpec => Spec
  BY ViewsStepsAreCalls, PTL DEF ViewsSpec, ViewsInit, Spec

LEMMA LineageStep == LineageOK /\ [ViewsNext]_views => LineageOK'
<1> SUFFICES ASSUME LineageOK, [ViewsNext]_views PROVE LineageOK'
  OBVIOUS
<1>0. TaskId \subseteq 0..MaxTasks /\ 0 \in 0..MaxTasks
  BY CountsAssumption DEF TaskId
<1>1. Kept \in [TaskId -> 0..MaxTasks]
  BY <1>0 DEF LineageOK, Kept
<1>2. ASSUME NEW a \in Caller, Split(a) PROVE LineageOK'
  BY <1>0, <1>2 DEF Split, ChildOf, LineageOK
<1>3. ASSUME NEW a \in Caller, Edit(a) PROVE LineageOK'
  <2>1. lineage' = Kept /\ cut' \in BOOLEAN
    BY <1>3 DEF Edit, LineageOK
  <2> QED
    BY <2>1, <1>1 DEF LineageOK
<1>4. ASSUME OtherCall PROVE LineageOK'
  BY <1>1, <1>4 DEF OtherCall, LineageOK
<1>5. ASSUME UNCHANGED views PROVE LineageOK'
  BY <1>5 DEF views, LineageOK
<1> QED
  BY <1>2, <1>3, <1>4, <1>5 DEF ViewsNext

(***************************************************************************)
(* The store keeps its types under every sequence of calls, and lineage    *)
(* names tasks only.                                                       *)
(***************************************************************************)
THEOREM ViewsTypeCorrect == ViewsSpec => []ViewsTypeOK
<1>1. ViewsInit => LineageOK
  <2>1. 0 \in 0..MaxTasks /\ FALSE \in BOOLEAN
    BY CountsAssumption
  <2> QED
    BY <2>1 DEF ViewsInit, LineageOK
<1>2. TypeOK /\ LineageOK => ViewsTypeOK
  BY DEF ViewsTypeOK, LineageOK
<1> QED
  BY <1>1, <1>2, LineageStep, ViewsCallsBoard, TypeCorrect, PTL DEF ViewsSpec

(***************************************************************************)
(* doctor never finds a problem, for any number of tasks and agents: lease *)
(* fields set or missing against the status, a dangling dependency, a task *)
(* at or above next_id, or a cycle would each contradict the invariant.    *)
(***************************************************************************)
THEOREM DoctorStaysSilent == ViewsSpec => []DoctorFindsNothing
<1>1. IInv => DoctorFindsNothing
  <2> SUFFICES ASSUME IInv PROVE DoctorFindsNothing
    OBVIOUS
  <2>0. \A id \in Present(store) : id \in TaskId
    BY DEF Present
  <2>1. {id \in Present(store) : BadLease(store, id)} = {}
    BY <2>0 DEF IInv, Sound, LeaseWhole, BadLease
  <2>2. {id \in Present(store) : ~(store.task[id].deps \cap TaskId \subseteq Present(store))} = {}
    BY DEF IInv, Sound, Rooted, LocalDeps
  <2>3. {id \in Present(store) : store.nextID <= id} = {}
    <3>1. \A x \in Present(store) : x < store.nextID /\ x \in Nat /\ store.nextID \in Nat
      BY <2>0 DEF IInv, Sound, Rooted, Store, TaskId
    <3> QED
      BY <3>1
  <2>4. ~DetectCycle(Edges(store))
    BY DEF IInv, Sound, NoCycle, DetectCycle
  <2>5. OrphanedDeps(store) = {}
    BY <2>0 DEF OrphanedDeps, Graph, IInv, Sound, Rooted, LocalDeps
  <2>6. Problems(store) = {}
    BY <2>1, <2>2, <2>3, <2>4 DEF Problems
  <2> QED
    BY <2>5, <2>6 DEF DoctorFindsNothing
<1> QED
  BY <1>1, Invariance, ViewsCallsBoard, PTL

-----------------------------------------------------------------------------
(* What a view says and what a call does.                                  *)

\* Sets of tasks are finite.
LEMMA FiniteTasks == \A S \in SUBSET TaskId : IsFiniteSet(S)
<1>1. IsFiniteSet(TaskId)
  BY FS_Interval, CountsAssumption DEF TaskId
<1> QED
  BY <1>1, FS_Subset

\* What a successful batch of completions leaves.
LEMMA BatchCompletes ==
    ASSUME NEW s \in Store, NEW i \in TaskId, NEW j \in TaskId, NEW a, NEW resolved,
           CompleteBatch(s, i, j, a, resolved).ok
    PROVE  LET u == CompleteBatch(s, i, j, a, resolved).store
           IN  /\ \A x \in TaskId \ {i, j} : u.task[x] = s.task[x]
               /\ \A x \in {i, j} : /\ u.task[x].status = "completed"
                                    /\ u.task[x].deps = s.task[x].deps
                                    /\ u.task[x].caps = s.task[x].caps
<1> DEFINE done(v, x) == AddEvent(SetTask(v, x, Yielded(v.task[x], "completed")),
                                  x, "task_completed")
<1>1. ASSUME NEW v \in Store, NEW x \in TaskId
      PROVE  /\ done(v, x) \in Store
             /\ \A y \in TaskId \ {x} : done(v, x).task[y] = v.task[y]
             /\ done(v, x).task[x].status = "completed"
             /\ done(v, x).task[x].deps = v.task[x].deps
             /\ done(v, x).task[x].caps = v.task[x].caps
  <2>1. v.task[x] \in Task /\ v.feed[x] \in Seq(EventType)
    BY DEF Store
  <2> DEFINE new == Yielded(v.task[x], "completed")
  <2>2. /\ new \in Task /\ new.status = "completed" /\ new.deps = v.task[x].deps
        /\ new.caps = v.task[x].caps
    BY <2>1 DEF Yielded, Task, Status
  <2> HIDE DEF new
  <2>3. Remember(v.feed[x], "task_completed") \in Seq(EventType)
    BY <2>1, RememberType DEF EventType
  <2>4. done(v, x) \in Store
    BY <2>2, <2>3 DEF SetTask, AddEvent, Store, new
  <2>5. done(v, x).task[x] = new /\ OneTask(v, done(v, x), x)
    BY <2>2, AddEventFields DEF new
  <2> HIDE DEF done
  <2> QED
    BY <2>2, <2>4, <2>5 DEF OneTask
<1>2. ASSUME NEW v \in Store, NEW x \in TaskId, CompleteTask(v, x, a, resolved).ok
      PROVE  CompleteTask(v, x, a, resolved).store = done(v, x)
  BY <1>2 DEF CompleteTask, Guarded, Outcome
<1> HIDE DEF done
<1> DEFINE v == CompleteTask(s, i, a, resolved).store
<1>3. CompleteTask(s, i, a, resolved).ok
  BY DEF CompleteBatch
<1>4. v = done(s, i) /\ v \in Store
  BY <1>1, <1>2, <1>3
<1> HIDE DEF v
<1>5. CASE i = j
  BY <1>1, <1>3, <1>4, <1>5 DEF CompleteBatch, v
<1>6. CASE i # j
  <2>1. CompleteTask(v, j, a, resolved).ok
    BY <1>3, <1>6 DEF CompleteBatch, v
  <2>2. CompleteTask(v, j, a, resolved).store = done(v, j)
    BY <1>2, <1>4, <2>1
  <2>3. CompleteBatch(s, i, j, a, resolved).store = done(v, j)
    BY <1>3, <1>6, <2>2 DEF CompleteBatch, v
  <2> HIDE DEF done, v
  <2>4. /\ \A x \in TaskId \ {i} : v.task[x] = s.task[x]
        /\ v.task[i].status = "completed" /\ v.task[i].deps = s.task[i].deps
        /\ v.task[i].caps = s.task[i].caps
    BY <1>1, <1>4
  <2> DEFINE w == done(v, j)
  <2>5. /\ \A x \in TaskId \ {j} : w.task[x] = v.task[x]
        /\ w.task[j].status = "completed" /\ w.task[j].deps = v.task[j].deps
        /\ w.task[j].caps = v.task[j].caps
    BY <1>1, <1>4
  <2> HIDE DEF w
  <2>6. /\ \A x \in TaskId \ {i, j} : w.task[x] = s.task[x]
        /\ \A x \in {i, j} : /\ w.task[x].status = "completed"
                             /\ w.task[x].deps = s.task[x].deps
                             /\ w.task[x].caps = s.task[x].caps
    BY <1>6, <2>4, <2>5
  <2> QED
    BY <2>3, <2>6 DEF w
<1> QED
  BY <1>5, <1>6

\* The committed store after a done call that succeeded on unfinished tasks.
LEMMA Completed ==
    ASSUME IInv, NEW a, NEW i \in TaskId, NEW j \in TaskId, NEW resolved,
           Completes(a, i, j, resolved)
    PROVE  /\ \A x \in TaskId \ {i, j} : store'.task[x] = Reclaimed.task[x]
           /\ \A x \in {i, j} : /\ store'.task[x].status = "completed"
                                /\ store'.task[x].deps = Reclaimed.task[x].deps
                                /\ store'.task[x].caps = Reclaimed.task[x].caps
                                /\ Reclaimed.task[x].status # "completed"
<1>1. Reclaimed \in Store
  BY ReclaimedSound DEF Sound
<1>2. store' = CompleteBatch(Reclaimed, i, j, a, resolved).store
  BY DEF Completes, Done, Transact, Committed
<1>3. \A x \in {i, j} : Reclaimed.task[x].status # "completed"
  BY Reclaiming DEF Completes
<1> QED
  BY <1>1, <1>2, <1>3, BatchCompletes DEF Completes

(***************************************************************************)
(* done reports as unblocked exactly what its completions freed.           *)
(***************************************************************************)
THEOREM UnblockedListIsNews == ViewsSpec => UnblockedIsNews
<1>1. ASSUME IInv, NEW a \in Caller, NEW i \in TaskId, NEW j \in TaskId,
             NEW resolved \in SUBSET Remote, Completes(a, i, j, resolved)
      PROVE  NewlyReadyAfter(store', {i, j}, resolved)
                 = Ready(store', resolved) \ Ready(Reclaimed, resolved)
  <2> USE <1>1, Completed
  <2>1. \A id \in Ready(store', resolved) :
          /\ id \in TaskId \ {i, j} /\ store'.task[id] = Reclaimed.task[id]
          /\ Reclaimed.task[id].status = "pending"
          /\ Reclaimed.task[id].caps \subseteq Capability
    BY DEF Ready, ReadyTasks
  <2>2. ASSUME NEW id \in Ready(store', resolved)
        PROVE  id \notin Ready(Reclaimed, resolved)
                   <=> store'.task[id].deps \cap {i, j} # {}
    BY <2>1 DEF Ready, ReadyTasks, DependenciesComplete
  <2> QED
    BY <2>2 DEF NewlyReadyAfter
<1>2. ASSUME IInv
      PROVE  \A a \in Caller, i, j \in TaskId, resolved \in SUBSET Remote :
               Completes(a, i, j, resolved) =>
                   NewlyReadyAfter(store', {i, j}, resolved)
                       = Ready(store', resolved) \ Ready(Reclaimed, resolved)
  BY <1>1, <1>2
<1> QED
  BY <1>2, Invariance, ViewsCallsBoard, PTL DEF ViewsSpec, UnblockedIsNews

(***************************************************************************)
(* what-if simulates the completion that then happens.                     *)
(***************************************************************************)
THEOREM WhatIfIsRight == ViewsSpec => WhatIfComesTrue
<1>1. ASSUME IInv, NEW a \in Caller, NEW i \in TaskId, NEW resolved \in SUBSET Remote,
             Completes(a, i, i, resolved)
      PROVE  LET said == WhatIf(Reclaimed, i, resolved)
             IN  /\ said.unblocked = NewlyReadyAfter(store', {i}, resolved)
                 /\ said.stillBlocked = Cardinality(BlockedTasks(store', resolved))
                 /\ Cardinality(said.unblocked) <= said.dependents
  <2> DEFINE s == Reclaimed
             u == Simulated(s, i)
  <2>0. s \in Store /\ s.task[i] \in Task /\ s.task \in [TaskId -> Task]
    BY <1>1, ReclaimedSound DEF Sound, Store
  <2>1. /\ \A x \in TaskId \ {i} : store'.task[x] = s.task[x]
        /\ store'.task[i].status = "completed" /\ s.task[i].status # "completed"
        /\ store'.task[i].deps = s.task[i].deps /\ store'.task[i].caps = s.task[i].caps
    BY <1>1, Completed
  <2>2. /\ \A x \in TaskId \ {i} : u.task[x] = s.task[x]
        /\ u.task[i].status = "completed"
        /\ u.task[i].deps = s.task[i].deps /\ u.task[i].caps = s.task[i].caps
    BY <2>0 DEF Simulated, Store, Task
  <2> HIDE DEF u, s
  <2>3. \A x \in TaskId : /\ u.task[x].status = store'.task[x].status
                          /\ u.task[x].deps = store'.task[x].deps
                          /\ u.task[x].caps = store'.task[x].caps
    BY <2>1, <2>2
  <2>4. Present(u) = Present(store') /\ Ready(u, resolved) = Ready(store', resolved)
    BY <2>3 DEF Present, Ready, ReadyTasks, DependenciesComplete
  <2>5. BlockedTasks(u, resolved) = BlockedTasks(store', resolved)
    <3>1. \A x \in TaskId : WaitsFor(u, x, resolved) = WaitsFor(store', x, resolved)
      BY <2>3 DEF WaitsFor
    <3> QED
      BY <2>3, <2>4, <3>1 DEF BlockedTasks, Present
  <2>6. ASSUME NEW x \in Ready(u, resolved)
        PROVE  x \in BlockedTasks(s, resolved) <=> i \in u.task[x].deps
    <3>1. /\ x \in TaskId \ {i} /\ u.task[x] = s.task[x] /\ u.task[x].status = "pending"
          /\ x \in Present(s)
          /\ DependenciesComplete(u, x, resolved)
      BY <2>2, <2>6 DEF Ready, ReadyTasks, Present
    <3>2. CASE i \in u.task[x].deps
      BY <2>1, <3>1, <3>2 DEF BlockedTasks, WaitsFor
    <3>3. CASE i \notin u.task[x].deps
      <4>1. WaitsFor(s, x, resolved) = {}
        BY <2>2, <3>1, <3>3 DEF WaitsFor, DependenciesComplete
      <4> QED
        BY <3>3, <4>1 DEF BlockedTasks
    <3> QED
      BY <3>2, <3>3
  <2>7. WouldUnblock(s, i, resolved) = NewlyReadyAfter(store', {i}, resolved)
    <3>1. \A x \in Ready(u, resolved) : x \in TaskId
      BY DEF Ready, ReadyTasks
    <3>2. \A x \in Ready(u, resolved) : i \in u.task[x].deps
                                         <=> store'.task[x].deps \cap {i} # {}
      BY <2>3, <3>1
    <3> QED
      BY <2>4, <2>6, <3>2 DEF WouldUnblock, NewlyReadyAfter, u
  <2>8. Cardinality(WouldUnblock(s, i, resolved)) <= Cardinality(Dependents(s, i))
    <3>1. WouldUnblock(s, i, resolved) \subseteq Dependents(s, i)
      <4> SUFFICES ASSUME NEW x \in WouldUnblock(s, i, resolved)
                   PROVE  x \in Dependents(s, i)
        OBVIOUS
      <4>1. x \in Ready(u, resolved) /\ x \in BlockedTasks(s, resolved)
        BY DEF WouldUnblock, u
      <4>2. i \in u.task[x].deps /\ x \in Present(s) /\ x \in TaskId \ {i}
        BY <2>2, <2>6, <4>1 DEF BlockedTasks, Ready, ReadyTasks
      <4> QED
        BY <2>2, <4>2 DEF Dependents
    <3>2. Dependents(s, i) \subseteq TaskId
      BY DEF Dependents, Present
    <3>3. IsFiniteSet(Dependents(s, i))
      BY <3>2, FiniteTasks
    <3> QED
      BY <3>1, <3>3, FS_Subset
  <2> QED
    BY <2>5, <2>7, <2>8 DEF WhatIf, u, s
<1>2. ASSUME IInv
      PROVE  \A a \in Caller, i \in TaskId, resolved \in SUBSET Remote :
               Completes(a, i, i, resolved) =>
                   LET said == WhatIf(Reclaimed, i, resolved)
                   IN  /\ said.unblocked = NewlyReadyAfter(store', {i}, resolved)
                       /\ said.stillBlocked = Cardinality(BlockedTasks(store', resolved))
                       /\ Cardinality(said.unblocked) <= said.dependents
  BY <1>1, <1>2
<1> QED
  BY <1>2, Invariance, ViewsCallsBoard, PTL DEF ViewsSpec, WhatIfComesTrue

\* When a fresh acquire gets a task.
LEMMA GrantsWhen ==
    ASSUME NEW s \in Store, NEW a, NEW caps, NEW limit, NEW resolved
    PROVE  Grants(s, a, caps, limit, resolved)
             <=> ~AtCapacity(s, a, limit) /\ ReadyTasks(s, caps, resolved) # {}
<1> DEFINE u == Fresh(s)
           rid == "fresh"
           req == [actor |-> a, ttl |-> 1, caps |-> caps]
<1>2. u.task = s.task /\ u.receipt[rid] = NoReceipt
  BY DEF Fresh, Store
<1> HIDE DEF u, rid
<1>3. AtCapacity(u, a, limit) <=> AtCapacity(s, a, limit)
  BY <1>2 DEF AtCapacity, Owned
<1>4. ReadyTasks(u, caps, resolved) = ReadyTasks(s, caps, resolved)
  BY <1>2 DEF ReadyTasks, DependenciesComplete
<1>5. req.actor = a /\ req.caps = caps
  OBVIOUS
<1> HIDE DEF req
<1>6. AcquireTask(u, rid, req, limit, resolved, now).ok
        <=> ~AtCapacity(u, a, limit) /\ ReadyTasks(u, caps, resolved) # {}
  BY <1>2, <1>5 DEF AcquireTask, Answered, Outcome
<1> QED
  BY <1>3, <1>4, <1>6 DEF Grants, Try, u, rid, req

\* The pending tasks that some pending task waits for are not all of them: in
\* a finite graph without a cycle something is waited for by nobody.
LEMMA SomethingIsLast ==
    ASSUME NEW edges, NoCycle(edges), NEW P \in SUBSET TaskId, P # {}
    PROVE  \E x \in P : \A y \in P : x \notin edges[y]
<1> DEFINE Wanted(S) == \A x \in S : \E y \in S : x \in edges[y]
           T == {S \in SUBSET P : S # {} /\ Wanted(S)}
<1> SUFFICES ASSUME Wanted(P) PROVE FALSE
  OBVIOUS
<1>1. P \in T /\ T \subseteq SUBSET P
  OBVIOUS
<1>2. IsWellFoundedOn(StrictSubsetOrdering(P), SUBSET P)
  <2>1. IsFiniteSet(P)
    BY FiniteTasks
  <2> QED
    BY <2>1, FS_StrictSubsetOrderingWellFounded, FS_FiniteSubsetsOfFinite
<1>3. PICK S \in T : \A Q \in T : ~ (<<Q, S>> \in StrictSubsetOrdering(P))
  <2>1. T # {}
    BY <1>1
  <2> HIDE DEF T
  <2> QED
    BY <1>1, <1>2, <2>1, WFMin
<1>4. S \in SUBSET TaskId /\ S # {} /\ Wanted(S)
  OBVIOUS
<1>5. PICK x \in S : edges[x] \cap S = {}
  BY <1>4 DEF NoCycle
<1>6. \A z \in S : \E y \in S \ {x} : z \in edges[y]
  BY <1>4, <1>5
<1>7. S \ {x} \in T
  BY <1>4, <1>6
<1>8. <<S \ {x}, S>> \in StrictSubsetOrdering(P)
  BY <1>1, <1>7 DEF StrictSubsetOrdering
<1> QED
  BY <1>3, <1>7, <1>8

\* A list names values of the set, and all of them unless it is truncated.
LEMMA BoundedLists ==
    ASSUME NEW S, NEW b \in Bounded(S)
    PROVE  b.items \subseteq S /\ (~b.truncated => b.items = S)
<1> DEFINE over == Cardinality(S) > MaxItems
<1>1. PICK T \in IF over THEN {T \in SUBSET S : Cardinality(T) = MaxItems} ELSE {S} :
        b = [items     |-> T \ Long,
             total     |-> Cardinality(S),
             truncated |-> over \/ T \cap Long # {}]
  BY DEF Bounded
<1>2. b.items = T \ Long /\ (b.truncated <=> over \/ T \cap Long # {})
  BY <1>1
<1>3. T \subseteq S /\ (~over => T = S)
  BY <1>1
<1> QED
  BY <1>2, <1>3

\* The reason of a refused acquire names something that really helps.
LEMMA HelpsAlways ==
    ASSUME NEW s, Sound(s), NEW a \in Actor, NEW caps \in SUBSET Capability,
           NEW resolved \in SUBSET Remote,
           NEW d \in Diagnoses(s, a, caps, MaxLoad, resolved)
    PROVE  Helps(s, a, caps, resolved, d)
<1> DEFINE pending == WithStatus(s, "pending")
           missing == d.missing.items
           named == d.blockers.items
           more == caps \cup missing
           answered == resolved \cup named
           finished == After(s, named \cap TaskId)
           freed == OthersExpired(s, a)
<1>0. /\ s \in Store /\ a # NoActor /\ s.task \in [TaskId -> Task]
      /\ \A id \in TaskId : s.task[id].caps \subseteq Capability
                            /\ s.task[id].deps \subseteq TaskId \cup Remote
  BY NamesAssumption DEF Sound, Store, Task
<1>1. /\ d.reason = Reason(s, a, caps, MaxLoad, resolved)
      /\ named \subseteq DependencyBlockers(s, resolved)
      /\ ~d.blockers.truncated => named = DependencyBlockers(s, resolved)
      /\ missing \subseteq MissingCapabilities(s, caps, resolved)
      /\ ~d.missing.truncated => missing = MissingCapabilities(s, caps, resolved)
  BY BoundedLists DEF Diagnoses
<1> HIDE DEF missing, named
<1>2. \A u \in Store : ~AtCapacity(u, a, 0)
  BY DEF AtCapacity
<1>3. \A c, r : ReadyTasks(s, c, r) \subseteq pending
  BY DEF ReadyTasks, WithStatus
<1>4. CASE d.reason = "ready"
  <2>1. ~AtCapacity(s, a, MaxLoad) /\ ReadyTasks(s, caps, resolved) # {}
    BY <1>0, <1>1, <1>4 DEF Reason
  <2> QED
    BY <1>0, <1>4, <2>1, GrantsWhen DEF Helps
<1>5. CASE d.reason = "worker_at_capacity"
  <2>1. AtCapacity(s, a, MaxLoad)
    BY <1>0, <1>1, <1>5 DEF Reason
  <2>2. Owned(s, a) # {}
    <3>1. Cardinality({}) = 0
      BY FS_EmptySet
    <3> QED
      BY <2>1, <3>1, BoardAssumption DEF AtCapacity
  <2>3. My(s, a) # {}
    BY <2>2 DEF Owned, My, Present
  <2> QED
    BY <1>0, <1>5, <2>1, <2>3, GrantsWhen DEF Helps
<1>6. CASE d.reason = "capabilities_unavailable"
  <2>1. /\ ReadyTasks(s, caps, resolved) = {} /\ Ready(s, resolved) # {}
        /\ ~AtCapacity(s, a, MaxLoad)
    BY <1>0, <1>1, <1>6 DEF Reason
  <2>2. more \subseteq Capability
    BY <1>0, <1>1 DEF MissingCapabilities, Ready, ReadyTasks
  <2>3. ~d.missing.truncated => ReadyTasks(s, more, resolved) # {}
    <3>1. ~d.missing.truncated => Ready(s, resolved) \subseteq ReadyTasks(s, more, resolved)
      BY <1>1 DEF MissingCapabilities, Ready, ReadyTasks
    <3> QED
      BY <2>1, <3>1
  <2>4. ASSUME NEW next \in Diagnoses(s, a, more, MaxLoad, resolved)
        PROVE  /\ next.reason \in {"ready", "capabilities_unavailable"}
               /\ next.missing.items \cap missing = {}
    <3>1. /\ next.reason = Reason(s, a, more, MaxLoad, resolved)
          /\ next.missing.items \subseteq MissingCapabilities(s, more, resolved)
      BY BoundedLists DEF Diagnoses
    <3>2. pending # {}
      BY <1>3, <2>1 DEF Ready
    <3> QED
      BY <2>1, <3>1, <3>2 DEF Reason, MissingCapabilities
  <2>5. ~Grants(s, a, caps, 0, resolved)
    BY <1>0, <1>2, <2>1, GrantsWhen
  <2>6. d.missing.truncated \/ Grants(s, a, more, 0, resolved)
    BY <1>0, <1>2, <2>2, <2>3, GrantsWhen
  <2> QED
    BY <1>6, <2>4, <2>5, <2>6 DEF Helps, missing
<1>7. CASE d.reason = "dependencies_incomplete"
  <2>1. Ready(s, resolved) = {} /\ pending # {}
    BY <1>0, <1>1, <1>7 DEF Reason
  <2>2. PICK x \in pending : \A y \in pending : x \notin Edges(s)[y]
    <3>1. pending \in SUBSET TaskId
      BY DEF WithStatus
    <3> QED
      BY <2>1, <3>1, SomethingIsLast DEF Sound
  <2>3. x \in TaskId /\ s.task[x].status = "pending" /\ x \notin named
    BY <1>1, <2>2 DEF WithStatus, DependencyBlockers, WaitsFor, Edges
  <2>4. /\ finished \in Store
        /\ \A y \in TaskId :
            /\ finished.task[y].status = IF y \in named THEN "completed"
                                         ELSE s.task[y].status
            /\ finished.task[y].deps = s.task[y].deps
            /\ finished.task[y].caps = s.task[y].caps
    <3>1. \A y \in TaskId :
            LET t == [s.task[y] EXCEPT !.status = "completed"]
            IN  t \in Task /\ t.status = "completed" /\ t.deps = s.task[y].deps
                /\ t.caps = s.task[y].caps
      BY <1>0 DEF Task, Status
    <3> QED
      BY <1>0, <3>1 DEF After, Store
  <2> HIDE DEF finished
  <2>5. answered \in SUBSET (TaskId \cup Remote)
    BY <1>0, <1>1 DEF DependencyBlockers, WaitsFor, WithStatus
  <2>6. ~d.blockers.truncated => x \in ReadyTasks(finished, Capability, answered)
    <3>1. WaitsFor(s, x, resolved) \subseteq DependencyBlockers(s, resolved)
      BY <2>2 DEF DependencyBlockers
    <3>2. ~d.blockers.truncated => DependenciesComplete(finished, x, answered)
      BY <1>1, <2>3, <2>4, <3>1 DEF DependenciesComplete, WaitsFor
    <3> QED
      BY <1>0, <2>3, <2>4, <3>2 DEF ReadyTasks
  <2>7. ASSUME NEW next \in Diagnoses(finished, a, caps, MaxLoad, answered)
        PROVE  /\ next.reason \notin {"no_pending_work", "work_owned_by_others"}
               /\ next.blockers.items \cap named = {}
    <3>1. /\ next.reason = Reason(finished, a, caps, MaxLoad, answered)
          /\ next.blockers.items \subseteq DependencyBlockers(finished, answered)
      BY BoundedLists DEF Diagnoses
    <3>2. WithStatus(finished, "pending") # {}
      BY <2>3, <2>4 DEF WithStatus
    <3>3. DependencyBlockers(finished, answered) \cap named = {}
      BY <2>4 DEF DependencyBlockers, WaitsFor
    <3> QED
      BY <1>0, <3>1, <3>2, <3>3 DEF Reason
  <2>8. ~Grants(s, a, Capability, 0, resolved)
    BY <1>0, <1>2, <2>1, GrantsWhen DEF Ready
  <2>9. d.blockers.truncated \/ Grants(finished, a, Capability, 0, answered)
    BY <1>0, <1>2, <2>4, <2>6, GrantsWhen
  <2> QED
    BY <1>7, <2>7, <2>8, <2>9 DEF Helps, named, finished
<1>8. CASE d.reason \in {"work_owned_by_others", "no_pending_work"}
  <2>1. pending = {}
    BY <1>0, <1>1, <1>3, <1>8 DEF Reason
  <2>2. ~Grants(s, a, Capability, 0, resolved)
    BY <1>0, <1>3, <2>1, GrantsWhen
  <2>3. CASE d.reason = "work_owned_by_others"
    <3>1. PICK x \in OwnedByOthers(s, a) : TRUE
      BY <1>0, <1>1, <2>3 DEF Reason
    <3>2. x \in TaskId /\ s.task[x].status = "in_progress"
      BY <3>1 DEF OwnedByOthers, WithStatus
    <3>3. freed.task[x].status = "pending"
      <4>1. s.task[x] \in Task
        BY <1>0, <3>2
      <4>2. Yielded(s.task[x], "pending").status = "pending"
        BY <4>1, YieldedFields
      <4> QED
        BY <1>0, <3>1, <3>2, <4>2 DEF OthersExpired, Store
    <3> HIDE DEF freed
    <3>4. freed # s
      BY <3>2, <3>3
    <3> QED
      BY <2>2, <2>3, <3>4 DEF Helps, freed
  <2>4. CASE d.reason = "no_pending_work"
    <3>1. OwnedByOthers(s, a) = {}
      BY <1>0, <1>1, <2>1, <2>4 DEF Reason
    <3>2. freed \in Store /\ \A y \in TaskId : freed.task[y] = s.task[y]
      BY <1>0, <3>1 DEF OthersExpired, Store
    <3> HIDE DEF freed
    <3>3. ReadyTasks(freed, Capability, resolved) = {}
      BY <2>1, <3>2 DEF ReadyTasks, WithStatus
    <3> QED
      BY <1>2, <2>2, <2>4, <3>2, <3>3, GrantsWhen DEF Helps, freed
  <2> QED
    BY <1>8, <2>3, <2>4
<1>9. d.reason \in {"ready", "worker_at_capacity", "capabilities_unavailable",
                    "dependencies_incomplete", "work_owned_by_others", "no_pending_work"}
  BY <1>0, <1>1 DEF Reason
<1> QED
  BY <1>4, <1>5, <1>6, <1>7, <1>8, <1>9

(***************************************************************************)
(* The diagnosis of a refused acquire tells the worker what would help.    *)
(***************************************************************************)
THEOREM DiagnosisIsRight == ViewsSpec => []DiagnosisHelps
<1>1. IInv => DiagnosisHelps
  BY HelpsAlways, ReclaimedSound DEF DiagnosisHelps
<1> QED
  BY <1>1, Invariance, ViewsCallsBoard, PTL

\* next lists what a claim would get.
LEMMA ListsWhatIsClaimable ==
    ASSUME NEW s, Sound(s), NEW a \in Actor, NEW resolved \in SUBSET Remote
    PROVE  ListsClaimable(s, a, resolved)
<1>1. \A id \in TaskId : s.task[id].caps \subseteq Capability /\ LeaseWhole(s.task[id])
  BY DEF Sound, Store, Task
<1>2. NextWork(s, Capability, resolved).available = ReadyTasks(s, Capability, resolved)
  BY DEF NextWork
<1>3. ASSUME NEW id \in WithStatus(s, "pending")
      PROVE  ClaimTask(s, id, a, 1, resolved, now).ok
               <=> DependenciesComplete(s, id, resolved)
  <2>1. id \in TaskId /\ s.task[id].status = "pending" /\ s.task[id].owner = NoActor
    BY <1>1 DEF WithStatus, LeaseWhole
  <2> QED
    BY <2>1 DEF ClaimTask, Guarded, Outcome, Claimable, MayTouch
<1> QED
  BY <1>1, <1>2, <1>3 DEF ListsClaimable, ReadyTasks, WithStatus

\* rm and dependents.
LEMMA ExplainsEveryRefusal ==
    ASSUME NEW s, Sound(s), Bare(s), NEW id \in Present(s)
    PROVE  ExplainsRefusal(s, id)
<1>1. id \in TaskId /\ LeaseWhole(s.task[id])
  BY DEF Present, Sound
<1>2. id \notin s.task[id].deps
  <2>1. \E x \in {id} : Edges(s)[x] \cap {id} = {}
    BY <1>1 DEF Sound, NoCycle
  <2> QED
    BY <1>1, <2>1 DEF Edges
<1>3. (\A x \in TaskId \ {id} : s.task[x].deps \cap {id} = {}) <=> Dependents(s, id) = {}
  BY <1>2 DEF Dependents, Present, Bare
<1>4. ~(s.task[id].status = "in_progress" /\ s.task[id].owner # NoActor)
        <=> s.task[id].owner = NoActor
  BY <1>1 DEF LeaseWhole
<1> QED
  BY <1>3, <1>4 DEF ExplainsRefusal, RemoveTasks, Guarded, Outcome

\* The brief of an agent and the acquire it makes.
LEMMA BriefsEveryGrant ==
    ASSUME NEW s, Sound(s), NEW a \in Actor, NEW n \in Nat \ {0},
           NEW resolved \in SUBSET Remote
    PROVE  BriefsTheGrant(s, a, n, resolved)
<1> DEFINE b == Brief(s, lineage, a, n, resolved)
           ready == ReadyTasks(s, Caps[a], resolved)
           grant == Try(s, a, Caps[a], MaxLoad, resolved)
           first == CHOOSE id \in ready : \A j \in ready \ {id} : RankedBefore(s, id, j)
           u == Fresh(s)
           rid == "fresh"
           req == [actor |-> a, ttl |-> 1, caps |-> Caps[a]]
           new == Leased(s.task[first], a, now + 1)
<1>0. /\ s \in Store /\ a # NoActor /\ s.task \in [TaskId -> Task]
      /\ \A id \in TaskId : LeaseWhole(s.task[id])
  BY NamesAssumption DEF Sound, Store
<1>1. {id \in My(s, a) : s.task[id].status = "in_progress"} = My(s, a)
      /\ Owned(s, a) = My(s, a) /\ HandleCaps(s, a) = My(s, a)
  BY <1>0 DEF My, Owned, HandleCaps, Present, LeaseWhole
<1>2. /\ b.load = Cardinality(My(s, a)) /\ b.owned.total = Cardinality(My(s, a))
      /\ b.atCapacity <=> AtCapacity(s, a, MaxLoad)
      /\ b.ready.total = Cardinality(ready) /\ b.ready.items = First(s, ready, n)
  BY <1>1 DEF Brief, CurrentLoad, AtCapacity
<1> HIDE DEF b
<1>3. ready \in SUBSET TaskId /\ (Cardinality(ready) > 0 <=> ready # {})
  <2>1. ready \in SUBSET TaskId
    BY DEF ReadyTasks
  <2>2. IsFiniteSet(ready)
    BY <2>1, FiniteTasks
  <2>3. Cardinality(ready) \in Nat /\ (Cardinality(ready) = 0 <=> ready = {})
    BY <2>2, FS_CardinalityType, FS_EmptySet
  <2> HIDE DEF ready
  <2> QED
    BY <2>1, <2>3
<1>4. grant.ok <=> ~b.atCapacity /\ b.ready.total > 0
  BY <1>0, <1>2, <1>3, GrantsWhen DEF Grants
<1>5. ASSUME grant.ok
      PROVE  My(grant.store, a) \ My(s, a) \subseteq b.ready.items \cap CapsOf(s, a)
  <2>1. ready # {}
    BY <1>2, <1>3, <1>4, <1>5
  <2>2. first \in ready /\ \A j \in ready \ {first} : RankedBefore(s, first, j)
    BY <1>0, <1>3, <2>1, BestExists
  <2>3. /\ u.task = s.task /\ u.receipt[rid] = NoReceipt
        /\ u = [task |-> u.task, nextID |-> u.nextID, receipt |-> u.receipt, feed |-> u.feed]
    BY <1>0 DEF Fresh, Store
  <2>4. first \in TaskId /\ s.task[first].status = "pending"
        /\ s.task[first].owner = NoActor
    BY <1>0, <1>3, <2>2 DEF ReadyTasks, LeaseWhole
  <2> HIDE DEF first
  <2>5. ~Answered(u, rid) /\ ~AtCapacity(u, a, MaxLoad)
        /\ ReadyTasks(u, Caps[a], resolved) = ready
    BY <1>2, <1>4, <1>5, <2>3 DEF Answered, AtCapacity, Owned, ReadyTasks, DependenciesComplete
  <2>6. first = CHOOSE id \in ready : \A j \in ready \ {id} : RankedBefore(u, id, j)
    BY <2>3 DEF first, RankedBefore
  <2>7. \A x \in TaskId \ {first} : grant.store.task[x] = s.task[x]
    <3>1. grant.store = [AddEvent(SetTask(u, first, Leased(u.task[first], a, now + 1)),
                                  first, "task_claimed")
                         EXCEPT !.receipt[rid] = [req |-> req, id |-> first,
                                                  lease |-> now + 1, created |-> now]]
      BY <2>1, <2>5, <2>6 DEF Try, AcquireTask, Outcome, u, rid
    <3> HIDE DEF grant, u, rid, req
    <3> QED
      BY <2>3, <2>4, <3>1 DEF AddEvent, SetTask, Store
  <2> HIDE DEF grant, u
  <2>8. My(grant.store, a) \ My(s, a) \subseteq {first}
    BY <2>7 DEF My, Present
  <2>9. first \in CapsOf(s, a)
    BY <1>0, <2>4 DEF CapsOf, Present
  <2>10. first \in First(s, ready, n)
    <3>1. \A x \in TaskId : x \in Nat /\ s.task[x].prio \in Nat
      BY <1>0, CountsAssumption DEF Task, Priority, TaskId
    <3>2. {y \in ready : RankedBefore(s, y, first)} = {}
      BY <1>3, <2>2, <3>1 DEF RankedBefore
    <3>3. Cardinality({}) = 0
      BY FS_EmptySet
    <3> HIDE DEF ready
    <3> QED
      BY <2>2, <3>2, <3>3 DEF First
  <2> QED
    BY <1>2, <2>8, <2>9, <2>10
<1> QED
  BY <1>1, <1>2, <1>4, <1>5 DEF BriefsTheGrant, b

(***************************************************************************)
(* next, the session brief, caps and dependents forecast what the calls    *)
(* claim, acquire and rm then do.                                          *)
(***************************************************************************)
THEOREM ForecastsAreRight == ViewsSpec => []ViewsForecastCalls
<1>1. IInv /\ Faith => ViewsForecastCalls
  <2> SUFFICES ASSUME IInv, Faith PROVE ViewsForecastCalls
    OBVIOUS
  <2>1. Sound(Reclaimed) /\ Bare(Reclaimed)
    BY ReclaimedSound, ReclaimedFaith DEF Faith
  <2>2. Limits \subseteq Nat \ {0}
    BY ViewsAssumption
  <2> QED
    BY <2>1, <2>2, ListsWhatIsClaimable, ExplainsEveryRefusal, BriefsEveryGrant
       DEF ViewsForecastCalls
<1> QED
  BY <1>1, Invariance, FaithKept, ViewsCallsBoard, PTL

-----------------------------------------------------------------------------
(* The closures behind progress and lineage.                               *)

\* Counting up from 0 reaches every number of an interval.
LEMMA CountingUp ==
    ASSUME NEW N \in Nat, NEW G, 0 \in G, \A n \in 1..N : n - 1 \in G => n \in G
    PROVE  0..N \subseteq G
<1> DEFINE gaps(n) == {m \in 0..n : m \notin G}
           T == {gaps(n) : n \in gaps(N)}
<1> SUFFICES ASSUME gaps(N) # {} PROVE FALSE
  OBVIOUS
<1>1. IsWellFoundedOn(StrictSubsetOrdering(0..N), SUBSET (0..N))
  <2>1. IsFiniteSet(0..N)
    BY FS_Interval
  <2> QED
    BY <2>1, FS_StrictSubsetOrderingWellFounded, FS_FiniteSubsetsOfFinite
<1>2. T \subseteq SUBSET (0..N) /\ T # {}
  <2>1. \A n \in gaps(N) : gaps(n) \subseteq 0..N
    OBVIOUS
  <2> HIDE DEF gaps
  <2> QED
    BY <2>1
<1>3. PICK S \in T : \A Q \in T : ~ (<<Q, S>> \in StrictSubsetOrdering(0..N))
  <2> HIDE DEF T
  <2> QED
    BY <1>1, <1>2, WFMin
<1>4. PICK n \in gaps(N) : S = gaps(n)
  BY <1>3
<1>5. n \in 1..N /\ n - 1 \in 0..N /\ n - 1 \in gaps(N)
  BY <1>4
<1>6. gaps(n - 1) \subseteq gaps(n) /\ gaps(n - 1) # gaps(n)
  BY <1>4, <1>5
<1>7. <<gaps(n - 1), S>> \in StrictSubsetOrdering(0..N)
  <2>1. gaps(n - 1) \subseteq 0..N /\ S \subseteq 0..N
    BY <1>4, <1>5
  <2> QED
    BY <1>4, <1>6, <2>1 DEF StrictSubsetOrdering
<1> QED
  BY <1>3, <1>5, <1>7

\* One step further along `next`.
Wider(S, next) == S \cup UNION {next[x] : x \in S}

LEMMA ReachedBySteps ==
    ASSUME NEW root \in TaskId, NEW next \in [TaskId -> SUBSET TaskId]
    PROVE  \E f \in [0..MaxTasks -> SUBSET TaskId] :
               /\ Reached(root, next) = f[MaxTasks]
               /\ f[0] = {root}
               /\ \A n \in 1..MaxTasks : f[n] = Wider(f[n - 1], next)
<1> DEFINE stage(f, n) == IF n = 0 THEN {root} ELSE Wider(f[n - 1], next)
           G == {k \in 0..MaxTasks : \E f \in [0..MaxTasks -> SUBSET TaskId] :
                                         \A n \in 0..k : f[n] = stage(f, n)}
<1>0. MaxTasks \in Nat /\ MaxTasks \in 0..MaxTasks
  BY CountsAssumption
<1>1. 0 \in G
  <2> DEFINE f == [n \in 0..MaxTasks |-> {root}]
  <2>1. f \in [0..MaxTasks -> SUBSET TaskId] /\ f[0] = {root}
    BY <1>0
  <2>2. \A n \in 0..0 : n = 0 /\ f[n] = stage(f, n)
    <3>1. \A n \in 0..0 : n = 0
      OBVIOUS
    <3> QED
      BY <2>1, <3>1
  <2> HIDE DEF f
  <2>3. 0 \in 0..MaxTasks
    BY <1>0
  <2> QED
    BY <2>1, <2>2, <2>3
<1>2. ASSUME NEW k \in 1..MaxTasks, k - 1 \in G PROVE k \in G
  <2>1. PICK f \in [0..MaxTasks -> SUBSET TaskId] : \A n \in 0..(k - 1) : f[n] = stage(f, n)
    BY <1>2
  <2> DEFINE g == [f EXCEPT ![k] = Wider(f[k - 1], next)]
  <2>2. k \in 0..MaxTasks /\ k - 1 \in 0..MaxTasks /\ k # 0
    BY <1>0
  <2>3. Wider(f[k - 1], next) \subseteq TaskId
    <3>1. f[k - 1] \in SUBSET TaskId
      BY <2>2
    <3> QED
      BY <3>1 DEF Wider
  <2>4. g \in [0..MaxTasks -> SUBSET TaskId] /\ g[k] = Wider(f[k - 1], next)
    BY <2>2, <2>3
  <2>5. \A n \in 0..(k - 1) : n \in 0..MaxTasks /\ n # k /\ g[n] = f[n]
    BY <1>0, <2>2
  <2>6. ASSUME NEW n \in 0..k PROVE g[n] = stage(g, n)
    <3>1. CASE n = k
      BY <2>2, <2>4, <2>5, <3>1
    <3>2. CASE n # k
      <4>1. n \in 0..(k - 1) /\ (n # 0 => n - 1 \in 0..(k - 1))
        BY <3>2, <2>2
      <4>2. g[n] = f[n] /\ f[n] = stage(f, n) /\ (n # 0 => g[n - 1] = f[n - 1])
        BY <4>1, <2>1, <2>5
      <4> QED
        BY <4>2
    <3> QED
      BY <3>1, <3>2
  <2> QED
    BY <2>2, <2>4, <2>6
<1>3. MaxTasks \in G
  <2> HIDE DEF G
  <2> QED
    BY <1>0, <1>1, <1>2, CountingUp
<1>4. PICK f \in [0..MaxTasks -> SUBSET TaskId] : \A n \in 0..MaxTasks : f[n] = stage(f, n)
  BY <1>3
<1> DEFINE Equation(g) == g = [n \in 0..MaxTasks |->
                               IF n = 0 THEN {root}
                               ELSE g[n - 1] \cup UNION {next[x] : x \in g[n - 1]}]
<1>5. Equation(f)
  BY <1>4 DEF Wider
<1> DEFINE h == CHOOSE g : Equation(g)
<1>6. Equation(h)
  <2> HIDE DEF Equation
  <2> QED
    BY <1>5
<1>7. Reached(root, next) = h[MaxTasks]
  BY DEF Reached
<1> HIDE DEF h
<1>8. \A n \in 0..MaxTasks : h[n] = stage(h, n)
  BY <1>6 DEF Wider
<1>9. h \in [0..MaxTasks -> SUBSET TaskId]
  <2> DEFINE K == {k \in 0..MaxTasks : h[k] \in SUBSET TaskId}
  <2>1. 0 \in K
    BY <1>0, <1>8
  <2>2. ASSUME NEW k \in 1..MaxTasks, k - 1 \in K PROVE k \in K
    <3>1. k \in 0..MaxTasks /\ k # 0 /\ h[k - 1] \in SUBSET TaskId
      BY <2>2, <1>0
    <3>2. h[k] = Wider(h[k - 1], next)
      BY <1>8, <3>1
    <3>3. Wider(h[k - 1], next) \subseteq TaskId
      BY <3>1 DEF Wider
    <3> QED
      BY <3>1, <3>2, <3>3
  <2>3. 0..MaxTasks \subseteq K
    <3> HIDE DEF K
    <3> QED
      BY <1>0, <2>1, <2>2, CountingUp
  <2>4. h = [n \in 0..MaxTasks |-> h[n]]
    BY <1>6
  <2> QED
    BY <2>3, <2>4
<1>10. /\ h[0] = {root}
       /\ \A n \in 1..MaxTasks : h[n] = Wider(h[n - 1], next)
  BY <1>0, <1>8
<1> QED
  BY <1>7, <1>9, <1>10

\* Reached is the least set with root that is closed under `next`.
LEMMA ReachedIsLeast ==
    ASSUME NEW root \in TaskId, NEW next \in [TaskId -> SUBSET TaskId]
    PROVE  /\ root \in Reached(root, next)
           /\ Reached(root, next) \subseteq TaskId
           /\ \A x \in Reached(root, next) : next[x] \subseteq Reached(root, next)
           /\ \A S \in SUBSET TaskId :
                  root \in S /\ (\A x \in S : next[x] \subseteq S)
                      => Reached(root, next) \subseteq S
<1>0. MaxTasks \in Nat /\ MaxTasks \in 0..MaxTasks /\ 0 \in 0..MaxTasks
  BY CountsAssumption
<1>1. PICK f \in [0..MaxTasks -> SUBSET TaskId] :
          /\ Reached(root, next) = f[MaxTasks]
          /\ f[0] = {root}
          /\ \A n \in 1..MaxTasks : f[n] = Wider(f[n - 1], next)
  BY ReachedBySteps
<1>2. \A n \in 1..MaxTasks : n \in 0..MaxTasks /\ n - 1 \in 0..MaxTasks
  BY <1>0
<1>3. root \in f[MaxTasks]
  <2> DEFINE G == {n \in 0..MaxTasks : root \in f[n]}
  <2>1. 0 \in G
    BY <1>0, <1>1
  <2>2. \A n \in 1..MaxTasks : n - 1 \in G => n \in G
    BY <1>1, <1>2 DEF Wider
  <2>3. MaxTasks \in G
    <3> HIDE DEF G
    <3> QED
      BY <1>0, <2>1, <2>2, CountingUp
  <2> QED
    BY <2>3
<1>4. ASSUME NEW S \in SUBSET TaskId, root \in S, \A x \in S : next[x] \subseteq S
      PROVE  f[MaxTasks] \subseteq S
  <2> DEFINE G == {n \in 0..MaxTasks : f[n] \subseteq S}
  <2>1. 0 \in G
    BY <1>0, <1>1, <1>4
  <2>2. \A n \in 1..MaxTasks : n - 1 \in G => n \in G
    BY <1>1, <1>2, <1>4 DEF Wider
  <2>3. MaxTasks \in G
    <3> HIDE DEF G
    <3> QED
      BY <1>0, <2>1, <2>2, CountingUp
  <2> QED
    BY <2>3
<1>5. \A x \in f[MaxTasks] : next[x] \subseteq f[MaxTasks]
  <2> DEFINE closed(S) == \A x \in S : next[x] \subseteq S
             large(n) == Cardinality(f[n]) > n
             G == {n \in 0..MaxTasks : closed(f[n]) \/ large(n)}
  <2>1. 0 \in G
    <3>1. Cardinality({root}) = 1
      BY FS_Singleton
    <3>2. large(0)
      BY <1>1, <3>1
    <3> HIDE DEF closed, large
    <3> QED
      BY <1>0, <3>2
  <2>2. ASSUME NEW n \in 1..MaxTasks, n - 1 \in G PROVE n \in G
    <3>1. f[n] = Wider(f[n - 1], next) /\ f[n] \in SUBSET TaskId
      BY <1>1, <1>2
    <3>2. f[n - 1] \subseteq f[n]
      BY <3>1 DEF Wider
    <3>3. CASE closed(f[n - 1])
      <4>1. f[n] = f[n - 1]
        BY <3>1, <3>3 DEF Wider
      <4> QED
        BY <1>2, <3>3, <4>1
    <3>4. CASE ~closed(f[n - 1])
      <4>1. f[n] # f[n - 1]
        BY <3>1, <3>4 DEF Wider
      <4>2. IsFiniteSet(f[n]) /\ IsFiniteSet(f[n - 1])
        BY <1>2, <3>1, FiniteTasks
      <4>3. Cardinality(f[n]) \in Nat /\ Cardinality(f[n - 1]) \in Nat
        BY <4>2, FS_CardinalityType
      <4>4. /\ Cardinality(f[n - 1]) <= Cardinality(f[n])
            /\ Cardinality(f[n]) = Cardinality(f[n - 1]) => f[n] = f[n - 1]
        BY <3>2, <4>2, FS_Subset
      <4>5. Cardinality(f[n - 1]) > n - 1
        BY <2>2, <3>4
      <4>6. Cardinality(f[n]) > n
        BY <4>1, <4>3, <4>4, <4>5
      <4> QED
        BY <1>2, <4>6
    <3> QED
      BY <3>3, <3>4
  <2>3. MaxTasks \in G
    <3> HIDE DEF G
    <3> QED
      BY <1>0, <2>1, <2>2, CountingUp
  <2>4. ~large(MaxTasks)
    <3>1. IsFiniteSet(TaskId) /\ Cardinality(TaskId) = MaxTasks
      BY <1>0, FS_Interval DEF TaskId
    <3>2. f[MaxTasks] \in SUBSET TaskId
      BY <1>0
    <3>3. /\ Cardinality(f[MaxTasks]) <= Cardinality(TaskId)
          /\ IsFiniteSet(f[MaxTasks])
      BY <3>1, <3>2, FS_Subset
    <3>4. Cardinality(f[MaxTasks]) \in Nat
      BY <3>3, FS_CardinalityType
    <3> QED
      BY <1>0, <3>1, <3>3, <3>4
  <2> QED
    BY <2>3, <2>4
<1>6. f[MaxTasks] \subseteq TaskId
  BY <1>0
<1> QED
  BY <1>1, <1>3, <1>4, <1>5, <1>6

\* The dependency closure of a task holds it and is closed.
LEMMA ScopeIsClosed ==
    ASSUME NEW s, Rooted(s), NEW id \in TaskId
    PROVE  /\ id \in Scope(s, id)
           /\ Scope(s, id) \subseteq TaskId
           /\ \A x \in Scope(s, id) : s.task[x].deps \cap Present(s) \subseteq Scope(s, id)
<1> DEFINE next == [t \in TaskId |-> s.task[t].deps \cap Present(s)]
<1>1. next \in [TaskId -> SUBSET TaskId]
  BY DEF Present
<1>2. \A x \in TaskId : next[x] = s.task[x].deps \cap Present(s)
  OBVIOUS
<1>3. Scope(s, id) = Reached(id, next)
  BY DEF Scope
<1> HIDE DEF next
<1> QED
  BY <1>1, <1>2, <1>3, ReachedIsLeast

\* A percentage is at most 100, and 100 only of the whole.
LEMMA PercentOf ==
    ASSUME NEW a \in Nat, NEW b \in Nat \ {0}, a <= b
    PROVE  LET q == (a * 100) \div b IN q \in Int /\ q <= 100 /\ (q = 100 <=> a = b)
<1> DEFINE q == (a * 100) \div b
<1>0. q \in Int
  OBVIOUS
<1>1. q * b <= a * 100 
  OBVIOUS
<1>2. a * 100 < (q + 1) * b
  OBVIOUS
<1> HIDE DEF q
<1>3. CASE a < b
  <2>1. q * b < 100 * b
    BY <1>0, <1>1, <1>3
  <2>2. q < 100
    <3>1. ASSUME q >= 100 PROVE 100 * b <= q * b
      <4>1. q - 100 \in Nat
        BY <1>0, <3>1
      <4>2. (q - 100) * b \in Nat /\ (q - 100) * b = q * b - 100 * b
        BY <1>0, <4>1
      <4> QED
        BY <1>0, <4>2
    <3> QED
      BY <1>0, <2>1, <3>1
  <2> QED
    BY <1>3, <2>2, <1>0
<1>4. CASE a = b
  <2>1. 100 * b < (q + 1) * b /\ q * b <= 100 * b
    BY <1>1, <1>2, <1>4, <1>0
  <2>2. 100 < q + 1 /\ q <= 100
    BY <2>1, <1>0
  <2> QED
    BY <1>4, <2>2, <1>0
<1> QED
  BY <1>0, <1>3, <1>4 DEF q

(***************************************************************************)
(* Progress is honest for every number of tasks: bootstrap never infers an *)
(* objective at 100 percent while top-level work is unfinished, and behind *)
(* 100 percent there is nothing left that a task of the closure waits for. *)
(***************************************************************************)
THEOREM ProgressStaysHonest == ViewsSpec => []ProgressIsHonest
<1> SUFFICES ASSUME IInv PROVE ProgressIsHonest
  BY Invariance, ViewsCallsBoard, PTL
<1> DEFINE done(S) == S \cap WithStatus(store, "completed")
<1>1. ASSUME NEW id \in TaskId
      PROVE  LET S == Scope(store, id)
                 p == ObjectiveProgress(store, id).percent
             IN  p \in Int /\ p <= 100 /\ (p = 100 <=> S \subseteq WithStatus(store, "completed"))
  <2> DEFINE S == Scope(store, id)
  <2>1. id \in S /\ S \subseteq TaskId /\ S # {}
    BY ScopeIsClosed DEF IInv, Sound
  <2>2. IsFiniteSet(S) /\ IsFiniteSet(done(S)) /\ done(S) \in SUBSET S
    BY <2>1, FiniteTasks
  <2>3. /\ Cardinality(done(S)) \in Nat /\ Cardinality(S) \in Nat
        /\ Cardinality(done(S)) <= Cardinality(S) /\ Cardinality(S) # 0
        /\ Cardinality(S) = Cardinality(done(S)) => S = done(S)
    BY <2>1, <2>2, FS_CardinalityType, FS_Subset, FS_EmptySet
  <2>4. "completed" \in Status \ {"absent"} /\ id # 0
    BY DEF Status, TaskId
  <2>5. ObjectiveProgress(store, id).percent
            = (Cardinality(done(S)) * 100) \div Cardinality(S)
    BY <2>1, <2>4 DEF ObjectiveProgress, Progress
  <2>6. /\ ObjectiveProgress(store, id).percent \in Int
        /\ ObjectiveProgress(store, id).percent <= 100
        /\ ObjectiveProgress(store, id).percent = 100
               <=> Cardinality(done(S)) = Cardinality(S)
    BY <2>3, <2>5, PercentOf
  <2> QED
    BY <2>3, <2>6
<1>2. ASSUME TopLevel(store, lineage) # {}, NEW id \in Objectives(store, lineage)
      PROVE  ObjectiveProgress(store, id).percent < 100
  <2>1. id \in TaskId /\ store.task[id].status # "completed"
    BY <1>2 DEF Objectives, TopLevel, Present
  <2>2. id \in Scope(store, id) /\ id \notin WithStatus(store, "completed")
    BY <2>1, ScopeIsClosed DEF IInv, Sound, WithStatus
  <2>3. ~(Scope(store, id) \subseteq WithStatus(store, "completed"))
    BY <2>2
  <2> HIDE DEF done
  <2> QED
    BY <1>1, <2>1, <2>3
<1>3. ASSUME NEW id \in Present(store), ObjectiveProgress(store, id).percent = 100,
             NEW x \in Scope(store, id), NEW d \in WaitsFor(store, x, Remote)
      PROVE  FALSE
  <2>1. id \in TaskId /\ x \in TaskId
    BY ScopeIsClosed DEF Present, IInv, Sound
  <2>2. Scope(store, id) \subseteq WithStatus(store, "completed")
    BY <1>1, <1>3, <2>1
  <2>3. x \in Present(store)
    BY <2>2 DEF WithStatus, Present
  <2>4. d \in store.task[x].deps /\ d \in TaskId \cup Remote
    BY <1>3, <2>1 DEF WaitsFor, IInv, Sound, Store, Task
  <2>5. d \in TaskId /\ store.task[d].status # "completed"
    BY <1>3, <2>4 DEF WaitsFor
  <2>6. d \in Present(store)
    BY <2>3, <2>4, <2>5 DEF IInv, Sound, Rooted, LocalDeps
  <2>7. d \in Scope(store, id)
    BY <2>1, <2>4, <2>6, ScopeIsClosed DEF IInv, Sound
  <2> QED
    BY <2>2, <2>5, <2>7 DEF WithStatus
<1> QED
  BY <1>2, <1>3 DEF ProgressIsHonest

-----------------------------------------------------------------------------
(* Subtasks stay prerequisites of the task they were split from.           *)

\* The edges among tasks that stay are kept.
EdgesKept(s, u) ==
    \A t \in Present(s) \cap Present(u) :
        LocalDeps(s, t) \cap Present(u) \subseteq u.task[t].deps

SameDeps(s, u) == \A x \in TaskId : u.task[x].deps = s.task[x].deps

LEMMA SameDepsKept ==
    ASSUME NEW s, NEW u, SameDeps(s, u)
    PROVE  EdgesKept(s, u)
BY DEF SameDeps, EdgesKept, LocalDeps, Present

\* Writing a task that has the dependencies it had.
LEMMA SetTaskDeps ==
    ASSUME NEW s \in Store, NEW id, NEW new, NEW type,
           id \in TaskId => new.deps = s.task[id].deps
    PROVE  /\ SameDeps(s, SetTask(s, id, new))
           /\ SameDeps(s, AddEvent(SetTask(s, id, new), id, type))
<1>1. SameDeps(s, SetTask(s, id, new))
  BY DEF SameDeps, SetTask, Store
<1>2. AddEvent(SetTask(s, id, new), id, type).task = SetTask(s, id, new).task
  BY DEF AddEvent, SetTask, Store
<1> QED
  BY <1>1, <1>2 DEF SameDeps

\* The operations on one task that leave its dependencies alone.
LEMMA LeaseOperationsKeepEdges ==
    ASSUME NEW s \in Store, NEW id \in TaskId, NEW a, NEW ttl, NEW resolved, NEW t,
           NEW fits
    PROVE  /\ SameDeps(s, ClaimTask(s, id, a, ttl, resolved, t).store)
           /\ SameDeps(s, RenewLease(s, id, a, ttl, t).store)
           /\ SameDeps(s, HandoffTask(s, id, a, fits, t).store)
           /\ SameDeps(s, BlockTask(s, id, a).store)
           /\ SameDeps(s, UnblockTask(s, id).store)
<1>0. s.task[id] \in Task /\ SameDeps(s, s)
  BY DEF Store, SameDeps
<1>1. SameDeps(s, ClaimTask(s, id, a, ttl, resolved, t).store)
  <2> DEFINE new == Leased(s.task[id], a, t + ttl)
             u == AddEvent(SetTask(s, id, new), id, "task_claimed")
  <2>1. new.deps = s.task[id].deps
    BY <1>0, LeasedFields
  <2>2. SameDeps(s, u)
    <3> HIDE DEF new
    <3> QED
      BY <2>1, SetTaskDeps
  <2> HIDE DEF u
  <2>3. ClaimTask(s, id, a, ttl, resolved, t).store \in {s, u}
    BY DEF ClaimTask, Guarded, Outcome, u, new
  <2> QED
    BY <1>0, <2>2, <2>3
<1>2. SameDeps(s, RenewLease(s, id, a, ttl, t).store)
  <2> DEFINE new == [s.task[id] EXCEPT !.lease = t + ttl]
  <2>1. new.deps = s.task[id].deps
    BY <1>0 DEF Task
  <2>2. SameDeps(s, SetTask(s, id, new))
    <3> HIDE DEF new
    <3> QED
      BY <2>1, SetTaskDeps
  <2> QED
    BY <1>0, <2>2 DEF RenewLease, Guarded, Outcome
<1>3. \A st, type : SameDeps(s, AddEvent(SetTask(s, id, Yielded(s.task[id], st)), id, type))
  <2> TAKE st, type
  <2> DEFINE new == Yielded(s.task[id], st)
  <2>1. new.deps = s.task[id].deps
    BY <1>0, YieldedFields
  <2> HIDE DEF new
  <2>2. SameDeps(s, AddEvent(SetTask(s, id, new), id, type))
    BY <2>1, SetTaskDeps
  <2> QED
    BY <2>2 DEF new
<1>4. SameDeps(s, HandoffTask(s, id, a, fits, t).store)
  BY <1>0, <1>3 DEF HandoffTask, Guarded, Outcome
<1>5. SameDeps(s, BlockTask(s, id, a).store)
  BY <1>0, <1>3 DEF BlockTask, Guarded, Outcome
<1>6. SameDeps(s, UnblockTask(s, id).store)
  BY <1>0, <1>3 DEF UnblockTask, Guarded, Outcome
<1> QED
  BY <1>1, <1>2, <1>4, <1>5, <1>6

LEMMA BatchKeepsEdges ==
    ASSUME NEW s, Sound(s), NEW i \in TaskId, NEW j \in TaskId, NEW a, NEW resolved,
           NEW failure \in Failure \cup {NoFailure}
    PROVE  /\ SameDeps(s, CompleteBatch(s, i, j, a, resolved).store)
           /\ SameDeps(s, ReleaseBatch(s, i, j, a, failure).store)
<1>0. s \in Store
  BY DEF Sound
<1>1. SameDeps(s, CompleteBatch(s, i, j, a, resolved).store)
  <2> DEFINE u == CompleteTask(s, i, a, resolved).store
             w == CompleteTask(u, j, a, resolved).store
  <2>1. u \in Store /\ SameDeps(s, u)
    BY <1>0, CompleteSound, CompleteKeeps DEF Sound, SameDeps
  <2>2. SameDeps(u, w)
    <3> HIDE DEF u
    <3> QED
      BY <2>1, CompleteKeeps DEF SameDeps
  <2>3. SameDeps(s, w)
    <3> HIDE DEF u, w
    <3> QED
      BY <2>1, <2>2 DEF SameDeps
  <2>4. CompleteBatch(s, i, j, a, resolved).store \in {u, w}
    BY DEF CompleteBatch
  <2> HIDE DEF u, w
  <2> QED
    BY <2>1, <2>3, <2>4
<1>2. SameDeps(s, ReleaseBatch(s, i, j, a, failure).store)
  <2> DEFINE u == ReleaseTask(s, i, a, failure).store
             w == ReleaseTask(u, j, a, failure).store
  <2>1. u \in Store /\ SameDeps(s, u)
    BY <1>0, ReleaseSound, ReleaseKeeps DEF Sound, SameDeps
  <2>2. SameDeps(u, w)
    <3> HIDE DEF u
    <3> QED
      BY <2>1, ReleaseKeeps DEF SameDeps
  <2>3. SameDeps(s, w)
    <3> HIDE DEF u, w
    <3> QED
      BY <2>1, <2>2 DEF SameDeps
  <2>4. ReleaseBatch(s, i, j, a, failure).store \in {u, w}
    BY DEF ReleaseBatch
  <2> HIDE DEF u, w
  <2> QED
    BY <2>1, <2>3, <2>4
<1> QED
  BY <1>1, <1>2

LEMMA AcquireKeepsEdges ==
    ASSUME NEW s \in Store, NEW rid, NEW req, NEW resolved, NEW t
    PROVE  SameDeps(s, AcquireTask(s, rid, req, MaxLoad, resolved, t).store)
<1> DEFINE ready == ReadyTasks(s, req.caps, resolved)
           first == CHOOSE id \in ready : \A j \in ready \ {id} : RankedBefore(s, id, j)
           new == Leased(s.task[first], req.actor, t + req.ttl)
           granted == AddEvent(SetTask(s, first, new), first, "task_claimed")
           u == [granted EXCEPT !.receipt[rid] =
                    [req |-> req, id |-> first, lease |-> t + req.ttl, created |-> t]]
<1>1. AcquireTask(s, rid, req, MaxLoad, resolved, t).store \in {s, u}
  BY DEF AcquireTask, Outcome
<1> HIDE DEF first
<1>2. first \in TaskId => new.deps = s.task[first].deps
  BY LeasedFields DEF Store
<1>3. SameDeps(s, granted)
  <2> HIDE DEF new
  <2> QED
    BY <1>2, SetTaskDeps
<1>4. u.task = granted.task
  BY DEF AddEvent, SetTask, Store
<1> HIDE DEF u, granted
<1>5. SameDeps(s, u) /\ SameDeps(s, s)
  BY <1>3, <1>4 DEF SameDeps
<1> QED
  BY <1>1, <1>5

LEMMA CreateKeepsEdges ==
    ASSUME NEW s, Sound(s), s.nextID <= MaxTasks, NEW deps, NEW caps, NEW prio
    PROVE  EdgesKept(s, CreateTask(s, deps, caps, prio).store)
<1> DEFINE n == s.nextID
           u == AddEvent(AddTask(s, deps, caps, prio), n, "task_created")
<1>1. s \in Store /\ n \in TaskId /\ n \notin Present(s)
  BY CountsAssumption DEF Sound, Rooted, Store, TaskId, Present
<1>2. \A x \in TaskId \ {n} : u.task[x] = s.task[x]
  BY <1>1 DEF AddEvent, AddTask, Store
<1>3. EdgesKept(s, u) /\ EdgesKept(s, s)
  <2> HIDE DEF u
  <2> QED
    BY <1>1, <1>2 DEF EdgesKept, LocalDeps, Present
<1> QED
  BY <1>3 DEF CreateTask, Guarded, Outcome

\* The record of a task whose fields were edited.
LEMMA EditedTask ==
    ASSUME NEW t \in Task, NEW D, NEW caps, NEW prio
    PROVE  [[t EXCEPT !.deps = D] EXCEPT !.caps = caps, !.prio = prio].deps = D
<1> DEFINE r == [t EXCEPT !.deps = D]
<1>1. "deps" \in DOMAIN r /\ r.deps = D
  BY DEF Task
<1> HIDE DEF r
<1>2. [r EXCEPT !.caps = caps, !.prio = prio].deps = r.deps
  BY <1>1
<1> QED
  BY <1>1, <1>2 DEF r

\* An update that drops nothing.
LEMMA UpdateKeepsEdges ==
    ASSUME NEW s \in Store, NEW id \in TaskId, NEW a, NEW add, NEW caps, NEW prio, NEW fits
    PROVE  EdgesKept(s, UpdateTask(s, id, a, add, {}, caps, prio, fits).store)
<1> DEFINE edited == IF add \cup {} = {} THEN Outcome(TRUE, s)
                     ELSE EditDependencies(s, id, add, {})
           t == edited.store.task[id]
           u == SetTask(edited.store, id, [t EXCEPT !.caps = caps, !.prio = prio])
           grown == SetTask(s, id, [s.task[id] EXCEPT !.deps = (@ \ {}) \cup add])
<1>0. s.task[id] \in Task
  BY DEF Store
<1>1. UpdateTask(s, id, a, add, {}, caps, prio, fits).store \in {s, u}
  BY DEF UpdateTask, Outcome
<1>2. edited.store \in {s, grown}
  BY DEF EditDependencies, Guarded, Outcome
<1>3. ASSUME edited.store = s PROVE EdgesKept(s, u)
  BY <1>0, <1>3 DEF SetTask, Store, Task, EdgesKept, LocalDeps, Present
<1>4. ASSUME edited.store = grown PROVE EdgesKept(s, u)
  <2>1. /\ \A x \in TaskId \ {id} : grown.task[x] = s.task[x]
        /\ grown.task[id] = [s.task[id] EXCEPT !.deps = (@ \ {}) \cup add]
        /\ grown.task = [x \in TaskId |-> grown.task[x]]
        /\ "task" \in DOMAIN grown
    BY DEF SetTask, Store
  <2> HIDE DEF grown
  <2>2. /\ \A x \in TaskId \ {id} : u.task[x] = grown.task[x]
        /\ u.task[id] = [grown.task[id] EXCEPT !.caps = caps, !.prio = prio]
    BY <1>4, <2>1 DEF SetTask
  <2> HIDE DEF u
  <2>3. u.task[id].deps = s.task[id].deps \cup add
    <3>1. grown.task[id] = [s.task[id] EXCEPT !.deps = s.task[id].deps \cup add]
      <4>1. (s.task[id].deps \ {}) \cup add = s.task[id].deps \cup add
        OBVIOUS
      <4> QED
        BY <2>1, <4>1
    <3>2. u.task[id] = [[s.task[id] EXCEPT !.deps = s.task[id].deps \cup add]
                            EXCEPT !.caps = caps, !.prio = prio]
      BY <2>2, <3>1
    <3> QED
      BY <1>0, <3>2, EditedTask
  <2> QED
    BY <2>1, <2>2, <2>3 DEF EdgesKept, LocalDeps, Present
<1>5. EdgesKept(s, s)
  BY DEF EdgesKept, LocalDeps
<1> HIDE DEF u, grown, edited
<1> QED
  BY <1>1, <1>2, <1>3, <1>4, <1>5

\* The subtasks of a decompose become prerequisites of their parent.
LEMMA DecomposeKeepsEdges ==
    ASSUME NEW s, Sound(s), NEW id \in TaskId, NEW a, NEW n \in Nat, NEW caps
    PROVE  LET u == DecomposeTask(s, id, a, n, caps).store
           IN  /\ EdgesKept(s, u)
               /\ Present(s) \subseteq Present(u)
               /\ \A x \in Present(u) \ Present(s) :
                      id \in Present(s) /\ x \in u.task[id].deps
<1> DEFINE children == s.nextID .. (s.nextID + n - 1)
           t == s.task[id]
           new == t.deps \cup children
           child == [NoTask EXCEPT !.status = "pending", !.caps = caps]
           parent == [Yielded(t, "pending") EXCEPT !.deps = new]
           ok == /\ t.status \notin {"absent", "completed"}
                 /\ MayTouch(s, id, a)
                 /\ Cardinality(new) <= MaxDeps
                 /\ ~DetectCycle([Edges(s) EXCEPT ![id] = new])
           u == AddEvent([s EXCEPT
                    !.task = [x \in TaskId |->
                        IF x \in children THEN child
                        ELSE IF x = id THEN parent
                        ELSE s.task[x]],
                    !.nextID = @ + n],
                    id, "task_decomposed")
<1>1. s \in Store /\ t \in Task
  BY DEF Sound, Store
<1>2. \A x \in Present(s) : x \notin children
  BY DEF Sound, Rooted, Store, TaskId, Present
<1>3. u.task = [x \in TaskId |-> IF x \in children THEN child
                                 ELSE IF x = id THEN parent ELSE s.task[x]]
  BY <1>1 DEF AddEvent, Store
<1>4. child.status = "pending"
  BY DEF NoTask
<1>5. parent.status = "pending" /\ parent.deps = new
  BY <1>1 DEF Yielded, Task
<1> HIDE DEF u, children, parent, child
<1>6. CASE ok
  <2>1. id \in Present(s)
    BY <1>6 DEF Present
  <2>2. u.task[id].deps = new /\ id \notin children
    BY <1>2, <1>3, <1>5, <2>1
  <2>3. Present(s) \subseteq Present(u)
    BY <1>3, <1>4, <1>5 DEF Present
  <2>4. \A x \in Present(u) \ Present(s) : x \in children
    BY <1>3, <2>1 DEF Present
  <2>5. EdgesKept(s, u)
    BY <1>2, <1>3, <2>2 DEF EdgesKept, LocalDeps, Present
  <2>6. DecomposeTask(s, id, a, n, caps).store = u
    BY <1>6 DEF DecomposeTask, Guarded, Outcome, u, children, parent, child
  <2> QED
    BY <2>1, <2>2, <2>3, <2>4, <2>5, <2>6
<1>7. CASE ~ok
  <2>1. DecomposeTask(s, id, a, n, caps).store = s
    BY <1>7 DEF DecomposeTask, Guarded, Outcome, children
  <2> QED
    BY <2>1 DEF EdgesKept, LocalDeps
<1> QED
  BY <1>6, <1>7

LEMMA RemovalsKeepEdges ==
    ASSUME NEW s \in Store, NEW R \in SUBSET TaskId
    PROVE  /\ EdgesKept(s, RemoveTasks(s, R).store)
           /\ EdgesKept(s, PruneCompletedTasks(s).store)
<1>0. \A x \in TaskId : s.task[x] \in Task
  BY DEF Store
<1>1. EdgesKept(s, s)
  BY DEF EdgesKept, LocalDeps
<1>2. ASSUME NEW v \in Store, NEW D \in SUBSET TaskId
      PROVE  \A x \in TaskId : Without(v, D).task[x] = IF x \in D THEN NoTask ELSE v.task[x]
  BY DEF Without, Store
<1>3. EdgesKept(s, RemoveTasks(s, R).store)
  <2> DEFINE announced == [s EXCEPT !.feed = [id \in TaskId |->
                              IF id \in R THEN Remember(s.feed[id], "task_removed")
                              ELSE s.feed[id]]]
             u == Without(announced, R)
  <2>1. announced.task = s.task
    BY DEF Store
  <2>2. \A x \in TaskId : u.task[x] = IF x \in R THEN NoTask ELSE s.task[x]
    BY <2>1 DEF Without, Store
  <2>3. EdgesKept(s, u)
    <3> HIDE DEF u
    <3> QED
      BY <2>2 DEF EdgesKept, LocalDeps, Present, NoTask
  <2> QED
    BY <1>1, <2>3 DEF RemoveTasks, Guarded, Outcome
<1>4. EdgesKept(s, PruneCompletedTasks(s).store)
  <2> DEFINE done == {id \in TaskId : s.task[id].status = "completed"}
             u == Without(CutEdges(s, done), done)
  <2>1. \A x \in TaskId : CutEdges(s, done).task[x] = [s.task[x] EXCEPT !.deps = @ \ done]
    BY DEF CutEdges, Store
  <2>2. \A x \in TaskId :
            u.task[x] = IF x \in done THEN NoTask ELSE [s.task[x] EXCEPT !.deps = @ \ done]
    BY DEF Without, CutEdges, Store
  <2>3. u = PruneCompletedTasks(s).store
    BY DEF PruneCompletedTasks, Outcome
  <2>4. \A x \in TaskId : x \in done => u.task[x].status = "absent"
    <3>1. NoTask.status = "absent"
      BY DEF NoTask
    <3> HIDE DEF u, done
    <3> QED
      BY <2>2, <3>1
  <2>5. \A x \in TaskId : x \notin done => u.task[x].deps = s.task[x].deps \ done
    BY <1>0, <2>2 DEF Task
  <2> HIDE DEF u, done
  <2>6. EdgesKept(s, u)
    BY <2>4, <2>5 DEF EdgesKept, LocalDeps, Present
  <2> QED
    BY <2>3, <2>6
<1> QED
  BY <1>3, <1>4

\* The edges the committed store keeps are those the callback keeps.
LEMMA TransactEdges ==
    ASSUME IInv, NEW o, NEW at, EdgesKept(Reclaimed, o.store), Transact(o, at)
    PROVE  EdgesKept(store, store')
<1>1. /\ Present(Reclaimed) = Present(store)
      /\ \A t \in TaskId : LocalDeps(Reclaimed, t) = LocalDeps(store, t)
  BY Reclaiming DEF Present, LocalDeps
<1>2. EdgesKept(store, o.store)
  BY <1>1 DEF EdgesKept, Present
<1>3. EdgesKept(store, store)
  BY DEF EdgesKept, LocalDeps
<1> QED
  BY <1>2, <1>3 DEF Transact, Committed

LEMMA OtherCallKeepsEdges ==
    ASSUME IInv, OtherCall
    PROVE  EdgesKept(store, store')
<1>1. Sound(Reclaimed) /\ Reclaimed \in Store
  BY ReclaimedSound DEF Sound
<1>2. ASSUME NEW a \in Actor, LeaseCall(a) PROVE EdgesKept(store, store')
  <2>1. PICK id \in TaskId, at \in Later :
          \/ \E ttl \in TTL, resolved \in SUBSET Remote : Claim(a, id, ttl, resolved, at)
          \/ \E ttl \in TTL : Heartbeat(a, id, ttl, at)
          \/ \E fits \in BOOLEAN : Handoff(a, id, fits, at)
    BY <1>2 DEF LeaseCall
  <2>2. CASE \E ttl \in TTL, resolved \in SUBSET Remote : Claim(a, id, ttl, resolved, at)
    BY <1>1, <2>2, LeaseOperationsKeepEdges, SameDepsKept, TransactEdges DEF Claim
  <2>3. CASE \E ttl \in TTL : Heartbeat(a, id, ttl, at)
    BY <1>1, <2>3, LeaseOperationsKeepEdges, SameDepsKept, TransactEdges DEF Heartbeat
  <2>4. CASE \E fits \in BOOLEAN : Handoff(a, id, fits, at)
    BY <1>1, <2>4, LeaseOperationsKeepEdges, SameDepsKept, TransactEdges DEF Handoff
  <2> QED
    BY <2>1, <2>2, <2>3, <2>4
<1>3. ASSUME NEW a \in Actor, AcquireCall(a) PROVE EdgesKept(store, store')
  BY <1>1, <1>3, AcquireKeepsEdges, SameDepsKept, TransactEdges DEF AcquireCall, Acquire
<1>4. ASSUME NEW a \in Caller, StatusCall(a) PROVE EdgesKept(store, store')
  <2>1. PICK i \in TaskId :
          \/ \E j \in TaskId, resolved \in SUBSET Remote : Done(a, i, j, resolved)
          \/ \E j \in TaskId, failure \in Failure \cup {NoFailure} :
                 Release(a, i, j, failure)
          \/ Block(a, i)
    BY <1>4 DEF StatusCall
  <2>2. CASE \E j \in TaskId, resolved \in SUBSET Remote : Done(a, i, j, resolved)
    BY <1>1, <2>2, BatchKeepsEdges, SameDepsKept, TransactEdges DEF Done
  <2>3. CASE \E j \in TaskId, failure \in Failure \cup {NoFailure} : Release(a, i, j, failure)
    BY <1>1, <2>3, BatchKeepsEdges, SameDepsKept, TransactEdges DEF Release
  <2>4. CASE Block(a, i)
    BY <1>1, <2>4, LeaseOperationsKeepEdges, SameDepsKept, TransactEdges DEF Block
  <2> QED
    BY <2>1, <2>2, <2>3, <2>4
<1>5. ASSUME OpenCall PROVE EdgesKept(store, store')
  <2>1. ASSUME NEW deps, NEW caps, NEW prio, Add(deps, caps, prio)
        PROVE  EdgesKept(store, store')
    <3>1. Reclaimed.nextID <= MaxTasks
      BY <2>1, Reclaiming DEF Add
    <3> QED
      BY <1>1, <2>1, <3>1, CreateKeepsEdges, TransactEdges DEF Add
  <2>2. ASSUME NEW id \in TaskId, Unblock(id) PROVE EdgesKept(store, store')
    BY <1>1, <2>2, LeaseOperationsKeepEdges, SameDepsKept, TransactEdges DEF Unblock
  <2>3. ASSUME NEW R \in SUBSET TaskId, Remove(R) PROVE EdgesKept(store, store')
    BY <1>1, <2>3, RemovalsKeepEdges, TransactEdges DEF Remove
  <2>4. ASSUME Prune PROVE EdgesKept(store, store')
    <3>1. EdgesKept(Reclaimed, PruneCompletedTasks(Reclaimed).store)
      BY <1>1, RemovalsKeepEdges
    <3> QED
      BY <2>4, <3>1, TransactEdges DEF Prune
  <2>5. ASSUME Query PROVE EdgesKept(store, store')
    BY <2>5, Reclaiming, SameDepsKept DEF Query, SameDeps
  <2> QED
    BY <1>5, <2>1, <2>2, <2>3, <2>4, <2>5 DEF OpenCall
<1>6. ASSUME Tick PROVE EdgesKept(store, store')
  BY <1>6 DEF Tick, EdgesKept, LocalDeps
<1> QED
  BY <1>2, <1>3, <1>4, <1>5, <1>6 DEF OtherCall

\* Until an update drops an edge, a subtask is a prerequisite of its parent
\* while both are there; the parent was there when the subtask was made.
Counted ==
    /\ ~cut => \A t, x \in Present(store) : lineage[x] = t => x \in store.task[t].deps
    /\ \A x \in TaskId :
        /\ lineage[x] < store.nextID
        /\ x \notin Present(store) => lineage[x] = 0

\* A step that keeps the edges and the lineage of what is there.
LEMMA KeptCounted ==
    ASSUME IInv, IInv', LineageOK, Counted, ~cut' => ~cut /\ EdgesKept(store, store'),
           Lasting(store, store'), lineage' = Kept
    PROVE  Counted'
<1>0. /\ store.nextID \in Nat /\ store'.nextID \in Nat /\ TaskId \subseteq Nat /\ 0 \notin TaskId
      /\ store.nextID > 0 /\ store'.nextID > 0
      /\ \A x \in TaskId : lineage[x] \in Nat
  BY CountsAssumption DEF IInv, Sound, Store, TaskId, LineageOK
<1>1. \A x \in TaskId : lineage'[x] = IF x \in Present(store') THEN lineage[x] ELSE 0
  BY DEF Kept
<1>2. ASSUME NEW x \in Present(store'), x \notin Present(store)
      PROVE  x >= store.nextID /\ lineage[x] = 0
  <2>1. x \in TaskId /\ store.task[x].status = "absent" /\ store'.task[x].status # "absent"
    BY <1>2 DEF Present
  <2>2. ~(x < store.nextID)
    BY <2>1 DEF Lasting
  <2>3. lineage[x] = 0
    BY <1>2, <2>1 DEF Counted
  <2>4. x \in Nat /\ store.nextID \in Nat
    BY <1>0, <2>1
  <2> QED
    BY <2>2, <2>3, <2>4
<1>3. ASSUME ~cut', NEW t \in Present(store'), NEW x \in Present(store'), lineage'[x] = t
      PROVE  x \in store'.task[t].deps
  <2>1. x \in TaskId /\ t \in TaskId /\ lineage[x] = t /\ t # 0
    BY <1>0, <1>1, <1>3 DEF Present
  <2>2. x \in Present(store) /\ t \in Present(store)
    BY <1>0, <1>2, <1>3, <2>1 DEF Counted
  <2>3. x \in store.task[t].deps /\ EdgesKept(store, store')
    BY <1>3, <2>1, <2>2 DEF Counted
  <2> QED
    BY <1>3, <2>1, <2>2, <2>3 DEF EdgesKept, LocalDeps
<1>4. ASSUME NEW x \in TaskId
      PROVE  /\ lineage'[x] < store'.nextID
             /\ x \notin Present(store') => lineage'[x] = 0
  BY <1>0, <1>1 DEF Counted, Lasting
<1> QED
  BY <1>3, <1>4 DEF Counted

LEMMA SplitCounted ==
    ASSUME IInv, IInv', LineageOK, Counted, Lasting(store, store'),
           NEW a \in Caller, Split(a)
    PROVE  Counted'
<1>0. /\ store.nextID \in Nat /\ store'.nextID \in Nat /\ TaskId \subseteq Nat /\ 0 \notin TaskId
      /\ \A x \in TaskId : lineage[x] \in Nat
      /\ \A x \in Present(store) : x \in TaskId /\ x < store.nextID
  BY CountsAssumption DEF IInv, Sound, Rooted, Store, TaskId, LineageOK, Present
<1>1. PICK id \in TaskId, n \in 1..MaxChildren, caps \in SUBSET Capability :
          /\ Decompose(a, id, n, caps)
          /\ lineage' = [x \in TaskId |->
                 IF x \in Present(store') \ Present(store) THEN id ELSE lineage[x]]
          /\ UNCHANGED cut
  BY <1>0 DEF Split, ChildOf
<1>2. /\ EdgesKept(store, store')
      /\ Present(store) \subseteq Present(store')
      /\ \A x \in Present(store') \ Present(store) :
             id \in Present(store) /\ x \in store'.task[id].deps
  <2> DEFINE o == DecomposeTask(Reclaimed, id, a, n, caps)
  <2>1. Sound(Reclaimed) /\ Present(Reclaimed) = Present(store)
    BY ReclaimedSound, Reclaiming DEF Present
  <2>2. n \in Nat
    BY BoardAssumption
  <2>3. /\ EdgesKept(Reclaimed, o.store)
        /\ Present(Reclaimed) \subseteq Present(o.store)
        /\ \A x \in Present(o.store) \ Present(Reclaimed) :
               id \in Present(Reclaimed) /\ x \in o.store.task[id].deps
    BY <2>1, <2>2, DecomposeKeepsEdges
  <2> HIDE DEF o
  <2>4. Transact(o, now)
    BY <1>1 DEF Decompose, o
  <2>5. EdgesKept(store, store')
    BY <2>3, <2>4, TransactEdges
  <2>6. store' \in {store, o.store}
    BY <2>4 DEF Transact, Committed
  <2> QED
    BY <2>1, <2>3, <2>5, <2>6
<1>3. \A x \in TaskId :
          lineage'[x] = IF x \in Present(store') \ Present(store) THEN id ELSE lineage[x]
  BY <1>1
<1>4. ASSUME ~cut', NEW t \in Present(store'), NEW x \in Present(store'), lineage'[x] = t
      PROVE  x \in store'.task[t].deps
  <2>1. x \in TaskId /\ t \in TaskId /\ t # 0
    BY <1>0 DEF Present
  <2>2. CASE x \notin Present(store)
    BY <1>2, <1>3, <1>4, <2>1, <2>2
  <2>3. CASE x \in Present(store)
    <3>1. lineage[x] = t /\ ~cut
      BY <1>1, <1>3, <1>4, <2>1, <2>3
    <3>2. t < store.nextID
      BY <2>1, <3>1 DEF Counted
    <3>3. t \in Present(store)
      BY <1>4, <2>1, <3>2 DEF Lasting, Present
    <3>4. x \in store.task[t].deps
      BY <2>3, <3>1, <3>3 DEF Counted
    <3> QED
      BY <1>2, <1>4, <2>1, <3>3, <3>4 DEF EdgesKept, LocalDeps
  <2> QED
    BY <2>2, <2>3
<1>5. ASSUME NEW x \in TaskId
      PROVE  /\ lineage'[x] < store'.nextID
             /\ x \notin Present(store') => lineage'[x] = 0
  <2>1. store.nextID <= store'.nextID
    BY DEF Lasting
  <2>2. lineage[x] < store.nextID /\ (x \notin Present(store) => lineage[x] = 0)
    BY DEF Counted
  <2> QED
    BY <1>0, <1>2, <1>3, <2>1, <2>2
<1> QED
  BY <1>4, <1>5 DEF Counted

LEMMA CountedStep == IInv /\ IInv' /\ LineageOK /\ Counted /\ [ViewsNext]_views => Counted'
<1> SUFFICES ASSUME IInv, IInv', LineageOK, Counted, [ViewsNext]_views PROVE Counted'
  OBVIOUS
<1>1. Lasting(store, store')
  BY ViewsStepsAreCalls, StepEffect DEF Effect
<1>2. ASSUME NEW a \in Caller, Split(a) PROVE Counted'
  BY <1>1, <1>2, SplitCounted
<1>3. ASSUME NEW a \in Caller, Edit(a) PROVE Counted'
  <2>1. PICK id \in TaskId, add \in Edits, drop \in Edits, caps \in SUBSET Capability,
             prio \in Priority, fits \in BOOLEAN :
          /\ Update(a, id, add, drop, caps, prio, fits)
          /\ lineage' = Kept
          /\ cut' = (cut \/ drop # {})
    BY <1>3 DEF Edit
  <2>2. ASSUME ~cut' PROVE ~cut /\ EdgesKept(store, store')
    <3>1. ~cut /\ drop = {}
      BY <2>1, <2>2
    <3>2. Reclaimed \in Store
      BY ReclaimedSound DEF Sound
    <3>3. Update(a, id, add, {}, caps, prio, fits)
      BY <2>1, <3>1
    <3> QED
      BY <3>1, <3>2, <3>3, UpdateKeepsEdges, TransactEdges DEF Update
  <2> QED
    BY <1>1, <2>1, <2>2, KeptCounted
<1>4. ASSUME OtherCall PROVE Counted'
  <2>1. EdgesKept(store, store')
    BY <1>4, OtherCallKeepsEdges
  <2> QED
    BY <1>1, <1>4, <2>1, KeptCounted DEF OtherCall
<1>5. ASSUME UNCHANGED views PROVE Counted'
  BY <1>5 DEF views, vars, Counted, Present
<1> QED
  BY <1>2, <1>3, <1>4, <1>5 DEF ViewsNext

LEMMA CountedInvariance == ViewsSpec => [](IInv /\ LineageOK /\ Counted)
<1>1. ViewsInit => IInv /\ LineageOK /\ Counted
  <2> SUFFICES ASSUME ViewsInit PROVE IInv /\ LineageOK /\ Counted
    OBVIOUS
  <2>1. IInv
    BY InitSound DEF ViewsInit
  <2>2. LineageOK
    <3>1. 0 \in 0..MaxTasks /\ FALSE \in BOOLEAN
      BY CountsAssumption
    <3> QED
      BY <3>1 DEF ViewsInit, LineageOK
  <2>3. Present(store) = {} /\ store.nextID = 1
    BY DEF ViewsInit, Init, NewTaskStore, NoTask, Present
  <2>4. Counted
    BY <2>3 DEF ViewsInit, Counted
  <2> QED
    BY <2>1, <2>2, <2>4
<1>2. IInv /\ LineageOK /\ Counted /\ [ViewsNext]_views
          => (IInv /\ LineageOK /\ Counted)'
  BY ViewsStepsAreCalls, StepSound, LineageStep, CountedStep
<1> QED
  BY <1>1, <1>2, PTL DEF ViewsSpec

(***************************************************************************)
(* What lineage shows under a task, its dependency progress counts, for    *)
(* every number of tasks and however deep they are split: until an update  *)
(* drops an edge, no call takes a subtask out of the closure of its parent *)
(* while both are there.                                                   *)
(***************************************************************************)
THEOREM SubtasksStayCounted == ViewsSpec => []SubtasksAreCounted
<1> SUFFICES ASSUME IInv, LineageOK, Counted PROVE SubtasksAreCounted
  BY CountedInvariance, PTL
<1>1. ASSUME ~cut, NEW id \in Present(store)
      PROVE  Descendants(store, lineage, id) \subseteq Scope(store, id)
  <2> DEFINE next == [t \in TaskId |-> {x \in Present(store) : lineage[x] = t}]
             S == Scope(store, id) \cap Present(store)
  <2>1. id \in TaskId /\ next \in [TaskId -> SUBSET TaskId]
    BY DEF Present
  <2>2. /\ id \in Scope(store, id)
        /\ \A x \in Scope(store, id) :
               store.task[x].deps \cap Present(store) \subseteq Scope(store, id)
    BY <2>1, ScopeIsClosed DEF IInv, Sound
  <2>3. S \in SUBSET TaskId /\ id \in S
    BY <2>2 DEF Present
  <2>4. \A t \in S : next[t] \subseteq S
    <3>1. \A t \in S : next[t] = {x \in Present(store) : lineage[x] = t}
      BY <2>3
    <3> HIDE DEF next
    <3> QED
      BY <1>1, <2>2, <3>1 DEF Counted
  <2>5. Descendants(store, lineage, id) = Reached(id, next) \ {id}
    BY DEF Descendants
  <2> HIDE DEF next, S
  <2>6. Reached(id, next) \subseteq S
    BY <2>1, <2>3, <2>4, ReachedIsLeast
  <2> QED
    BY <2>5, <2>6 DEF S
<1> QED
  BY <1>1 DEF SubtasksAreCounted

=============================================================================
