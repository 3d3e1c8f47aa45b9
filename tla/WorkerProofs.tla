---------------------------- MODULE WorkerProofs ----------------------------
(***************************************************************************)
(* Theorems about Worker for any number of processes, agents, request IDs, *)
(* tasks, calls, limits and waits, and any TTL.                            *)
(*                                                                         *)
(* The proofs rest on what a transaction of one agent may do to the work   *)
(* of another (Moves), which every operation that runs in one satisfies,   *)
(* and on the fact that nothing an agent was told is worth more than the   *)
(* store (Backed): the replies in flight and the receipts that may still   *)
(* be replayed are backed like the beliefs.                                *)
(***************************************************************************)
EXTENDS Worker, TLAPS, FiniteSetTheorems, WellFoundedInduction

\* The store of Worker: that of TaskStore, with its own receipts.
WStore ==
    [task    : [TaskId -> Task],
     nextID  : 1..(MaxTasks + 1),
     receipt : [RequestId -> Granted \cup {NoReceipt}],
     feed    : [TaskId -> Seq(EventType)]]

\* A well-formed store: no lease runs beyond the TTL of a call made now, and IDs
\* that were not given have no task.
Fit(s) ==
    /\ s \in WStore
    /\ \A id \in TaskId : s.task[id].lease <= now + Lease
    /\ \A id \in TaskId : s.nextID <= id => s.task[id].status = "absent"

\* A process at work serves a call of an agent that is registered.
Serves(p) ==
    pc[p] # "idle" =>
        /\ call[p].kind \in {"acquire", "claim"} /\ call[p].actor \in Actor
        /\ call[p].kind = "acquire" => call[p].rid \in RequestId
        /\ call[p].kind = "claim" => call[p].id \in TaskId
        /\ pc[p] = "replying" => call[p].id \in TaskId
        /\ pc[p] # "registering" => card[call[p].actor].known

Serving == \A p \in Proc : Serves(p)

Believers == \A a \in Actor : belief[a] # {} => card[a].known

\* A request ID is answered by its receipt, and by nothing before there is one.
ByReceipt ==
    \A r \in RequestId :
        \A id \in answers[r] : store.receipt[r] # NoReceipt /\ store.receipt[r].id = id

\* What agent a may believe: it has the task until the lease ends, or has ended
\* the work itself.
Backed(a, b) == b.lease > now /\ b.id \notin ended[a] => Holds(a, b)

ReplyBacked(p) ==
    pc[p] = "replying" =>
        Backed(call[p].actor, [id |-> call[p].id, lease |-> call[p].lease])

ReceiptBacked(r) ==
    store.receipt[r] # NoReceipt =>
        Backed(store.receipt[r].print.actor,
               [id |-> store.receipt[r].id, lease |-> store.receipt[r].lease])

Believable ==
    /\ \A p \in Proc : ReplyBacked(p)
    /\ \A r \in RequestId : ReceiptBacked(r)

IInv ==
    /\ TypeOK /\ Fit(store) /\ Serving /\ Believers
    /\ OwnersAreRegistered /\ ByReceipt /\ Believable /\ BelievedLeasesAreHeld

-----------------------------------------------------------------------------
(* What a transaction may do to the work of others.                        *)

Live(s, id) ==
    /\ s.task[id].status = "in_progress" /\ s.task[id].owner # NoActor
    /\ s.task[id].lease > now

\* The holder of a task still holds it, for as long as before or longer.
Lasts(s, u, id) ==
    /\ u.task[id].status = "in_progress" /\ u.task[id].owner = s.task[id].owner
    /\ u.task[id].lease >= s.task[id].lease

\* What a transaction of agent a that ends its own work on E makes of s.
Moves(s, u, a, E) ==
    /\ Fit(u)
    /\ \A id \in TaskId :
        /\ u.task[id].owner \in {NoActor, a, s.task[id].owner}
        /\ Live(s, id) => Lasts(s, u, id) \/ (s.task[id].owner = a /\ id \in E)

SameReceipts(s, u) == \A r \in RequestId : u.receipt[r] = s.receipt[r]

\* Recording an event keeps a feed a sequence of event types.
LEMMA RememberType ==
    ASSUME NEW q \in Seq(EventType), NEW type \in EventType
    PROVE  Remember(q, type) \in Seq(EventType)
<1>1. /\ Append(q, type) \in Seq(EventType)
      /\ Len(Append(q, type)) = Len(q) + 1
      /\ Len(q) \in Nat
  OBVIOUS
<1>2. Append(q, type) # << >>
  BY <1>1, Len(<< >>) = 0
<1>3. Tail(Append(q, type)) \in Seq(EventType)
  BY <1>1, <1>2
<1> QED
  BY <1>1, <1>3 DEF Remember

\* The numbers the clock and the leases are.
LEMMA Clock == TypeOK => now \in Nat \ {0} /\ Lease \in Nat /\ now + Lease \in Nat
  BY WorkerAssumption DEF TypeOK

\* Only the task x is another one, and only its feed.
OneTask(s, u, x, new) ==
    /\ u \in WStore /\ u.nextID = s.nextID /\ SameReceipts(s, u)
    /\ u.task[x] = new /\ \A y \in TaskId \ {x} : u.task[y] = s.task[y]

LEMMA SetTaskOne ==
    ASSUME NEW s \in WStore, NEW x \in TaskId, NEW new \in Task
    PROVE  OneTask(s, SetTask(s, x, new), x, new)
BY DEF SetTask, OneTask, WStore, SameReceipts

LEMMA AddEventOne ==
    ASSUME NEW s \in WStore, NEW u, NEW x \in TaskId, NEW new, OneTask(s, u, x, new),
           NEW type \in EventType
    PROVE  OneTask(s, AddEvent(u, x, type), x, new)
<1>1. u.feed[x] \in Seq(EventType)
  BY DEF OneTask, WStore
<1>2. Remember(u.feed[x], type) \in Seq(EventType)
  BY <1>1, RememberType
<1> QED
  BY <1>2 DEF AddEvent, OneTask, WStore, SameReceipts

\* One task changed in a way that respects the work of others.
LEMMA OneTaskMoves ==
    ASSUME NEW s, Fit(s), NEW u, NEW x \in TaskId, NEW new, NEW a, NEW E,
           OneTask(s, u, x, new), new.lease <= now + Lease,
           new.owner \in {NoActor, a, s.task[x].owner}, s.task[x].status # "absent",
           Live(s, x) => \/ /\ new.status = "in_progress" /\ new.owner = s.task[x].owner
                            /\ new.lease >= s.task[x].lease
                         \/ s.task[x].owner = a /\ x \in E
    PROVE  Moves(s, u, a, E) /\ SameReceipts(s, u)
<1>1. \A y \in TaskId \ {x} : u.task[y] = s.task[y]
  BY DEF OneTask
<1>2. \A y \in TaskId : s.task[y].lease \in Nat
  BY DEF Fit, WStore, Task
<1>3. Fit(u)
  BY <1>1 DEF Fit, OneTask
<1>4. ASSUME NEW y \in TaskId
      PROVE  /\ u.task[y].owner \in {NoActor, a, s.task[y].owner}
             /\ Live(s, y) => Lasts(s, u, y) \/ (s.task[y].owner = a /\ y \in E)
  <2>1. CASE y = x
    BY <2>1 DEF OneTask, Live, Lasts
  <2>2. CASE y # x
    <3>1. u.task[y] = s.task[y] /\ s.task[y].lease >= s.task[y].lease
      BY <1>1, <1>2, <2>2
    <3> QED
      BY <3>1 DEF Live, Lasts
  <2> QED
    BY <2>1, <2>2
<1> QED
  BY <1>3, <1>4 DEF Moves, OneTask

\* The task x of s, changed to `new`, with an event.
LEMMA Recording ==
    ASSUME NEW s, Fit(s), NEW x \in TaskId, NEW new \in Task, NEW type \in EventType
    PROVE  /\ OneTask(s, SetTask(s, x, new), x, new)
           /\ OneTask(s, AddEvent(SetTask(s, x, new), x, type), x, new)
<1>1. s \in WStore
  BY DEF Fit
<1>2. OneTask(s, SetTask(s, x, new), x, new)
  BY <1>1, SetTaskOne
<1> QED
  BY <1>1, <1>2, AddEventOne

\* A transaction may do nothing.
LEMMA NoMove ==
    ASSUME NEW s, Fit(s), NEW a, NEW E
    PROVE  Moves(s, s, a, E) /\ SameReceipts(s, s)
<1>1. \A y \in TaskId : s.task[y].lease \in Nat
  BY DEF Fit, WStore, Task
<1> QED
  BY <1>1 DEF Moves, Live, Lasts, SameReceipts

LEMMA MovesCompose ==
    ASSUME TypeOK, NEW s, NEW u, NEW v, NEW a, NEW E,
           Fit(s), Moves(s, u, a, E), Moves(u, v, a, E)
    PROVE  Moves(s, v, a, E)
<1> SUFFICES ASSUME NEW id \in TaskId
             PROVE  /\ v.task[id].owner \in {NoActor, a, s.task[id].owner}
                    /\ Live(s, id) => Lasts(s, v, id) \/ (s.task[id].owner = a /\ id \in E)
  BY DEF Moves
<1>1. v.task[id].owner \in {NoActor, a, s.task[id].owner}
  BY DEF Moves
<1>2. ASSUME Live(s, id), ~(s.task[id].owner = a /\ id \in E) PROVE Lasts(s, v, id)
  <2>0. s.task[id].lease \in Nat /\ u.task[id].lease \in Nat /\ v.task[id].lease \in Nat
    BY DEF Moves, Fit, WStore, Task
  <2>1. Lasts(s, u, id)
    BY <1>2 DEF Moves
  <2>2. Live(u, id) /\ ~(u.task[id].owner = a /\ id \in E)
    <3>1. now < s.task[id].lease /\ u.task[id].lease >= s.task[id].lease
      BY <1>2, <2>1 DEF Live, Lasts
    <3> QED
      BY <1>2, <2>0, <2>1, <3>1, Clock DEF Live, Lasts
  <2>3. Lasts(u, v, id)
    BY <2>2 DEF Moves
  <2> QED
    BY <2>0, <2>1, <2>3 DEF Lasts
<1> QED
  BY <1>1, <1>2

-----------------------------------------------------------------------------
(* The operations.                                                         *)

\* What Yielded and Leased make of a task.
LEMMA YieldedFields ==
    ASSUME NEW t \in Task, NEW st \in Status
    PROVE  /\ Yielded(t, st) \in Task /\ Yielded(t, st).status = st
           /\ Yielded(t, st).owner = NoActor /\ Yielded(t, st).lease = 0
BY DEF Yielded, Task

LEMMA LeasedFields ==
    ASSUME NEW t \in Task, NEW a \in Actor, NEW n \in Nat
    PROVE  /\ Leased(t, a, n) \in Task /\ Leased(t, a, n).status = "in_progress"
           /\ Leased(t, a, n).owner = a /\ Leased(t, a, n).lease = n
BY DEF Leased, Task, Status

\* The operations take the work of nobody else.
LEMMA ClaimMoves ==
    ASSUME TypeOK, NEW s, Fit(s), NEW id \in TaskId, NEW a \in Actor
    PROVE  LET outcome == ClaimTask(s, id, a, Lease, {}, now)
               u == outcome.store
           IN  /\ Moves(s, u, a, {}) /\ SameReceipts(s, u)
               /\ outcome.ok => /\ u.task[id].status = "in_progress"
                                /\ u.task[id].owner = a
                                /\ u.task[id].lease = now + Lease
<1> DEFINE outcome == ClaimTask(s, id, a, Lease, {}, now)
           new == Leased(s.task[id], a, now + Lease)
           u == AddEvent(SetTask(s, id, new), id, "task_claimed")
<1>0. s.task[id] \in Task /\ now + Lease \in Nat
  BY Clock DEF Fit, WStore
<1>1. new \in Task /\ new.status = "in_progress" /\ new.owner = a /\ new.lease = now + Lease
  BY <1>0, LeasedFields
<1>2. CASE outcome.ok
  <2>1. outcome.store = u /\ Claimable(s, id)
        /\ (MayTouch(s, id, a) \/ s.task[id].lease <= now)
    BY <1>2 DEF ClaimTask, Guarded, Outcome
  <2> HIDE DEF new, outcome
  <2>2. OneTask(s, u, id, new)
    BY <1>1, Recording DEF EventType
  <2> HIDE DEF u
  <2>3. ASSUME Live(s, id)
        PROVE  new.owner = s.task[id].owner /\ new.lease >= s.task[id].lease
    <3>1. s.task[id].owner # NoActor /\ ~(s.task[id].lease <= now)
      BY <1>0, <2>3, Clock DEF Live, Task
    <3>2. s.task[id].owner = a /\ s.task[id].lease <= now + Lease
      BY <2>1, <3>1 DEF MayTouch, Fit
    <3> QED
      BY <1>0, <1>1, <3>2 DEF Task
  <2>4. new.lease <= now + Lease /\ s.task[id].status # "absent"
    BY <1>0, <1>1, <2>1 DEF Claimable
  <2>5. Moves(s, u, a, {}) /\ SameReceipts(s, u)
    BY <1>1, <2>2, <2>3, <2>4, OneTaskMoves
  <2> QED
    BY <1>1, <2>1, <2>2, <2>5 DEF OneTask, outcome
<1>3. CASE ~outcome.ok
  <2>1. outcome.store = s
    BY <1>3 DEF ClaimTask, Guarded, Outcome
  <2> HIDE DEF outcome
  <2> QED
    BY <1>3, <2>1, NoMove DEF outcome
<1> QED
  BY <1>2, <1>3

\* done and release end the agent's own work.
LEMMA EndMoves ==
    ASSUME TypeOK, NEW s, Fit(s), NEW id \in TaskId, NEW a, NEW t \in Task,
           NEW st \in Status, NEW type \in EventType, MayTouch(s, id, a),
           s.task[id].status # "absent"
    PROVE  LET u == AddEvent(SetTask(s, id, Yielded(t, st)), id, type)
           IN  Moves(s, u, a, {id}) /\ SameReceipts(s, u)
<1> DEFINE new == Yielded(t, st)
           u == AddEvent(SetTask(s, id, new), id, type)
<1>1. new \in Task /\ new.owner = NoActor /\ new.lease = 0
  BY YieldedFields
<1> HIDE DEF new
<1>2. OneTask(s, u, id, new)
  BY <1>1, Recording
<1> HIDE DEF u
<1>3. new.lease <= now + Lease
  BY <1>1, Clock
<1>4. Live(s, id) => s.task[id].owner = a
  BY DEF Live, MayTouch
<1>5. Moves(s, u, a, {id}) /\ SameReceipts(s, u)
  BY <1>1, <1>2, <1>3, <1>4, OneTaskMoves
<1> QED
  BY <1>5 DEF u, new

LEMMA CompleteMoves ==
    ASSUME TypeOK, NEW s, Fit(s), NEW id \in TaskId, NEW a
    PROVE  LET u == CompleteTask(s, id, a, {}).store
           IN  Moves(s, u, a, {id}) /\ SameReceipts(s, u)
<1>1. s.task[id] \in Task /\ "completed" \in Status /\ "task_completed" \in EventType
  BY DEF Fit, WStore, Status, EventType
<1>2. CASE CompleteTask(s, id, a, {}).ok
  BY <1>1, <1>2, EndMoves DEF CompleteTask, Guarded, Outcome
<1>3. CASE ~CompleteTask(s, id, a, {}).ok
  BY <1>3, NoMove DEF CompleteTask, Guarded, Outcome
<1> QED
  BY <1>2, <1>3

LEMMA ReleaseMoves ==
    ASSUME TypeOK, NEW s, Fit(s), NEW id \in TaskId, NEW a
    PROVE  LET u == ReleaseTask(s, id, a, NoFailure).store
           IN  Moves(s, u, a, {id}) /\ SameReceipts(s, u)
<1> DEFINE t == s.task[id]
           charged == [t EXCEPT !.retries = IF @ < RetryCap THEN @ + 1 ELSE @,
                                !.error = @]
<1>1. t \in Task /\ "pending" \in Status /\ "task_released" \in EventType
  BY DEF Fit, WStore, Status, EventType
<1>2. charged \in Task
  <2>1. t.retries \in 0..RetryCap /\ RetryCap \in Nat
    BY <1>1, CountsAssumption DEF Task
  <2>2. (IF t.retries < RetryCap THEN t.retries + 1 ELSE t.retries) \in 0..RetryCap
    BY <2>1
  <2> QED
    BY <1>1, <2>2 DEF Task
<1>3. ReleaseTask(s, id, a, NoFailure) =
        Guarded(t.status = "in_progress" /\ MayTouch(s, id, a), s,
                AddEvent(SetTask(s, id, Yielded(charged, "pending")), id, "task_released"))
  BY DEF ReleaseTask
<1> HIDE DEF charged
<1>4. CASE t.status = "in_progress" /\ MayTouch(s, id, a)
  BY <1>1, <1>2, <1>3, <1>4, EndMoves DEF Guarded, Outcome
<1>5. CASE ~(t.status = "in_progress" /\ MayTouch(s, id, a))
  BY <1>3, <1>5, NoMove DEF Guarded, Outcome
<1> QED
  BY <1>4, <1>5

LEMMA RenewMoves ==
    ASSUME TypeOK, NEW s, Fit(s), NEW id \in TaskId, NEW a \in Actor
    PROVE  LET outcome == RenewLease(s, id, a, Lease, now)
               u == outcome.store
           IN  /\ Moves(s, u, a, {}) /\ SameReceipts(s, u)
               /\ outcome.ok => /\ u.task[id].status = "in_progress"
                                /\ u.task[id].owner = a
                                /\ u.task[id].lease = now + Lease
<1> DEFINE outcome == RenewLease(s, id, a, Lease, now)
           new == [s.task[id] EXCEPT !.lease = now + Lease]
           u == SetTask(s, id, new)
<1>0. s.task[id] \in Task /\ now + Lease \in Nat
  BY Clock DEF Fit, WStore
<1>1. /\ new \in Task /\ new.lease = now + Lease /\ new.owner = s.task[id].owner
      /\ new.status = s.task[id].status
  BY <1>0 DEF Task
<1>2. CASE outcome.ok
  <2>1. outcome.store = u /\ s.task[id].owner = a /\ s.task[id].status = "in_progress"
    BY <1>2 DEF RenewLease, LeaseActive, Guarded, Outcome
  <2> HIDE DEF new, outcome
  <2>2. OneTask(s, u, id, new)
    BY <1>1, Recording DEF EventType
  <2> HIDE DEF u
  <2>3. new.lease >= s.task[id].lease /\ new.lease <= now + Lease
    BY <1>0, <1>1 DEF Fit, Task
  <2>4. Moves(s, u, a, {}) /\ SameReceipts(s, u)
    BY <1>1, <2>1, <2>2, <2>3, OneTaskMoves
  <2> QED
    BY <1>1, <2>1, <2>2, <2>4 DEF OneTask, outcome
<1>3. CASE ~outcome.ok
  <2>1. outcome.store = s
    BY <1>3 DEF RenewLease, Guarded, Outcome
  <2> HIDE DEF outcome
  <2> QED
    BY <1>3, <2>1, NoMove DEF outcome
<1> QED
  BY <1>2, <1>3

LEMMA CreateMoves ==
    ASSUME TypeOK, NEW s, Fit(s), s.nextID <= MaxTasks, NEW caps \in SUBSET Capability, NEW a
    PROVE  LET u == CreateTask(s, {}, caps, 0).store
           IN  Moves(s, u, a, {}) /\ SameReceipts(s, u)
<1> DEFINE x == s.nextID
           new == [NoTask EXCEPT !.status = "pending", !.deps = {}, !.caps = caps, !.prio = 0]
           v == AddTask(s, {}, caps, 0)
           u == AddEvent(v, x, "task_created")
<1>0. s \in WStore /\ x \in TaskId /\ x \in Nat /\ x + 1 \in 1..(MaxTasks + 1)
      /\ \A y \in TaskId : y \in Nat
  BY CountsAssumption DEF Fit, WStore, TaskId
<1>1. new \in Task /\ new.status = "pending" /\ new.owner = NoActor /\ new.lease = 0
  <2>1. NoTask \in Task
    BY CountsAssumption DEF NoTask, Task, Status, Priority
  <2>2. 0 \in Priority
    BY CountsAssumption DEF Priority
  <2> QED
    BY <2>1, <2>2 DEF Task, Status, NoTask
<1>2. v = [s EXCEPT !.task[x] = new, !.nextID = x + 1]
  BY DEF AddTask
<1> HIDE DEF new
<1>3. /\ v \in WStore /\ v.nextID = x + 1 /\ SameReceipts(s, v)
      /\ v.task[x] = new /\ \A y \in TaskId \ {x} : v.task[y] = s.task[y]
  <2> HIDE DEF x, v
  <2> QED
    BY <1>0, <1>1, <1>2 DEF WStore, SameReceipts, x
<1> HIDE DEF v
<1>4. Remember(v.feed[x], "task_created") \in Seq(EventType)
  BY <1>0, <1>3, RememberType DEF WStore, EventType
<1>5. /\ u \in WStore /\ u.nextID = x + 1 /\ SameReceipts(s, u)
      /\ u.task[x] = new /\ \A y \in TaskId \ {x} : u.task[y] = s.task[y]
  BY <1>0, <1>3, <1>4 DEF AddEvent, WStore, SameReceipts
<1> HIDE DEF u
<1>6. ~Live(s, x)
  BY <1>0 DEF Fit, Live
<1> HIDE DEF x
<1>7. \A y \in TaskId : s.task[y].lease \in Nat /\ (x + 1 <= y => x <= y /\ y # x)
  BY <1>0 DEF WStore, Task
<1>8. Fit(u)
  <2>1. \A y \in TaskId : u.task[y].lease <= now + Lease
    BY <1>1, <1>5, Clock DEF Fit
  <2>2. ASSUME NEW y \in TaskId, x + 1 <= y PROVE u.task[y].status = "absent"
    <3>1. u.task[y] = s.task[y] /\ s.nextID <= y
      BY <1>5, <1>7, <2>2 DEF x
    <3> QED
      BY <3>1 DEF Fit
  <2> QED
    BY <1>5, <2>1, <2>2 DEF Fit
<1>9. Moves(s, u, a, {}) /\ SameReceipts(s, u)
  <2>1. ASSUME NEW y \in TaskId
        PROVE  /\ u.task[y].owner \in {NoActor, a, s.task[y].owner}
               /\ Live(s, y) => Lasts(s, u, y)
    BY <1>1, <1>5, <1>6, <1>7 DEF Live, Lasts
  <2> QED
    BY <1>5, <1>8, <2>1 DEF Moves
<1> QED
  BY <1>0, <1>9, NoMove DEF CreateTask, Guarded, Outcome, u, v, x

\* A nonempty set of tasks has a first one in the order of acquire.
LEMMA BestExists ==
    ASSUME NEW s, Fit(s), NEW ready \in SUBSET TaskId, ready # {}
    PROVE  \E id \in ready : \A j \in ready \ {id} : RankedBefore(s, id, j)
<1> DEFINE ahead(i) == {j \in ready : RankedBefore(s, j, i)}
           T == {ahead(i) : i \in ready}
<1>1. \A i \in TaskId : i \in Nat /\ s.task[i].prio \in Nat
  BY CountsAssumption DEF Fit, WStore, Task, Priority, TaskId
<1>2. IsFiniteSet(ready)
  <2>1. IsFiniteSet(TaskId)
    BY FS_Interval, CountsAssumption DEF TaskId
  <2> QED
    BY <2>1, FS_Subset
<1>3. IsWellFoundedOn(StrictSubsetOrdering(ready), SUBSET ready)
  BY <1>2, FS_StrictSubsetOrderingWellFounded, FS_FiniteSubsetsOfFinite
<1>4. T \subseteq SUBSET ready /\ T # {}
  OBVIOUS
<1>5. PICK x \in T : \A y \in T : ~ (<<y, x>> \in StrictSubsetOrdering(ready))
  BY <1>3, <1>4, WFMin
<1>6. PICK i \in ready : x = ahead(i)
  BY <1>5
<1>7. ASSUME NEW j \in ready \ {i}, ~RankedBefore(s, i, j)
      PROVE  FALSE
  <2>1. RankedBefore(s, j, i)
    BY <1>1, <1>7 DEF RankedBefore
  <2>2. \A k \in ready : RankedBefore(s, k, j) => RankedBefore(s, k, i)
    BY <1>1, <2>1 DEF RankedBefore
  <2>3. ~RankedBefore(s, j, j)
    BY <1>1 DEF RankedBefore
  <2>4. ahead(j) \subseteq ahead(i) /\ ahead(j) # ahead(i)
    BY <2>1, <2>2, <2>3
  <2>5. <<ahead(j), ahead(i)>> \in StrictSubsetOrdering(ready)
    BY <2>4 DEF StrictSubsetOrdering
  <2> QED
    BY <1>5, <1>6, <2>5
<1> QED
  BY <1>7

\* A call that acquires.
Asking(c) ==
    c.actor \in Actor /\ c.rid \in RequestId /\ c.mode \in Mode /\ c.caps \in SUBSET Capability

\* What acquireFromStore makes of a store: nothing when it refuses or replays,
\* and a lease with its receipt when it grants.
LEMMA AllocateMoves ==
    ASSUME TypeOK, NEW s, Fit(s), NEW c, Asking(c)
    PROVE  LET try == Allocate(s, c)
               u == try.store
           IN  /\ Moves(s, u, c.actor, {})
               /\ \/ u = s /\ try.reason # "ok"
                  \/ /\ u = s /\ s.receipt[c.rid] # NoReceipt /\ try.reason = "ok"
                     /\ try.got = s.receipt[c.rid] /\ try.got.print.actor = c.actor
                  \/ /\ s.receipt[c.rid] = NoReceipt /\ ~Full(s, c) /\ try.reason = "ok"
                     /\ try.got \in Granted /\ try.got.print.actor = c.actor
                     /\ \A r \in RequestId :
                          u.receipt[r] = IF r = c.rid THEN try.got ELSE s.receipt[r]
                     /\ u.task[try.got.id].status = "in_progress"
                     /\ u.task[try.got.id].owner = c.actor
                     /\ u.task[try.got.id].lease = try.got.lease
                     /\ \A y \in TaskId \ {try.got.id} : u.task[y] = s.task[y]
<1> DEFINE print == [actor |-> c.actor, mode |-> c.mode]
           old == s.receipt[c.rid]
           ready == ReadyTasks(s, c.caps, {})
           first == CHOOSE x \in ready : \A y \in ready \ {x} : RankedBefore(s, x, y)
           got == [print |-> print, id |-> first, lease |-> now + Lease]
           leased == SetTask(s, first, Leased(s.task[first], c.actor, now + Lease))
           u == Recorded(leased, c.rid, got)
           try == Allocate(s, c)
<1>0. try = IF old # NoReceipt
            THEN [reason |-> IF old.print = print THEN "ok" ELSE "conflict",
                  store |-> s, got |-> old]
            ELSE IF Full(s, c) THEN [reason |-> "at capacity", store |-> s, got |-> old]
            ELSE IF ready = {} THEN [reason |-> "no work", store |-> s, got |-> old]
            ELSE [reason |-> "ok", store |-> u, got |-> got]
  BY DEF Allocate
<1>1. s \in WStore /\ c.actor \in Actor /\ c.rid \in RequestId
  BY DEF Fit, Asking
<1> HIDE DEF try
<1>2. CASE old # NoReceipt
  <2>1. try.store = s /\ try.got = old /\ (try.reason = "ok" <=> old.print = print)
    BY <1>0, <1>2
  <2>2. Moves(s, s, c.actor, {})
    BY NoMove
  <2>3. old.print = print => old.print.actor = c.actor
    OBVIOUS
  <2> QED
    BY <1>2, <2>1, <2>2, <2>3 DEF try
<1>3. CASE old = NoReceipt /\ (Full(s, c) \/ ready = {})
  <2>1. try.store = s /\ try.reason # "ok"
    BY <1>0, <1>3
  <2> QED
    BY <2>1, NoMove DEF try
<1>4. CASE old = NoReceipt /\ ~Full(s, c) /\ ready # {}
  <2>1. try = [reason |-> "ok", store |-> u, got |-> got]
    BY <1>0, <1>4
  <2>2. ready \in SUBSET TaskId
    BY DEF ReadyTasks
  <2>3. \E x \in ready : \A y \in ready \ {x} : RankedBefore(s, x, y)
    <3> HIDE DEF ready
    <3> QED
      BY <1>4, <2>2, BestExists
  <2>4. first \in ready
    BY <2>3
  <2>5. first \in TaskId /\ s.task[first].status = "pending" /\ s.task[first] \in Task
    BY <1>1, <2>4 DEF ReadyTasks, WStore
  <2> DEFINE new == Leased(s.task[first], c.actor, now + Lease)
  <2> HIDE DEF first, ready
  <2>6. now + Lease \in Nat
    BY Clock
  <2>7. /\ new \in Task /\ new.status = "in_progress" /\ new.owner = c.actor
        /\ new.lease = now + Lease
    BY <1>1, <2>5, <2>6, LeasedFields
  <2> HIDE DEF new
  <2>8. OneTask(s, leased, first, new)
    BY <2>5, <2>7, Recording DEF EventType, new
  <2>9. got \in Granted
    BY <1>1, <2>5, <2>6 DEF Granted, Fingerprint, Asking
  <2> HIDE DEF leased, got
  <2>10. OneTask(s, [leased EXCEPT !.receipt = s.receipt], first, new)
         /\ \A r \in RequestId : leased.receipt[r] = s.receipt[r]
    BY <1>1, <2>8 DEF OneTask, WStore, SameReceipts
  <2>11. /\ u \in WStore /\ u.task = leased.task /\ u.nextID = leased.nextID
         /\ \A r \in RequestId : u.receipt[r] = IF r = c.rid THEN got ELSE s.receipt[r]
    BY <1>1, <2>8, <2>9, <2>10 DEF OneTask, WStore, Recorded
  <2> HIDE DEF u
  <2>12. Moves(s, leased, c.actor, {})
    <3>1. ~Live(s, first) /\ s.task[first].status # "absent"
      BY <2>5 DEF Live
    <3>2. new.lease <= now + Lease
      BY <2>6, <2>7
    <3> QED
      BY <2>5, <2>7, <2>8, <3>1, <3>2, OneTaskMoves
  <2>13. Moves(s, u, c.actor, {})
    BY <2>11, <2>12 DEF Moves, Fit, Lasts
  <2>14. /\ got.id = first /\ got.lease = now + Lease /\ got.print.actor = c.actor
    BY DEF got
  <2>15. u.task[first] = new /\ \A y \in TaskId \ {first} : u.task[y] = s.task[y]
    BY <2>8, <2>11 DEF OneTask
  <2> QED
    BY <1>4, <2>1, <2>7, <2>9, <2>11, <2>13, <2>14, <2>15 DEF try
<1> QED
  BY <1>2, <1>3, <1>4

-----------------------------------------------------------------------------
(* Reclaim and commit.                                                     *)

\* The reclaim pass takes what nobody may believe any more.
LEMMA ReclaimMoves ==
    ASSUME TypeOK, Fit(store), NEW a, NEW E
    PROVE  Moves(store, Reclaimed, a, E) /\ SameReceipts(store, Reclaimed)
<1> DEFINE X == Expired(store, now)
           R == Reclaimed
<1>0. store \in WStore
  BY DEF Fit
<1>1. \A id \in TaskId : /\ Yielded(store.task[id], "pending") \in Task
                         /\ Yielded(store.task[id], "pending").owner = NoActor
                         /\ Yielded(store.task[id], "pending").lease = 0
                         /\ Yielded(store.task[id], "pending").status = "pending"
                         /\ store.task[id] \in Task /\ store.task[id].lease \in Nat
                         /\ Remember(store.feed[id], "lease_expired") \in Seq(EventType)
  <2> TAKE id \in TaskId
  <2>1. store.task[id] \in Task /\ store.feed[id] \in Seq(EventType) /\ "pending" \in Status
        /\ "lease_expired" \in EventType
    BY <1>0 DEF WStore, Status, EventType
  <2>2. store.task[id].lease \in Nat
    BY <2>1 DEF Task
  <2> QED
    BY <2>1, <2>2, YieldedFields, RememberType
<1>2. /\ R \in WStore /\ R.nextID = store.nextID /\ SameReceipts(store, R)
      /\ \A id \in TaskId : R.task[id] = IF id \in X THEN Yielded(store.task[id], "pending")
                                         ELSE store.task[id]
  BY <1>0, <1>1 DEF Reclaimed, CleanExpiredLeases, WStore, SameReceipts
<1> HIDE DEF R
<1>3. \A id \in X : id \in TaskId /\ store.task[id].status = "in_progress" /\ ~Live(store, id)
  <2>1. now \in Nat
    BY Clock
  <2> QED
    BY <1>1, <2>1 DEF Expired, LeaseIsExpired, Live
<1> HIDE DEF X
<1>4. Fit(R)
  BY <1>1, <1>2, <1>3, Clock DEF Fit
<1>5. ASSUME NEW id \in TaskId
      PROVE  /\ R.task[id].owner \in {NoActor, a, store.task[id].owner}
             /\ Live(store, id) => Lasts(store, R, id)
  BY <1>1, <1>2, <1>3 DEF Live, Lasts
<1> QED
  BY <1>2, <1>4, <1>5 DEF Moves, R

\* What a transaction leaves in the file.
LEMMA CommitMoves ==
    ASSUME TypeOK, Fit(store), NEW outcome, NEW a, NEW E, Moves(Reclaimed, outcome.store, a, E)
    PROVE  /\ Moves(store, Committed(store, now, outcome), a, E)
           /\ SameReceipts(Reclaimed, outcome.store)
                => SameReceipts(store, Committed(store, now, outcome))
<1>1. Moves(store, Reclaimed, a, E) /\ SameReceipts(store, Reclaimed)
  BY ReclaimMoves
<1>2. Moves(store, outcome.store, a, E)
  BY <1>1, MovesCompose
<1>3. Moves(store, store, a, E) /\ SameReceipts(store, store)
  BY NoMove
<1>4. Committed(store, now, outcome) \in {store, outcome.store}
  BY DEF Committed
<1>5. SameReceipts(Reclaimed, outcome.store) => SameReceipts(store, outcome.store)
  BY <1>1 DEF SameReceipts
<1> QED
  BY <1>2, <1>3, <1>4, <1>5

-----------------------------------------------------------------------------
(* What agents were told stays true.                                       *)

Belief == [id : TaskId, lease : Nat]

\* A step that leaves the store alone, or a tick of the clock.
LEMMA StillBacked ==
    ASSUME IInv, UNCHANGED <<store, ended>>, now' \in {now, now + 1}
    PROVE  /\ Fit(store)'
           /\ \A a \in Actor, b \in Belief : Backed(a, b) => Backed(a, b)'
<1>0. now \in Nat /\ Lease \in Nat /\ \A id \in TaskId : store.task[id].lease \in Nat
  BY Clock DEF IInv, Fit, WStore, Task
<1>1. \A id \in TaskId : store.task[id].lease <= now' + Lease
  BY <1>0 DEF IInv, Fit
<1>2. Fit(store)'
  BY <1>1 DEF IInv, Fit
<1>3. \A a \in Actor, b \in Belief : Backed(a, b) => Backed(a, b)'
  BY <1>0 DEF Backed, Holds, Belief
<1> QED
  BY <1>2, <1>3

\* A transaction of a, who is registered, or of nobody.
LEMMA TransactionBacked ==
    ASSUME IInv, UNCHANGED <<card, now>>, NEW a, NEW E, Moves(store, store', a, E),
           a = NoActor \/ (a \in Actor /\ card[a].known /\ E \subseteq ended'[a]),
           \A b \in Actor : ended[b] \subseteq ended'[b]
    PROVE  /\ Fit(store)' /\ OwnersAreRegistered'
           /\ \A b \in Actor, x \in Belief : Backed(b, x) => Backed(b, x)'
<1>1. Fit(store)'
  BY DEF Moves, Fit
<1>2. OwnersAreRegistered'
  BY DEF Moves, IInv, OwnersAreRegistered
<1>3. ASSUME NEW b \in Actor, NEW x \in Belief, Backed(b, x),
             x.lease > now, x.id \notin ended'[b]
      PROVE  Holds(b, x)'
  <2>1. Holds(b, x) /\ x.id \in TaskId
    BY <1>3 DEF Backed, Belief
  <2>2. now \in Nat /\ x.lease \in Nat
        /\ store.task[x.id].lease \in Nat /\ store'.task[x.id].lease \in Nat
    BY <1>3, <2>1, Clock DEF IInv, Moves, Fit, WStore, Task, Belief
  <2>3. Live(store, x.id)
    BY <1>3, <2>1, <2>2, NamesAssumption DEF Holds, Live
  <2>4. Lasts(store, store', x.id)
    <3>1. store.task[x.id].owner = b /\ b # NoActor
      BY <2>1, NamesAssumption DEF Holds
    <3> QED
      BY <1>3, <2>1, <2>3, <3>1 DEF Moves
  <2> QED
    BY <2>1, <2>2, <2>4 DEF Holds, Lasts
<1>4. \A b \in Actor, x \in Belief : Backed(b, x) => Backed(b, x)'
  BY <1>3 DEF Backed
<1> QED
  BY <1>1, <1>2, <1>4

\* The beliefs that a state speaks of are well formed.
LEMMA BeliefTypes ==
    ASSUME IInv
    PROVE  /\ \A a \in Actor : \A b \in belief[a] : b \in Belief /\ Backed(a, b)
           /\ \A p \in Proc : pc[p] = "replying" =>
                /\ call[p].actor \in Actor
                /\ [id |-> call[p].id, lease |-> call[p].lease] \in Belief
                /\ Backed(call[p].actor, [id |-> call[p].id, lease |-> call[p].lease])
           /\ \A r \in RequestId : store.receipt[r] # NoReceipt =>
                /\ store.receipt[r].print.actor \in Actor
                /\ [id |-> store.receipt[r].id, lease |-> store.receipt[r].lease] \in Belief
                /\ Backed(store.receipt[r].print.actor,
                          [id |-> store.receipt[r].id, lease |-> store.receipt[r].lease])
<1>1. \A a \in Actor : \A b \in belief[a] : b \in Belief /\ Backed(a, b)
  BY DEF IInv, TypeOK, Belief, Backed, BelievedLeasesAreHeld
<1>2. ASSUME NEW p \in Proc, pc[p] = "replying"
      PROVE  /\ call[p].actor \in Actor
             /\ [id |-> call[p].id, lease |-> call[p].lease] \in Belief
             /\ Backed(call[p].actor, [id |-> call[p].id, lease |-> call[p].lease])
  <2>1. call[p].actor \in Actor /\ call[p].id \in TaskId /\ call[p].lease \in Nat
    BY <1>2 DEF IInv, Serving, Serves, TypeOK, Call
  <2> QED
    BY <1>2, <2>1 DEF IInv, Believable, ReplyBacked, Belief
<1>3. ASSUME NEW r \in RequestId, store.receipt[r] # NoReceipt
      PROVE  /\ store.receipt[r].print.actor \in Actor
             /\ [id |-> store.receipt[r].id, lease |-> store.receipt[r].lease] \in Belief
             /\ Backed(store.receipt[r].print.actor,
                       [id |-> store.receipt[r].id, lease |-> store.receipt[r].lease])
  <2>1. store.receipt[r] \in Granted
    BY <1>3 DEF IInv, Fit, WStore
  <2>2. /\ store.receipt[r].print.actor \in Actor
        /\ store.receipt[r].id \in TaskId /\ store.receipt[r].lease \in Nat
    BY <2>1 DEF Granted, Fingerprint
  <2> QED
    BY <1>3, <2>2 DEF IInv, Believable, ReceiptBacked, Belief
<1> QED
  BY <1>1, <1>2, <1>3

\* What a step must show of the new state: what it adds to the beliefs, replies
\* and receipts is backed.
LEMMA BelievableKept ==
    ASSUME IInv, \A a \in Actor, b \in Belief : Backed(a, b) => Backed(a, b)',
           \A a \in Actor : \A b \in belief'[a] :
               b \in belief[a] \/ (b \in Belief /\ (Backed(a, b) \/ Backed(a, b)')),
           \A p \in Proc :
               \/ pc'[p] # "replying"
               \/ pc[p] = "replying" /\ call'[p] = call[p]
               \/ ReplyBacked(p)',
           \A r \in RequestId :
               store'.receipt[r] = store.receipt[r] \/ ReceiptBacked(r)'
    PROVE  Believable' /\ BelievedLeasesAreHeld'
<1>1. BelievedLeasesAreHeld'
  <2>1. \A a \in Actor : \A b \in belief'[a] : Backed(a, b)'
    BY BeliefTypes
  <2> QED
    BY <2>1 DEF BelievedLeasesAreHeld, Backed
<1>2. ASSUME NEW p \in Proc PROVE ReplyBacked(p)'
  <2> SUFFICES ASSUME pc[p] = "replying", call'[p] = call[p], pc'[p] = "replying"
               PROVE  ReplyBacked(p)'
    BY DEF ReplyBacked
  <2> DEFINE b == [id |-> call[p].id, lease |-> call[p].lease]
  <2>1. call[p].actor \in Actor /\ b \in Belief /\ Backed(call[p].actor, b)
    BY BeliefTypes
  <2>2. Backed(call[p].actor, b)
    BY <2>1
  <2>3. \A c \in Actor, x \in Belief : Backed(c, x) =>
           (x.lease > now' /\ x.id \notin ended'[c] =>
              /\ store'.task[x.id].status = "in_progress"
              /\ store'.task[x.id].owner = c
              /\ store'.task[x.id].lease >= x.lease)
    BY DEF Backed, Holds
  <2>4. b.lease > now' /\ b.id \notin ended'[call[p].actor] =>
              /\ store'.task[b.id].status = "in_progress"
              /\ store'.task[b.id].owner = call[p].actor
              /\ store'.task[b.id].lease >= b.lease
    <3> HIDE DEF b
    <3> QED
      BY <2>1, <2>3
  <2> QED
    BY <2>4 DEF ReplyBacked, Backed, Holds
<1>3. ASSUME NEW r \in RequestId PROVE ReceiptBacked(r)'
  <2> SUFFICES ASSUME store'.receipt[r] = store.receipt[r], store.receipt[r] # NoReceipt
               PROVE  ReceiptBacked(r)'
    BY DEF ReceiptBacked
  <2> DEFINE b == [id |-> store.receipt[r].id, lease |-> store.receipt[r].lease]
             a == store.receipt[r].print.actor
  <2>1. a \in Actor /\ b \in Belief /\ Backed(a, b)
    BY BeliefTypes
  <2>3. \A c \in Actor, x \in Belief : Backed(c, x) =>
           (x.lease > now' /\ x.id \notin ended'[c] =>
              /\ store'.task[x.id].status = "in_progress"
              /\ store'.task[x.id].owner = c
              /\ store'.task[x.id].lease >= x.lease)
    BY DEF Backed, Holds
  <2>4. b.lease > now' /\ b.id \notin ended'[a] =>
              /\ store'.task[b.id].status = "in_progress"
              /\ store'.task[b.id].owner = a
              /\ store'.task[b.id].lease >= b.lease
    <3> HIDE DEF b, a
    <3> QED
      BY <2>1, <2>3
  <2> QED
    BY <2>4 DEF ReceiptBacked, Backed, Holds
<1> QED
  BY <1>1, <1>2, <1>3 DEF Believable

\* What the store vouches for.
Trusted ==
    /\ Fit(store) /\ OwnersAreRegistered /\ ByReceipt
    /\ Believable /\ BelievedLeasesAreHeld

RepliesStay ==
    \A p \in Proc : pc'[p] # "replying" \/ (pc[p] = "replying" /\ call'[p] = call[p])

CardsStay == \A a \in Actor : card[a].known => card'[a].known

\* A step that leaves the store alone.
LEMMA QuietStep ==
    ASSUME IInv, UNCHANGED <<store, answers, ended>>, now' \in {now, now + 1},
           CardsStay, RepliesStay,
           \A a \in Actor : \A b \in belief'[a] :
               b \in belief[a] \/ (b \in Belief /\ Backed(a, b))
    PROVE  Trusted'
<1>1. Fit(store)' /\ \A a \in Actor, b \in Belief : Backed(a, b) => Backed(a, b)'
  BY StillBacked
<1>2. OwnersAreRegistered'
  <2>1. \A id \in TaskId : store.task[id].owner \in Actor \cup {NoActor}
    BY DEF IInv, Fit, WStore, Task
  <2> QED
    BY <2>1 DEF IInv, OwnersAreRegistered, CardsStay
<1>3. ByReceipt'
  BY DEF IInv, ByReceipt
<1>4. Believable' /\ BelievedLeasesAreHeld'
  BY <1>1, BelievableKept DEF RepliesStay
<1> QED
  BY <1>1, <1>2, <1>3, <1>4 DEF Trusted

\* A transaction of a, who ends its own work on E.
LEMMA TransactionStep ==
    ASSUME IInv, UNCHANGED <<card, now, answers>>, NEW a, NEW E,
           Moves(store, store', a, E), SameReceipts(store, store'),
           a = NoActor \/ (a \in Actor /\ card[a].known /\ E \subseteq ended'[a]),
           \A b \in Actor : ended[b] \subseteq ended'[b],
           \A b \in Actor : \A x \in belief'[b] :
               x \in belief[b] \/ (x \in Belief /\ Backed(b, x)'),
           \A p \in Proc :
               \/ pc'[p] # "replying"
               \/ pc[p] = "replying" /\ call'[p] = call[p]
               \/ ReplyBacked(p)'
    PROVE  Trusted'
<1>1. /\ Fit(store)' /\ OwnersAreRegistered'
      /\ \A b \in Actor, x \in Belief : Backed(b, x) => Backed(b, x)'
  BY TransactionBacked
<1>2. \A r \in RequestId : store'.receipt[r] = store.receipt[r]
  BY DEF SameReceipts
<1>3. ByReceipt'
  BY <1>2 DEF IInv, ByReceipt
<1>4. Believable' /\ BelievedLeasesAreHeld'
  BY <1>1, <1>2, BelievableKept
<1> QED
  BY <1>1, <1>3, <1>4 DEF Trusted

\* What TypeOK says of a fit store.
LEMMA StoreTypes ==
    ASSUME Trusted'
    PROVE  /\ store'.task \in [TaskId -> Task] /\ store'.nextID \in 1..(MaxTasks + 1)
           /\ store'.receipt \in [RequestId -> Granted \cup {NoReceipt}]
BY DEF Trusted, Fit, WStore

-----------------------------------------------------------------------------
(* The steps of a call.                                                    *)

\* The stage of p changes, and its call to c.
LEMMA OneProcess ==
    ASSUME TypeOK, NEW p \in Proc, NEW stage \in Stage, NEW c \in Call
    PROVE  /\ [pc EXCEPT ![p] = stage] \in [Proc -> Stage]
           /\ [call EXCEPT ![p] = c] \in [Proc -> Call]
           /\ [pc EXCEPT ![p] = stage][p] = stage /\ [call EXCEPT ![p] = c][p] = c
           /\ \A q \in Proc \ {p} : /\ [pc EXCEPT ![p] = stage][q] = pc[q]
                                    /\ [call EXCEPT ![p] = c][q] = call[q]
BY DEF TypeOK

LEMMA ServingKept ==
    ASSUME IInv, CardsStay, NEW p \in Proc, Serves(p)',
           \A q \in Proc \ {p} : pc'[q] = pc[q] /\ call'[q] = call[q]
    PROVE  Serving'
<1>1. \A q \in Proc \ {p} : Serves(q)'
  BY DEF IInv, Serving, Serves, CardsStay
<1> QED
  BY <1>1 DEF Serving

LEMMA BeginStep ==
    ASSUME IInv, NEW p \in Proc, NEW a \in Actor, NEW c \in Call, Begin(p, a, c),
           c.actor = a, c.kind \in {"acquire", "claim"},
           c.kind = "acquire" => c.rid \in RequestId, c.kind = "claim" => c.id \in TaskId
    PROVE  IInv'
<1>0. TypeOK /\ "registering" \in Stage
  BY DEF IInv, Stage
<1>1. /\ pc' \in [Proc -> Stage] /\ call' \in [Proc -> Call]
      /\ pc'[p] = "registering" /\ call'[p] = c
      /\ \A q \in Proc \ {p} : pc'[q] = pc[q] /\ call'[q] = call[q]
  BY <1>0, OneProcess DEF Begin, Goto, FirstStage
<1>2. Trusted'
  BY <1>1, QuietStep DEF Begin, told, RepliesStay, CardsStay
<1>3. TypeOK'
  <2>1. awaits' \in [Actor -> Proc \cup {NoProc}]
    BY <1>0 DEF Begin, TypeOK
  <2>2. calls' \in 0..MaxCalls
    BY <1>0, WorkerAssumption DEF Begin, TypeOK
  <2>3. store' = store
    BY DEF Begin
  <2> QED
    BY <1>0, <1>1, <2>1, <2>2, <2>3 DEF Begin, told, TypeOK
<1>4. Serving'
  BY <1>1, ServingKept DEF Begin, CardsStay, Serves
<1>5. Believers'
  BY DEF IInv, Believers, Begin, told
<1> QED
  BY <1>2, <1>3, <1>4, <1>5 DEF IInv, Trusted

LEMMA IdleCall == \A a \in Actor \cup {NoActor} : Idle(a) \in Call
BY WorkerAssumption DEF Idle, Call, Mode, Registered

LEMMA AskStep ==
    ASSUME IInv, NEW p \in Proc, NEW a \in Actor, Ask(p, a)
    PROVE  IInv'
<1>1. Idle(a) \in Call
  BY IdleCall
<1>2. ASSUME NEW rid \in RequestId, NEW mode \in Mode, NEW wait \in Waits,
             BeginAcquire(p, a, rid, mode, wait)
      PROVE  IInv'
  <2> DEFINE deadline == IF wait = 0 THEN 0
                         ELSE IF now + wait <= MaxTime THEN now + wait ELSE MaxTime
             c == [Idle(a) EXCEPT !.kind = "acquire", !.rid = rid, !.mode = mode,
                                  !.deadline = deadline]
  <2>1. deadline \in 0..MaxTime
    BY WorkerAssumption DEF IInv, TypeOK
  <2>2. Begin(p, a, c)
    BY <1>2 DEF BeginAcquire
  <2> HIDE DEF deadline
  <2>3. /\ c \in Call /\ c.actor = a /\ c.kind = "acquire" /\ c.rid = rid
    BY <1>1, <2>1 DEF Idle, Call
  <2> HIDE DEF c
  <2> QED
    BY <2>2, <2>3, BeginStep
<1>3. ASSUME NEW id \in Present(store), BeginClaim(p, a, id)
      PROVE  IInv'
  <2> DEFINE c == [Idle(a) EXCEPT !.kind = "claim", !.id = id]
  <2>1. id \in TaskId
    BY DEF Present
  <2>2. Begin(p, a, c)
    BY <1>3 DEF BeginClaim
  <2>3. /\ c \in Call /\ c.actor = a /\ c.kind = "claim" /\ c.id = id
    BY <1>1, <2>1 DEF Idle, Call
  <2> HIDE DEF c
  <2> QED
    BY <2>1, <2>2, <2>3, BeginStep
<1> QED
  BY <1>2, <1>3 DEF Ask

LEMMA RegisterStep ==
    ASSUME IInv, NEW p \in Proc, Register(p)
    PROVE  IInv'
<1> DEFINE stage == IF call[p].kind = "acquire" THEN "planning" ELSE "reading"
<1>0. TypeOK /\ stage \in Stage /\ Serves(p) /\ pc[p] = "registering" /\ stage # "replying"
      /\ stage # "idle"
  BY DEF IInv, Stage, Serving, Register
<1>1. call' = call /\ pc' = [pc EXCEPT ![p] = stage]
  BY DEF Register, Goto
<1> HIDE DEF stage
<1>2. /\ pc' \in [Proc -> Stage] /\ pc'[p] = stage
      /\ \A q \in Proc \ {p} : pc'[q] = pc[q] /\ call'[q] = call[q]
  BY <1>0, <1>1 DEF TypeOK
<1>3. call[p].actor \in Actor
  BY <1>0 DEF Serves
<1>4. /\ card' \in [Actor -> Card] /\ card'[call[p].actor].known
      /\ \A a \in Actor : card[a].known => card'[a].known
  BY <1>0, <1>3 DEF Register, TypeOK, Card
<1>5. Trusted'
  <2>1. RepliesStay /\ CardsStay
    BY <1>0, <1>1, <1>2, <1>4 DEF RepliesStay, CardsStay
  <2>2. UNCHANGED <<store, answers, ended, now, belief>>
    BY DEF Register, told
  <2> QED
    BY <2>1, <2>2, QuietStep
<1>6. TypeOK'
  BY <1>0, <1>1, <1>2, <1>4 DEF Register, told, TypeOK
<1>7. Serving'
  BY <1>0, <1>1, <1>2, <1>4, ServingKept DEF CardsStay, Serves
<1>8. Believers'
  BY <1>4 DEF IInv, Believers, Register, told
<1> QED
  BY <1>5, <1>6, <1>7, <1>8 DEF IInv, Trusted

LEMMA PlanStep ==
    ASSUME IInv, NEW p \in Proc, Plan(p)
    PROVE  IInv'
<1> DEFINE caps == IF call[p].mode.explicit THEN call[p].mode.caps
                   ELSE card[call[p].actor].caps
           load == card[call[p].actor].load
           c == [call[p] EXCEPT !.caps = caps, !.load = load]
<1>0. TypeOK /\ "reading" \in Stage /\ Serves(p) /\ pc[p] = "planning" /\ call[p] \in Call
  BY DEF IInv, Stage, Serving, Plan, TypeOK
<1>1. call[p].actor \in Actor /\ card[call[p].actor].known
  BY <1>0 DEF Serves
<1>2. caps \in SUBSET Capability /\ load \in Limits
  <2>1. card[call[p].actor] \in Card
    BY <1>0, <1>1 DEF TypeOK
  <2>2. call[p].mode.caps \in SUBSET Capability
    <3>1. \/ call[p].mode = Registered
          \/ call[p].mode \in [explicit : {TRUE}, caps : SUBSET Capability]
      BY <1>0 DEF Call, Mode
    <3>2. CASE call[p].mode = Registered
      <4>1. call[p].mode.caps = {}
        BY <3>2 DEF Registered
      <4> QED
        BY <4>1
    <3>3. CASE call[p].mode \in [explicit : {TRUE}, caps : SUBSET Capability]
      <4>1. \A m \in [explicit : {TRUE}, caps : SUBSET Capability] :
               m.caps \in SUBSET Capability
        OBVIOUS
      <4> QED
        BY <3>3, <4>1
    <3> QED
      BY <3>1, <3>2, <3>3
  <2>3. card[call[p].actor].caps \in SUBSET Capability /\ load \in Limits
    BY <2>1 DEF Card
  <2> QED
    BY <2>2, <2>3
<1>3. call' = [call EXCEPT ![p] = c] /\ pc' = [pc EXCEPT ![p] = "reading"]
  BY <1>0 DEF Plan, Goto, TypeOK
<1> HIDE DEF caps, load
<1>4. /\ c \in Call /\ c.actor = call[p].actor /\ c.kind = call[p].kind
      /\ c.rid = call[p].rid /\ c.id = call[p].id
  BY <1>0, <1>2 DEF Call
<1> HIDE DEF c
<1>5. /\ pc' \in [Proc -> Stage] /\ call' \in [Proc -> Call]
      /\ pc'[p] = "reading" /\ call'[p] = c
      /\ \A q \in Proc \ {p} : pc'[q] = pc[q] /\ call'[q] = call[q]
  BY <1>0, <1>3, <1>4, OneProcess
<1>6. UNCHANGED <<store, card, answers, ended, now, belief>> /\ CardsStay
  BY DEF Plan, told, CardsStay
<1>7. Trusted'
  <2>1. RepliesStay
    BY <1>5 DEF RepliesStay
  <2> QED
    BY <1>6, <2>1, QuietStep
<1>8. TypeOK'
  BY <1>0, <1>5, <1>6 DEF Plan, told, TypeOK
<1>9. Serving'
  <2>1. Serves(p)'
    BY <1>0, <1>1, <1>4, <1>5, <1>6 DEF Serves
  <2> QED
    BY <1>5, <1>6, <2>1, ServingKept
<1>10. Believers'
  BY <1>6 DEF IInv, Believers
<1> QED
  BY <1>7, <1>8, <1>9, <1>10 DEF IInv, Trusted

LEMMA PreflightStep ==
    ASSUME IInv, NEW p \in Proc, Preflight(p)
    PROVE  IInv'
<1>0. TypeOK /\ "trying" \in Stage /\ Serves(p) /\ pc[p] = "reading"
  BY DEF IInv, Stage, Serving, Preflight
<1>1. Moves(store, store', NoActor, {}) /\ SameReceipts(store, store')
  BY <1>0, ReclaimMoves DEF IInv, Preflight
<1>2. pc' = [pc EXCEPT ![p] = "trying"] /\ UNCHANGED <<card, now, call, awaits, told, calls>>
  BY DEF Preflight, Goto
<1>3. /\ pc' \in [Proc -> Stage] /\ pc'[p] = "trying"
      /\ \A q \in Proc \ {p} : pc'[q] = pc[q] /\ call'[q] = call[q]
  BY <1>0, <1>2 DEF TypeOK
<1>4. Trusted'
  <2>1. \A q \in Proc : pc'[q] # "replying" \/ (pc[q] = "replying" /\ call'[q] = call[q])
    BY <1>3
  <2>2. UNCHANGED <<card, now, answers, ended, belief>>
    BY <1>2 DEF told
  <2> QED
    BY <1>1, <2>1, <2>2, TransactionStep
<1>5. TypeOK'
  BY <1>0, <1>2, <1>3, <1>4, StoreTypes DEF told, TypeOK
<1>6. Serving'
  <2>1. Serves(p)' /\ CardsStay
    BY <1>0, <1>2, <1>3 DEF Serves, CardsStay
  <2> QED
    BY <1>3, <2>1, ServingKept
<1>7. Believers'
  BY <1>2 DEF IInv, Believers, told
<1> QED
  BY <1>4, <1>5, <1>6, <1>7 DEF IInv, Trusted

LEMMA TryClaimStep ==
    ASSUME IInv, NEW p \in Proc, TryClaim(p)
    PROVE  IInv'
<1> DEFINE id == call[p].id
           a == call[p].actor
           try == ClaimTask(Reclaimed, id, a, Lease, {}, now)
           c == [call[p] EXCEPT !.lease = now + Lease]
<1>0. /\ TypeOK /\ Fit(store) /\ Serves(p) /\ pc[p] = "trying" /\ call[p] \in Call
      /\ "replying" \in Stage /\ "failing" \in Stage /\ now + Lease \in Nat
  BY Clock DEF IInv, Stage, Serving, TryClaim, TypeOK
<1>1. id \in TaskId /\ a \in Actor /\ card[a].known /\ call[p].kind = "claim"
  BY <1>0 DEF Serves, TryClaim
<1>2. /\ store' = Committed(store, now, try)
      /\ UNCHANGED <<card, now, awaits, told, calls>>
      /\ \/ try.ok /\ pc' = [pc EXCEPT ![p] = "replying"]
            /\ call' = [call EXCEPT ![p] = c]
         \/ ~try.ok /\ pc' = [pc EXCEPT ![p] = "failing"] /\ call' = call
  BY <1>0 DEF TryClaim, Goto, TypeOK
<1>3. Fit(Reclaimed)
  BY <1>0, ReclaimMoves DEF Moves
<1>4. /\ Moves(Reclaimed, try.store, a, {}) /\ SameReceipts(Reclaimed, try.store)
      /\ try.ok => /\ try.store.task[id].status = "in_progress"
                   /\ try.store.task[id].owner = a
                   /\ try.store.task[id].lease = now + Lease
  BY <1>0, <1>1, <1>3, ClaimMoves
<1> HIDE DEF try
<1>5. Moves(store, store', a, {}) /\ SameReceipts(store, store')
  BY <1>0, <1>2, <1>4, CommitMoves
<1>6. /\ c \in Call /\ c.actor = a /\ c.kind = "claim" /\ c.id = id /\ c.lease = now + Lease
  BY <1>0, <1>1 DEF Call
<1> HIDE DEF c
<1>7. /\ pc' \in [Proc -> Stage] /\ call' \in [Proc -> Call]
      /\ \/ try.ok /\ pc'[p] = "replying" /\ call'[p] = c
         \/ ~try.ok /\ pc'[p] = "failing" /\ call'[p] = call[p]
      /\ \A q \in Proc \ {p} : pc'[q] = pc[q] /\ call'[q] = call[q]
  BY <1>0, <1>2, <1>6, OneProcess DEF TypeOK
<1>8. try.ok => ReplyBacked(p)'
  <2> SUFFICES ASSUME try.ok PROVE ReplyBacked(p)'
    OBVIOUS
  <2>1. store' = try.store
    BY <1>2 DEF Committed
  <2> QED
    BY <1>0, <1>4, <1>6, <1>7, <2>1 DEF ReplyBacked, Backed, Holds
<1>9. Trusted'
  <2>1. \A q \in Proc : \/ pc'[q] # "replying"
                        \/ (pc[q] = "replying" /\ call'[q] = call[q])
                        \/ ReplyBacked(q)'
    BY <1>7, <1>8
  <2>2. UNCHANGED <<card, now, answers, ended, belief>>
    BY <1>2 DEF told
  <2> QED
    BY <1>1, <1>5, <2>1, <2>2, TransactionStep
<1>10. TypeOK'
  BY <1>0, <1>2, <1>7, <1>9, StoreTypes DEF told, TypeOK
<1>11. Serving'
  <2>1. Serves(p)' /\ CardsStay
    BY <1>1, <1>2, <1>6, <1>7 DEF Serves, CardsStay
  <2> QED
    BY <1>7, <2>1, ServingKept
<1>12. Believers'
  BY <1>2 DEF IInv, Believers, told
<1> QED
  BY <1>9, <1>10, <1>11, <1>12 DEF IInv, Trusted

\* Kill and the end of a reply leave the process without a call.
LEMMA EndsCall ==
    ASSUME IInv, NEW p \in Proc, call' = [call EXCEPT ![p] = NoCall],
           pc' = [pc EXCEPT ![p] = "idle"], card' = card
    PROVE  /\ pc' \in [Proc -> Stage] /\ call' \in [Proc -> Call]
           /\ Serving' /\ CardsStay /\ RepliesStay
<1>1. TypeOK /\ "idle" \in Stage /\ NoCall \in Call
  BY IdleCall DEF IInv, Stage, NoCall
<1> HIDE DEF NoCall
<1>2. /\ pc' \in [Proc -> Stage] /\ call' \in [Proc -> Call] /\ pc'[p] = "idle"
      /\ \A q \in Proc \ {p} : pc'[q] = pc[q] /\ call'[q] = call[q]
  BY <1>1, OneProcess
<1>3. CardsStay /\ RepliesStay
  BY <1>2 DEF CardsStay, RepliesStay
<1>4. Serving'
  BY <1>2, <1>3, ServingKept DEF Serves
<1> QED
  BY <1>2, <1>3, <1>4

LEMMA KillStep ==
    ASSUME IInv, NEW p \in Proc, Kill(p)
    PROVE  IInv'
<1>1. /\ pc' \in [Proc -> Stage] /\ call' \in [Proc -> Call]
      /\ Serving' /\ CardsStay /\ RepliesStay
  BY EndsCall DEF Kill, Goto
<1>2. UNCHANGED <<store, card, now, belief, answered, answers, ended, calls>>
  BY DEF Kill, told
<1>3. Trusted'
  BY <1>1, <1>2, QuietStep
<1>4. TypeOK'
  BY <1>1, <1>2 DEF IInv, TypeOK, Kill
<1>5. Believers'
  BY <1>2 DEF IInv, Believers
<1> QED
  BY <1>1, <1>3, <1>4, <1>5 DEF IInv, Trusted

LEMMA ReplyStep ==
    ASSUME IInv, NEW p \in Proc, Reply(p)
    PROVE  IInv'
<1> DEFINE a == call[p].actor
           b == [id |-> call[p].id, lease |-> call[p].lease]
           heard == awaits[a] = p
           good == pc[p] = "replying"
<1>1. /\ pc' \in [Proc -> Stage] /\ call' \in [Proc -> Call]
      /\ Serving' /\ CardsStay /\ RepliesStay
  BY EndsCall DEF Reply, Goto
<1>2. /\ UNCHANGED <<store, card, now, answers, ended, calls>>
      /\ belief' = IF heard /\ good
                   THEN [belief EXCEPT ![a] = Told(belief[a], call[p].id, call[p].lease)]
                   ELSE belief
      /\ answered' \in {answered, answered \cup {call[p].rid}}
      /\ answered' # answered => call[p].kind = "acquire"
      /\ awaits' = [awaits EXCEPT ![a] = IF awaits[a] = p THEN NoProc ELSE awaits[a]]
  <2>1. TypeOK
    BY DEF IInv
  <2> QED
    BY <2>1 DEF Reply, TypeOK
<1>3. TypeOK /\ Serves(p) /\ pc[p] # "idle"
  BY DEF IInv, Serving, Reply
<1>4. /\ a \in Actor /\ card[a].known
      /\ call[p].kind = "acquire" => call[p].rid \in RequestId
  <2>1. pc[p] # "registering"
    BY DEF Reply
  <2> QED
    BY <1>3, <2>1 DEF Serves
<1>5. good => b \in Belief /\ Backed(a, b)
  BY BeliefTypes
<1>6. /\ belief' \in [Actor -> SUBSET Belief]
      /\ \A c \in Actor : \A x \in belief'[c] :
            x \in belief[c] \/ (x \in Belief /\ Backed(c, x))
      /\ \A c \in Actor \ {a} : belief'[c] = belief[c]
  <2>1. belief \in [Actor -> SUBSET Belief]
    BY <1>3 DEF TypeOK, Belief
  <2>2. CASE heard /\ good
    <3>1. belief' = [belief EXCEPT ![a] = {x \in belief[a] : x.id # call[p].id} \cup {b}]
      BY <1>2, <2>2 DEF Told
    <3> HIDE DEF b
    <3>2. b \in Belief /\ Backed(a, b)
      BY <1>5, <2>2
    <3> HIDE DEF a
    <3> QED
      BY <1>4, <2>1, <3>1, <3>2 DEF a
  <2>3. CASE ~(heard /\ good)
    BY <1>2, <2>1, <2>3
  <2> QED
    BY <2>2, <2>3
<1>7. Trusted'
  BY <1>1, <1>2, <1>6, QuietStep
<1>8. TypeOK'
  <2>1. awaits' \in [Actor -> Proc \cup {NoProc}]
    BY <1>2, <1>3 DEF TypeOK
  <2>2. answered' \subseteq RequestId
    BY <1>2, <1>3, <1>4 DEF TypeOK
  <2> QED
    BY <1>1, <1>2, <1>3, <1>6, <2>1, <2>2 DEF TypeOK, Belief
<1>9. Believers'
  BY <1>2, <1>4, <1>6 DEF IInv, Believers
<1> QED
  BY <1>1, <1>7, <1>8, <1>9 DEF IInv, Trusted

LEMMA GiveUpStep ==
    ASSUME IInv, NEW a \in Actor, GiveUp(a)
    PROVE  IInv'
<1>1. UNCHANGED <<store, card, now, pc, call, belief, answered, answers, ended, calls>>
  BY DEF GiveUp, told
<1>2. Trusted'
  BY <1>1, QuietStep DEF CardsStay, RepliesStay
<1>3. TypeOK'
  BY <1>1 DEF IInv, TypeOK, GiveUp
<1>4. Serving' /\ Believers'
  BY <1>1 DEF IInv, Serving, Serves, Believers
<1> QED
  BY <1>2, <1>3, <1>4 DEF IInv, Trusted

LEMMA SetCardStep ==
    ASSUME IInv, NEW a \in Actor, NEW C \in SUBSET Capability, NEW l \in Limits,
           SetCard(a, C, l)
    PROVE  IInv'
<1>1. UNCHANGED <<store, now, pc, call, awaits, belief, answered, answers, ended, calls>>
  BY DEF SetCard, told
<1>2. /\ card' \in [Actor -> Card] /\ CardsStay
  BY DEF IInv, TypeOK, SetCard, Card, CardsStay
<1>3. Trusted'
  BY <1>1, <1>2, QuietStep DEF RepliesStay
<1>4. TypeOK'
  BY <1>1, <1>2 DEF IInv, TypeOK
<1>5. Serving' /\ Believers'
  BY <1>1, <1>2 DEF IInv, Serving, Serves, Believers, CardsStay
<1> QED
  BY <1>3, <1>4, <1>5 DEF IInv, Trusted

LEMMA TickStep ==
    ASSUME IInv, Tick
    PROVE  IInv'
<1>1. UNCHANGED <<store, card, pc, call, awaits, belief, answered, answers, ended, calls>>
  BY DEF Tick, told
<1>2. Trusted'
  BY <1>1, QuietStep DEF CardsStay, RepliesStay, Tick
<1>3. TypeOK'
  BY <1>1, WorkerAssumption DEF IInv, TypeOK, Tick
<1>4. Serving' /\ Believers'
  BY <1>1 DEF IInv, Serving, Serves, Believers
<1> QED
  BY <1>2, <1>3, <1>4 DEF IInv, Trusted

-----------------------------------------------------------------------------
(* What agents do with the work they hold, and new tasks.                  *)

LEMMA FinishStep ==
    ASSUME IInv, NEW a \in Actor, NEW b \in belief[a], NEW outcome, Finish(a, b, outcome),
           Moves(Reclaimed, outcome.store, a, {b.id}), SameReceipts(Reclaimed, outcome.store)
    PROVE  IInv'
<1>1. /\ TypeOK /\ Fit(store) /\ b.id \in TaskId /\ card[a].known
  <2>1. b \in Belief
    BY BeliefTypes
  <2> QED
    BY <2>1 DEF IInv, Belief, Believers
<1>2. /\ store' = Committed(store, now, outcome)
      /\ UNCHANGED <<card, now, pc, call, awaits, answered, answers, calls>>
      /\ belief' = [belief EXCEPT ![a] = belief[a] \ {b}]
      /\ ended' = [ended EXCEPT ![a] = ended[a] \cup {b.id}]
  BY DEF Finish
<1>3. Moves(store, store', a, {b.id}) /\ SameReceipts(store, store')
  BY <1>1, <1>2, CommitMoves
<1>4. /\ belief' \in [Actor -> SUBSET Belief] /\ ended' \in [Actor -> SUBSET TaskId]
      /\ \A c \in Actor : belief'[c] \subseteq belief[c] /\ ended[c] \subseteq ended'[c]
      /\ {b.id} \subseteq ended'[a]
  BY <1>1, <1>2 DEF TypeOK, Belief
<1>5. Trusted'
  <2>1. \A q \in Proc : pc'[q] # "replying" \/ (pc[q] = "replying" /\ call'[q] = call[q])
    BY <1>2
  <2>2. UNCHANGED <<card, now, answers>>
    BY <1>2
  <2> QED
    BY <1>1, <1>3, <1>4, <2>1, <2>2, TransactionStep
<1>6. TypeOK'
  BY <1>1, <1>2, <1>4, <1>5, StoreTypes DEF TypeOK, Belief
<1>7. Serving' /\ Believers'
  BY <1>2, <1>4 DEF IInv, Serving, Serves, Believers
<1> QED
  BY <1>5, <1>6, <1>7 DEF IInv, Trusted

LEMMA EndStep ==
    ASSUME IInv, NEW a \in Actor, NEW b \in belief[a], Done(a, b) \/ Release(a, b)
    PROVE  IInv'
<1>1. TypeOK /\ Fit(Reclaimed) /\ b.id \in TaskId
  <2>1. b \in Belief
    BY BeliefTypes
  <2> QED
    BY <2>1, ReclaimMoves DEF IInv, Belief, Moves
<1>2. CASE Done(a, b)
  BY <1>1, <1>2, CompleteMoves, FinishStep DEF Done
<1>3. CASE Release(a, b)
  BY <1>1, <1>3, ReleaseMoves, FinishStep DEF Release
<1> QED
  BY <1>2, <1>3

LEMMA HeartbeatStep ==
    ASSUME IInv, NEW a \in Actor, NEW b \in belief[a], Heartbeat(a, b)
    PROVE  IInv'
<1> DEFINE try == RenewLease(Reclaimed, b.id, a, Lease, now)
           new == [id |-> b.id, lease |-> now + Lease]
<1>1. /\ TypeOK /\ Fit(store) /\ Fit(Reclaimed) /\ b.id \in TaskId /\ card[a].known
      /\ now + Lease \in Nat
  <2>1. b \in Belief
    BY BeliefTypes
  <2> QED
    BY <2>1, ReclaimMoves, Clock DEF IInv, Belief, Believers, Moves
<1>2. /\ store' = Committed(store, now, try)
      /\ UNCHANGED <<card, now, pc, call, awaits, answered, answers, ended, calls>>
      /\ belief' = [belief EXCEPT ![a] = IF try.ok THEN Told(belief[a], b.id, now + Lease)
                                         ELSE belief[a] \ {b}]
  BY DEF Heartbeat
<1>3. /\ Moves(Reclaimed, try.store, a, {}) /\ SameReceipts(Reclaimed, try.store)
      /\ try.ok => /\ try.store.task[b.id].status = "in_progress"
                   /\ try.store.task[b.id].owner = a
                   /\ try.store.task[b.id].lease = now + Lease
  BY <1>1, RenewMoves
<1> HIDE DEF try
<1>4. Moves(store, store', a, {}) /\ SameReceipts(store, store')
  BY <1>1, <1>2, <1>3, CommitMoves
<1>5. new \in Belief
  BY <1>1 DEF Belief
<1>6. try.ok => /\ store'.task[b.id].status = "in_progress"
                /\ store'.task[b.id].owner = a
                /\ store'.task[b.id].lease = now + Lease
  BY <1>2, <1>3 DEF Committed
<1>7. /\ belief' \in [Actor -> SUBSET Belief]
      /\ \A c \in Actor : \A x \in belief'[c] :
            x \in belief[c] \/ (c = a /\ try.ok /\ x = new)
      /\ \A c \in Actor \ {a} : belief'[c] = belief[c]
  <2>1. belief \in [Actor -> SUBSET Belief]
    BY <1>1 DEF TypeOK, Belief
  <2>2. CASE try.ok
    <3>1. belief' = [belief EXCEPT ![a] = {x \in belief[a] : x.id # b.id} \cup {new}]
      BY <1>2, <2>2 DEF Told
    <3> HIDE DEF new
    <3> QED
      BY <1>5, <2>1, <2>2, <3>1
  <2>3. CASE ~try.ok
    BY <1>2, <2>1, <2>3
  <2> QED
    BY <2>2, <2>3
<1>8. Trusted'
  <2>1. \A q \in Proc : pc'[q] # "replying" \/ (pc[q] = "replying" /\ call'[q] = call[q])
    BY <1>2
  <2>2. UNCHANGED <<card, now, answers, ended>>
    BY <1>2
  <2>3. \A c \in Actor : \A x \in belief'[c] :
           x \in belief[c] \/ (x \in Belief /\ Backed(c, x)')
    <3> TAKE c \in Actor
    <3> TAKE x \in belief'[c]
    <3>1. CASE x \in belief[c]
      BY <3>1
    <3>2. CASE c = a /\ try.ok /\ x = new
      <4>1. x.id = b.id /\ x.lease = now + Lease
        BY <3>2
      <4>2. Backed(c, x)'
        BY <1>1, <1>6, <3>2, <4>1 DEF Backed, Holds
      <4> QED
        BY <1>5, <3>2, <4>2
    <3> QED
      BY <1>7, <3>1, <3>2
  <2> QED
    BY <1>1, <1>4, <2>1, <2>2, <2>3, TransactionStep
<1>9. TypeOK'
  BY <1>1, <1>2, <1>7, <1>8, StoreTypes DEF TypeOK, Belief
<1>10. Serving' /\ Believers'
  BY <1>1, <1>2, <1>7 DEF IInv, Serving, Serves, Believers
<1> QED
  BY <1>8, <1>9, <1>10 DEF IInv, Trusted

LEMMA AddStep ==
    ASSUME IInv, NEW caps \in SUBSET Capability, Add(caps)
    PROVE  IInv'
<1>1. TypeOK /\ Fit(store) /\ store.nextID <= MaxTasks
  BY DEF IInv, Add
<1>2. Moves(store, Reclaimed, NoActor, {}) /\ SameReceipts(store, Reclaimed)
  BY <1>1, ReclaimMoves
<1>3. Fit(Reclaimed) /\ Reclaimed.nextID <= MaxTasks
  <2>1. store \in WStore
    BY <1>1 DEF Fit
  <2>2. Reclaimed.nextID = store.nextID
    BY <2>1 DEF WStore, Reclaimed, CleanExpiredLeases
  <2> QED
    BY <1>1, <1>2, <2>2 DEF Moves
<1>4. /\ Moves(Reclaimed, store', NoActor, {}) /\ SameReceipts(Reclaimed, store')
  BY <1>1, <1>3, CreateMoves DEF Add
<1>5. Moves(store, store', NoActor, {}) /\ SameReceipts(store, store')
  BY <1>1, <1>2, <1>4, MovesCompose DEF SameReceipts
<1>6. UNCHANGED <<card, now, pc, call, awaits, belief, answered, answers, ended, calls>>
  BY DEF Add, told
<1>7. Trusted'
  <2>1. \A q \in Proc : pc'[q] # "replying" \/ (pc[q] = "replying" /\ call'[q] = call[q])
    BY <1>6
  <2> QED
    BY <1>5, <1>6, <2>1, TransactionStep
<1>8. TypeOK'
  BY <1>1, <1>6, <1>7, StoreTypes DEF TypeOK
<1>9. Serving' /\ Believers'
  BY <1>6 DEF IInv, Serving, Serves, Believers
<1> QED
  BY <1>7, <1>8, <1>9 DEF IInv, Trusted

-----------------------------------------------------------------------------
(* One transaction of acquire.                                             *)

\* The call is refused, or goes back to wait.
Refused(p) ==
    /\ SameReceipts(store, store') /\ UNCHANGED <<call, answers>>
    /\ \E stage \in {"reading", "failing"} : pc' = [pc EXCEPT ![p] = stage]

\* The call is answered from a receipt.
Replays(p, got) ==
    /\ store.receipt[call[p].rid] = got /\ SameReceipts(store, store')

\* The call is granted a task, and a receipt for it.
Grants(p, got) ==
    /\ store.receipt[call[p].rid] = NoReceipt /\ ~Full(Reclaimed, call[p])
    /\ \A r \in RequestId :
          store'.receipt[r] = IF r = call[p].rid THEN got ELSE store.receipt[r]
    /\ store'.task[got.id].status = "in_progress"
    /\ store'.task[got.id].owner = call[p].actor
    /\ store'.task[got.id].lease = got.lease
    /\ \A y \in TaskId \ {got.id} : store'.task[y] = Reclaimed.task[y]

Answers(p, got) ==
    /\ got.print.actor = call[p].actor /\ pc' = [pc EXCEPT ![p] = "replying"]
    /\ call' = [call EXCEPT ![p].id = got.id, ![p].lease = got.lease]
    /\ answers' = [answers EXCEPT ![call[p].rid] = answers[call[p].rid] \cup {got.id}]
    /\ Replays(p, got) \/ Grants(p, got)

LEMMA AcquireEffect ==
    ASSUME IInv, NEW p \in Proc, TryAcquire(p)
    PROVE  /\ Asking(call[p]) /\ card[call[p].actor].known
           /\ Moves(store, store', call[p].actor, {})
           /\ Refused(p) \/ \E got \in Granted : Answers(p, got)
<1> DEFINE c == call[p]
           try == Allocate(Reclaimed, c)
           u == try.store
<1>0. /\ TypeOK /\ Fit(store) /\ Serves(p) /\ pc[p] = "trying" /\ c \in Call
      /\ c.kind = "acquire"
  BY DEF IInv, Serving, TryAcquire, TypeOK
<1>1. Asking(c) /\ card[c.actor].known
  BY <1>0 DEF Serves, Asking, Call
<1>2. Fit(Reclaimed) /\ SameReceipts(store, Reclaimed) /\ Moves(store, Reclaimed, c.actor, {})
  BY <1>0, ReclaimMoves DEF Moves
<1>3. /\ Moves(Reclaimed, u, c.actor, {})
      /\ \/ u = Reclaimed /\ try.reason # "ok"
         \/ /\ u = Reclaimed /\ Reclaimed.receipt[c.rid] # NoReceipt /\ try.reason = "ok"
            /\ try.got = Reclaimed.receipt[c.rid] /\ try.got.print.actor = c.actor
         \/ /\ Reclaimed.receipt[c.rid] = NoReceipt /\ ~Full(Reclaimed, c)
            /\ try.reason = "ok"
            /\ try.got \in Granted /\ try.got.print.actor = c.actor
            /\ \A r \in RequestId :
                 u.receipt[r] = IF r = c.rid THEN try.got ELSE Reclaimed.receipt[r]
            /\ u.task[try.got.id].status = "in_progress"
            /\ u.task[try.got.id].owner = c.actor
            /\ u.task[try.got.id].lease = try.got.lease
            /\ \A y \in TaskId \ {try.got.id} : u.task[y] = Reclaimed.task[y]
  <2> HIDE DEF c
  <2> QED
    BY <1>0, <1>1, <1>2, AllocateMoves
<1>4. /\ store' = Committed(store, now, Outcome(try.reason = "ok", u))
      /\ \/ /\ try.reason = "ok" /\ pc' = [pc EXCEPT ![p] = "replying"]
            /\ call' = [call EXCEPT ![p].id = try.got.id, ![p].lease = try.got.lease]
            /\ answers' = [answers EXCEPT ![c.rid] = answers[c.rid] \cup {try.got.id}]
         \/ /\ try.reason # "ok" /\ UNCHANGED <<call, answers>>
            /\ \E stage \in {"reading", "failing"} : pc' = [pc EXCEPT ![p] = stage]
  <2> HIDE DEF try
  <2>1. /\ store' = Committed(store, now, Outcome(try.reason = "ok", u))
        /\ \/ /\ try.reason = "ok" /\ pc' = [pc EXCEPT ![p] = "replying"]
              /\ call' = [call EXCEPT ![p].id = try.got.id, ![p].lease = try.got.lease]
              /\ answers' = [answers EXCEPT ![c.rid] = @ \cup {try.got.id}]
           \/ /\ try.reason = "no work" /\ pc' = [pc EXCEPT ![p] = "reading"]
              /\ UNCHANGED <<call, answers>>
           \/ /\ try.reason # "ok" /\ pc' = [pc EXCEPT ![p] = "failing"]
              /\ UNCHANGED <<call, answers>>
    BY DEF TryAcquire, Goto, Reported, try
  <2> QED
    BY <2>1
<1> HIDE DEF try, c
<1>5. Moves(store, store', c.actor, {})
  <2>1. Outcome(try.reason = "ok", u).store = u
    BY DEF Outcome
  <2> QED
    BY <1>0, <1>3, <1>4, <2>1, CommitMoves
<1>6. CASE try.reason # "ok"
  <2>1. u = Reclaimed
    BY <1>3, <1>6
  <2>2. store' \in {store, Reclaimed}
    BY <1>4, <2>1 DEF Committed, Outcome
  <2>3. SameReceipts(store, store')
    BY <1>2, <2>2 DEF SameReceipts
  <2> QED
    BY <1>1, <1>4, <1>5, <1>6, <2>3 DEF Refused, c
<1>7. CASE try.reason = "ok"
  <2>1. store' = u
    BY <1>4, <1>7 DEF Committed, Outcome
  <2>2. /\ pc' = [pc EXCEPT ![p] = "replying"]
        /\ call' = [call EXCEPT ![p].id = try.got.id, ![p].lease = try.got.lease]
        /\ answers' = [answers EXCEPT ![c.rid] = answers[c.rid] \cup {try.got.id}]
    BY <1>4, <1>7
  <2>3. c.rid \in RequestId /\ \A r \in RequestId : Reclaimed.receipt[r] = store.receipt[r]
    BY <1>1, <1>2 DEF Asking, SameReceipts
  <2>4. CASE u = Reclaimed /\ Reclaimed.receipt[c.rid] # NoReceipt
             /\ try.got = Reclaimed.receipt[c.rid] /\ try.got.print.actor = c.actor
    <3>1. try.got \in Granted
      BY <1>2, <2>3, <2>4 DEF Fit, WStore
    <3>2. Replays(p, try.got)
      BY <1>2, <2>1, <2>3, <2>4 DEF Replays, SameReceipts, c
    <3> QED
      BY <1>1, <1>5, <2>2, <2>4, <3>1, <3>2 DEF Answers, c
  <2>5. CASE /\ Reclaimed.receipt[c.rid] = NoReceipt /\ ~Full(Reclaimed, c)
             /\ try.got \in Granted /\ try.got.print.actor = c.actor
             /\ \A r \in RequestId :
                  u.receipt[r] = IF r = c.rid THEN try.got ELSE Reclaimed.receipt[r]
             /\ u.task[try.got.id].status = "in_progress"
             /\ u.task[try.got.id].owner = c.actor
             /\ u.task[try.got.id].lease = try.got.lease
             /\ \A y \in TaskId \ {try.got.id} : u.task[y] = Reclaimed.task[y]
    <3>1. Grants(p, try.got)
      BY <2>1, <2>3, <2>5 DEF Grants, c
    <3> QED
      BY <1>1, <1>5, <2>2, <2>5, <3>1 DEF Answers, c
  <2> QED
    BY <1>3, <1>7, <2>4, <2>5
<1> QED
  BY <1>6, <1>7

LEMMA TryAcquireStep ==
    ASSUME IInv, NEW p \in Proc, TryAcquire(p)
    PROVE  IInv'
<1> DEFINE a == call[p].actor
           rid == call[p].rid
<1>0. /\ TypeOK /\ Serves(p) /\ pc[p] = "trying" /\ call[p] \in Call
      /\ call[p].kind = "acquire" /\ {"reading", "replying", "failing"} \subseteq Stage
      /\ UNCHANGED <<card, now, awaits, belief, answered, ended, calls>> /\ CardsStay
  BY DEF IInv, Stage, Serving, TryAcquire, TypeOK, CardsStay
<1>1. /\ a \in Actor /\ rid \in RequestId /\ card[a].known
      /\ Moves(store, store', a, {})
      /\ Refused(p) \/ \E got \in Granted : Answers(p, got)
  BY AcquireEffect DEF Asking
<1>2. CASE Refused(p)
  <2>1. PICK stage \in {"reading", "failing"} : pc' = [pc EXCEPT ![p] = stage]
    BY <1>2 DEF Refused
  <2>2. SameReceipts(store, store') /\ call' = call /\ answers' = answers
    BY <1>2 DEF Refused
  <2>3. /\ pc' \in [Proc -> Stage] /\ pc'[p] = stage /\ stage # "replying"
        /\ \A q \in Proc \ {p} : pc'[q] = pc[q] /\ call'[q] = call[q]
    BY <1>0, <2>1, <2>2 DEF TypeOK
  <2>4. Trusted'
    <3>1. \A q \in Proc : pc'[q] # "replying" \/ (pc[q] = "replying" /\ call'[q] = call[q])
      BY <2>3
    <3> QED
      BY <1>0, <1>1, <2>2, <3>1, TransactionStep
  <2>5. TypeOK'
    BY <1>0, <2>2, <2>3, <2>4, StoreTypes DEF TypeOK
  <2>6. Serving'
    <3>1. Serves(p)'
      BY <1>0, <1>1, <2>2, <2>3 DEF Serves
    <3> QED
      BY <1>0, <2>3, <3>1, ServingKept
  <2>7. Believers'
    BY <1>0 DEF IInv, Believers
  <2> QED
    BY <2>4, <2>5, <2>6, <2>7 DEF IInv, Trusted
<1>3. ASSUME NEW got \in Granted, Answers(p, got)
      PROVE  IInv'
  <2> DEFINE c == [call[p] EXCEPT !.id = got.id, !.lease = got.lease]
             b == [id |-> got.id, lease |-> got.lease]
  <2>1. /\ got.id \in TaskId /\ got.lease \in Nat /\ got # NoReceipt /\ b \in Belief
    BY GrantedAssumption DEF Granted, Belief
  <2>2. call' = [call EXCEPT ![p] = c] /\ pc' = [pc EXCEPT ![p] = "replying"]
    BY <1>0, <1>3 DEF Answers, TypeOK
  <2>3. /\ c \in Call /\ c.actor = a /\ c.kind = "acquire" /\ c.rid = rid
        /\ c.id = got.id /\ c.lease = got.lease
    BY <1>0, <2>1 DEF Call
  <2> HIDE DEF c
  <2>4. /\ pc' \in [Proc -> Stage] /\ call' \in [Proc -> Call]
        /\ pc'[p] = "replying" /\ call'[p] = c
        /\ \A q \in Proc \ {p} : pc'[q] = pc[q] /\ call'[q] = call[q]
    BY <1>0, <2>2, <2>3, OneProcess
  <2>5. /\ Fit(store)' /\ OwnersAreRegistered'
        /\ \A d \in Actor, x \in Belief : Backed(d, x) => Backed(d, x)'
    BY <1>0, <1>1, TransactionBacked
  <2>6. /\ \A r \in RequestId \ {rid} : store'.receipt[r] = store.receipt[r]
        /\ store'.receipt[rid] = got
        /\ store.receipt[rid] = NoReceipt \/ store.receipt[rid] = got
    BY <1>1, <1>3, <2>1 DEF Answers, Replays, Grants, SameReceipts
  <2>7. got.print.actor = a
    BY <1>3 DEF Answers
  \* What the reply says of the lease.
  <2>8. got.lease > now' /\ got.id \notin ended'[a] =>
          /\ store'.task[got.id].status = "in_progress"
          /\ store'.task[got.id].owner = a
          /\ store'.task[got.id].lease >= got.lease
    <3>1. CASE Grants(p, got)
      BY <2>1, <3>1 DEF Grants
    <3>2. CASE Replays(p, got)
      <4>1. store.receipt[rid] = got
        BY <3>2 DEF Replays
      <4>2. Backed(a, b)
        BY <1>1, <2>1, <2>7, <4>1, BeliefTypes
      <4>3. \A d \in Actor, x \in Belief : Backed(d, x) =>
              (x.lease > now' /\ x.id \notin ended'[d] =>
                 /\ store'.task[x.id].status = "in_progress"
                 /\ store'.task[x.id].owner = d
                 /\ store'.task[x.id].lease >= x.lease)
        BY <2>5 DEF Backed, Holds
      <4>4. b.lease > now' /\ b.id \notin ended'[a] =>
              /\ store'.task[b.id].status = "in_progress"
              /\ store'.task[b.id].owner = a
              /\ store'.task[b.id].lease >= b.lease
        <5> HIDE DEF b
        <5> QED
          BY <1>1, <2>1, <4>2, <4>3
      <4> QED
        BY <4>4
    <3> QED
      BY <1>3, <3>1, <3>2 DEF Answers
  <2>9. ReplyBacked(p)'
    BY <2>3, <2>4, <2>8 DEF ReplyBacked, Backed, Holds
  <2>10. \A r \in RequestId : r = rid => ReceiptBacked(r)'
    BY <2>6, <2>7, <2>8 DEF ReceiptBacked, Backed, Holds
  <2>11. Believable' /\ BelievedLeasesAreHeld'
    <3>1. \A q \in Proc : \/ pc'[q] # "replying"
                          \/ (pc[q] = "replying" /\ call'[q] = call[q])
                          \/ ReplyBacked(q)'
      BY <2>4, <2>9
    <3>2. \A r \in RequestId : store'.receipt[r] = store.receipt[r] \/ ReceiptBacked(r)'
      BY <2>6, <2>10
    <3> QED
      BY <1>0, <2>5, <3>1, <3>2, BelievableKept
  <2>12. /\ answers' \in [RequestId -> SUBSET TaskId]
         /\ \A r \in RequestId \ {rid} : answers'[r] = answers[r]
         /\ answers'[rid] = answers[rid] \cup {got.id}
    BY <1>0, <1>1, <1>3, <2>1 DEF Answers, TypeOK
  <2>13. ByReceipt'
    <3>1. ASSUME NEW r \in RequestId, NEW id \in answers'[r]
          PROVE  store'.receipt[r] # NoReceipt /\ store'.receipt[r].id = id
      <4>1. CASE r = rid /\ id = got.id
        BY <2>1, <2>6, <4>1
      <4>2. CASE id \in answers[r]
        <5>1. store.receipt[r] # NoReceipt /\ store.receipt[r].id = id
          BY <4>2 DEF IInv, ByReceipt
        <5> QED
          BY <2>6, <5>1
      <4> QED
        BY <2>12, <4>1, <4>2
    <3> QED
      BY <3>1 DEF ByReceipt
  <2>14. Trusted'
    BY <2>5, <2>11, <2>13 DEF Trusted
  <2>15. TypeOK'
    BY <1>0, <2>4, <2>12, <2>14, StoreTypes DEF TypeOK
  <2>16. Serving'
    <3>1. Serves(p)'
      BY <1>0, <1>1, <2>1, <2>3, <2>4 DEF Serves
    <3> QED
      BY <1>0, <2>4, <3>1, ServingKept
  <2>17. Believers'
    BY <1>0 DEF IInv, Believers
  <2> QED
    BY <2>14, <2>15, <2>16, <2>17 DEF IInv, Trusted
<1> QED
  BY <1>1, <1>2, <1>3

-----------------------------------------------------------------------------
(* The invariant and the theorems.                                         *)

LEMMA InitInv == Init => IInv
<1> SUFFICES ASSUME Init PROVE IInv
  OBVIOUS
<1>1. /\ NoTask \in Task /\ NoTask.lease = 0 /\ NoTask.status = "absent"
      /\ NoTask.owner = NoActor
  <2>1. NoTask \in Task
    BY CountsAssumption DEF Task, Status, NoTask, Priority
  <2> QED
    BY <2>1 DEF NoTask
<1>2. /\ store \in WStore /\ \A id \in TaskId : store.task[id] = NoTask
      /\ \A r \in RequestId : store.receipt[r] = NoReceipt
  BY <1>1, CountsAssumption DEF Init, NewTaskStore, WStore
<1>3. Fit(store)
  <2>1. 0 <= now + Lease
    BY WorkerAssumption DEF Init
  <2> QED
    BY <1>1, <1>2, <2>1 DEF Fit
<1>4. TypeOK
  <2>1. store.task \in [TaskId -> Task] /\ store.nextID \in 1..(MaxTasks + 1)
        /\ store.receipt \in [RequestId -> Granted \cup {NoReceipt}]
    BY <1>2 DEF WStore
  <2>2. card \in [Actor -> Card]
    BY WorkerAssumption DEF Init, Card
  <2>3. call \in [Proc -> Call] /\ pc \in [Proc -> Stage]
    BY IdleCall DEF Init, NoCall, Stage
  <2> QED
    BY <2>1, <2>2, <2>3, WorkerAssumption DEF Init, TypeOK
<1>5. Serving /\ Believers /\ ByReceipt /\ BelievedLeasesAreHeld
  BY DEF Init, Serving, Serves, Believers, ByReceipt, BelievedLeasesAreHeld
<1>6. OwnersAreRegistered
  BY <1>1, <1>2 DEF OwnersAreRegistered
<1>7. Believable
  BY <1>2 DEF Init, Believable, ReplyBacked, ReceiptBacked
<1> QED
  BY <1>3, <1>4, <1>5, <1>6, <1>7 DEF IInv

LEMMA StepInv == IInv /\ [Next]_vars => IInv'
<1> SUFFICES ASSUME IInv, [Next]_vars PROVE IInv'
  OBVIOUS
<1>1. ASSUME NEW p \in Proc, NEW a \in Actor, Ask(p, a) PROVE IInv'
  BY <1>1, AskStep
<1>2. ASSUME NEW p \in Proc, Proceed(p) PROVE IInv'
  BY <1>2, RegisterStep, PlanStep, PreflightStep, TryAcquireStep, TryClaimStep, ReplyStep
     DEF Proceed
<1>3. ASSUME NEW p \in Proc, Kill(p) PROVE IInv'
  BY <1>3, KillStep
<1>4. CASE Around
  BY <1>4, EndStep, HeartbeatStep, SetCardStep, GiveUpStep, AddStep DEF Around
<1>5. CASE Tick
  BY <1>5, TickStep
<1>6. CASE UNCHANGED vars
  BY <1>6 DEF vars, told, IInv, TypeOK, Fit, Serving, Serves, Believers,
              OwnersAreRegistered, ByReceipt, Believable, ReplyBacked, ReceiptBacked,
              Backed, BelievedLeasesAreHeld, Holds
<1> QED
  BY <1>1, <1>2, <1>3, <1>4, <1>5, <1>6 DEF Next

LEMMA Invariance == Spec => []IInv
<1> QED
  BY InitInv, StepInv, PTL DEF Spec

\* A lost reply, a retry or a kill leaves the state well formed: a process knows
\* what it serves and an agent which process it waits for (acquire and claim).
THEOREM WorkerTypeCorrect == Spec => []TypeOK
<1>1. IInv => TypeOK
  BY DEF IInv
<1> QED
  BY <1>1, Invariance, PTL

\* "Durable request IDs make acquire idempotent" (README.md:80): however often a
\* request is sent, lost or run twice at once, its answers name one task.
THEOREM OneTaskForEachRequest == Spec => []OneTaskPerRequest
<1>1. IInv => OneTaskPerRequest
  <2> SUFFICES ASSUME IInv, NEW r \in RequestId PROVE Cardinality(answers[r]) <= 1
    BY DEF OneTaskPerRequest
  <2>1. answers[r] \subseteq {store.receipt[r].id}
    BY DEF IInv, ByReceipt
  <2>2. /\ IsFiniteSet({store.receipt[r].id}) /\ Cardinality({store.receipt[r].id}) = 1
    BY FS_Singleton
  <2>3. IsFiniteSet(answers[r]) /\ Cardinality(answers[r]) <= Cardinality({store.receipt[r].id})
    BY <2>1, <2>2, FS_Subset
  <2> QED
    BY <2>2, <2>3
<1> QED
  BY <1>1, Invariance, PTL

\* What an agent was told of a lease stays true until it runs out, whatever late
\* transactions of calls it gave up on, replays and other agents do.
THEOREM WhatAgentsBelieveIsTrue == Spec => []BelievedLeasesAreHeld
<1>1. IInv => BelievedLeasesAreHeld
  BY DEF IInv
<1> QED
  BY <1>1, Invariance, PTL

\* claim and acquire put the agent into agents.json before they lease it work, so
\* no owner is missing there.
THEOREM EveryOwnerIsRegistered == Spec => []OwnersAreRegistered
<1>1. IInv => OwnersAreRegistered
  BY DEF IInv
<1> QED
  BY <1>1, Invariance, PTL

\* Two calls of one agent that run at once cannot both pass its limit: each grant
\* leaves the agent with at most as much work as its plan allows.
THEOREM GrantsKeepToThePlan == Spec => GrantsRespectThePlan
<1>1. ASSUME IInv, [Next]_vars
      PROVE  \A p \in Proc :
               (call[p].kind = "acquire" /\ store'.receipt # store.receipt
                /\ pc[p] = "trying" /\ pc'[p] = "replying" /\ call[p].load # 0)
               => Cardinality(Owned(store', call[p].actor)) <= call[p].load
  <2> SUFFICES ASSUME NEW p \in Proc, call[p].kind = "acquire",
                      store'.receipt # store.receipt, pc[p] = "trying",
                      pc'[p] = "replying", call[p].load # 0
               PROVE  Cardinality(Owned(store', call[p].actor)) <= call[p].load
    OBVIOUS
  <2>0. TypeOK /\ IInv'
    BY <1>1, StepInv DEF IInv
  <2>1. TryAcquire(p)
    <3>1. ASSUME NEW q \in Proc, NEW a \in Actor, Ask(q, a) PROVE FALSE
      <4>1. pc' = [pc EXCEPT ![q] = "registering"]
        BY <3>1 DEF Ask, BeginAcquire, BeginClaim, Begin, Goto, FirstStage
      <4> QED
        BY <2>0, <4>1 DEF TypeOK
    <3>2. ASSUME NEW q \in Proc, Proceed(q) PROVE TryAcquire(p)
      <4>1. q = p
        <5>1. \E stage \in Stage : pc' = [pc EXCEPT ![q] = stage]
          BY <3>2 DEF Proceed, Register, Plan, Preflight, TryAcquire, TryClaim, Reply,
                      Goto, Stage
        <5> QED
          BY <2>0, <5>1 DEF TypeOK
      <4> QED
        BY <3>2, <4>1 DEF Proceed, Register, Plan, Preflight, TryClaim, Reply
    <3>3. ASSUME NEW q \in Proc, Kill(q) PROVE FALSE
      BY <2>0, <3>3 DEF Kill, Goto, TypeOK
    <3>4. CASE Around
      BY <3>4 DEF Around, Done, Release, Finish, Heartbeat, SetCard, GiveUp, Add
    <3>5. CASE Tick \/ UNCHANGED vars
      BY <3>5 DEF Tick, vars
    <3> QED
      BY <1>1, <3>1, <3>2, <3>3, <3>4, <3>5 DEF Next
  <2>2. PICK got \in Granted : Answers(p, got)
    <3>1. Refused(p) => FALSE
      BY <2>0 DEF Refused, TypeOK
    <3> QED
      BY <1>1, <2>1, <3>1, AcquireEffect
  <2>3. Grants(p, got)
    <3>1. store.receipt \in [RequestId -> Granted \cup {NoReceipt}]
          /\ store'.receipt \in [RequestId -> Granted \cup {NoReceipt}]
      BY <2>0 DEF IInv, TypeOK
    <3>2. ~Replays(p, got)
      BY <3>1 DEF Replays, SameReceipts
    <3> QED
      BY <2>2, <3>2 DEF Answers
  <2> DEFINE a == call[p].actor
             old == Owned(Reclaimed, a)
             new == Owned(store', a)
  <2>4. call[p].load \in Nat \ {0}
    BY <2>0, WorkerAssumption DEF TypeOK, Call
  <2>5. IsFiniteSet(old)
    <3>1. IsFiniteSet(TaskId)
      BY FS_Interval, CountsAssumption DEF TaskId
    <3>2. old \subseteq TaskId
      BY DEF Owned
    <3> QED
      BY <3>1, <3>2, FS_Subset
  <2>6. Cardinality(old) \in Nat /\ Cardinality(old) < call[p].load
    <3>1. Cardinality(old) \in Nat
      BY <2>5, FS_CardinalityType
    <3> QED
      BY <2>3, <2>4, <3>1 DEF Grants, Full, AtCapacity
  <2>7. new \subseteq old \cup {got.id}
    BY <2>3 DEF Grants, Owned
  <2> HIDE DEF old, new
  <2>8. /\ IsFiniteSet(old \cup {got.id})
        /\ Cardinality(old \cup {got.id}) <= Cardinality(old) + 1
    <3>1. /\ IsFiniteSet(old \cup {got.id})
          /\ Cardinality(old \cup {got.id}) =
               IF got.id \in old THEN Cardinality(old) ELSE Cardinality(old) + 1
      BY <2>5, FS_AddElement, Zenon
    <3> QED
      BY <2>6, <3>1
  <2>9. Cardinality(new) <= Cardinality(old \cup {got.id}) /\ IsFiniteSet(new)
    BY <2>7, <2>8, FS_Subset
  <2>10. Cardinality(new) \in Nat /\ Cardinality(old \cup {got.id}) \in Nat
    BY <2>8, <2>9, FS_CardinalityType
  <2> QED
    BY <2>4, <2>6, <2>8, <2>9, <2>10 DEF new
<1> QED
  BY <1>1, Invariance, PTL DEF Spec, GrantsRespectThePlan
=============================================================================
