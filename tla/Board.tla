------------------------------- MODULE Board -------------------------------
(***************************************************************************)
(* Agents working on one coordination store.  Every action is one complete *)
(* call of a CLI command or JSON-RPC handler that changes the store: the   *)
(* exclusive transaction of store.Update, which reclaims expired leases,   *)
(* runs the operation and commits or abandons it.                          *)
(*                                                                         *)
(* The clock is read twice in a transaction: CleanExpiredLeases reads it   *)
(* before the operation does, so the operation runs at some later `at`     *)
(* with now <= at.  Failed calls are steps too: they change nothing, or    *)
(* only what the reclaim pass and a half-done callback left behind.        *)
(***************************************************************************)
EXTENDS TaskStore

CONSTANTS
    MaxTime,     \* bound on the clock
    TTL,         \* lease durations in milliseconds; 0 is a sub-millisecond TTL
    MaxLoad,     \* max_load of every agent card, 0 for no limit
    MaxChildren, \* bound on the subtasks of one decompose call
    MaxEdits     \* bound on the dependencies one update adds, and drops

ASSUME BoardAssumption ==
    /\ MaxTime \in Nat \ {0}
    /\ TTL \subseteq Nat
    /\ MaxLoad \in Nat
    /\ MaxChildren \in Nat
    /\ MaxEdits \in Nat

VARIABLES
    store,  \* the committed contents of tasks.bin
    now     \* the wall clock in milliseconds, never 0

vars == <<store, now>>

Caller == Actor \cup {NoActor}

TypeOK == store \in Store /\ now \in 1..MaxTime

Init == store = NewTaskStore /\ now = 1

-----------------------------------------------------------------------------
(* store.Update: `outcome` is the callback run on Reclaimed at time `at`.  *)

Reclaimed == CleanExpiredLeases(store, now)

Later == now..MaxTime

Transact(outcome, at) ==
    /\ store' = Committed(store, now, outcome)
    /\ now' = at

-----------------------------------------------------------------------------
(* The calls.                                                              *)

Add(deps, caps, prio) ==
    /\ store.nextID <= MaxTasks
    /\ Cardinality(deps) <= MaxDeps
    /\ Transact(CreateTask(Reclaimed, deps, caps, prio), now)

Claim(a, id, ttl, resolved, at) ==
    Transact(ClaimTask(Reclaimed, id, a, ttl, resolved, at), at)

Acquire(rid, req, resolved, at) ==
    Transact(AcquireTask(Reclaimed, rid, req, MaxLoad, resolved, at), at)

Heartbeat(a, id, ttl, at) ==
    Transact(RenewLease(Reclaimed, id, a, ttl, at), at)

Handoff(a, id, fits, at) ==
    Transact(HandoffTask(Reclaimed, id, a, fits, at), at)

Done(a, i, j, resolved) ==
    Transact(CompleteBatch(Reclaimed, i, j, a, resolved), now)

Release(a, i, j, failure) ==
    Transact(ReleaseBatch(Reclaimed, i, j, a, failure), now)

Block(a, id) == Transact(BlockTask(Reclaimed, id, a), now)

Unblock(id) == Transact(UnblockTask(Reclaimed, id), now)

Update(a, id, add, drop, caps, prio, fits) ==
    Transact(UpdateTask(Reclaimed, id, a, add, drop, caps, prio, fits), now)

Decompose(a, id, n, caps) ==
    /\ store.nextID + n - 1 <= MaxTasks
    /\ Transact(DecomposeTask(Reclaimed, id, a, n, caps), now)

Remove(R) == Transact(RemoveTasks(Reclaimed, R), now)

Prune == Transact(PruneCompletedTasks(Reclaimed), now)

\* LoadCurrent: a query that finds an expired lease reclaims it durably.
Query ==
    /\ Expired(store, now) # {}
    /\ store' = Reclaimed
    /\ UNCHANGED now

Tick == now < MaxTime /\ now' = now + 1 /\ UNCHANGED store

-----------------------------------------------------------------------------

Reference == TaskId \cup Remote

Edits == {D \in SUBSET Reference : Cardinality(D) <= MaxEdits}

LeaseCall(a) ==
    \E id \in TaskId, at \in Later :
        \/ \E ttl \in TTL, resolved \in SUBSET Remote : Claim(a, id, ttl, resolved, at)
        \/ \E ttl \in TTL : Heartbeat(a, id, ttl, at)
        \/ \E fits \in BOOLEAN : Handoff(a, id, fits, at)

AcquireCall(a) ==
    \E rid \in RequestId, ttl \in TTL, caps \in SUBSET Capability,
       resolved \in SUBSET Remote, at \in Later :
        Acquire(rid, [actor |-> a, ttl |-> ttl, caps |-> caps], resolved, at)

StatusCall(a) ==
    \E i \in TaskId :
        \/ \E j \in TaskId, resolved \in SUBSET Remote : Done(a, i, j, resolved)
        \/ \E j \in TaskId, failure \in Failure \cup {NoFailure} :
               Release(a, i, j, failure)
        \/ Block(a, i)

EditCall(a) ==
    \E id \in TaskId, caps \in SUBSET Capability :
        \/ \E add \in Edits, drop \in Edits, prio \in Priority, fits \in BOOLEAN :
               Update(a, id, add, drop, caps, prio, fits)
        \/ \E n \in 1..MaxChildren : Decompose(a, id, n, caps)

\* Calls that check no owner.
OpenCall ==
    \/ \E deps \in SUBSET Reference, caps \in SUBSET Capability, prio \in Priority :
           Add(deps, caps, prio)
    \/ \E id \in TaskId : Unblock(id)
    \/ \E R \in (SUBSET TaskId) \ {{}} : Remove(R)
    \/ Prune
    \/ Query

\* claim, acquire, heartbeat and handoff demand an actor; the rest do not.
CallOf(a) ==
    \/ a # NoActor /\ (LeaseCall(a) \/ AcquireCall(a))
    \/ StatusCall(a)
    \/ EditCall(a)

Next == (\E a \in Caller : CallOf(a)) \/ OpenCall \/ Tick

Spec == Init /\ [][Next]_vars

-----------------------------------------------------------------------------
(* Safety.                                                                 *)

LeaseWhole(t) ==
    /\ (t.status = "in_progress") <=> (t.owner # NoActor)
    /\ (t.status = "in_progress") <=> (t.lease # 0)

LocalDeps(s, id) == s.task[id].deps \cap TaskId

(***************************************************************************)
(* The ownership lease is all or nothing: a task is in progress exactly    *)
(* when it has an owner and exactly when it has an expiry.  doctor reports *)
(* a store where it is not (storeInvariantProblems), and an in-progress    *)
(* task without an expiry could never be reclaimed.                        *)
(***************************************************************************)
LeaseShape == \A id \in TaskId : LeaseWhole(store.task[id])

(***************************************************************************)
(* No task depends on a local task that is gone, and no ID from NextID up  *)
(* is in use.  rm, prune, add, update and decompose each touch the edges   *)
(* or the IDs in their own way; a dangling edge would strand its task.     *)
(***************************************************************************)
GraphIntact ==
    \A id \in Present(store) :
        LocalDeps(store, id) \subseteq Present(store) /\ id < store.nextID

(***************************************************************************)
(* The local dependency graph has no cycle: every nonempty set of tasks    *)
(* has a member with no prerequisite inside the set.  add, update and      *)
(* decompose each check a projected graph; this is about the stored one.   *)
(***************************************************************************)
Acyclic ==
    \A S \in (SUBSET TaskId) \ {{}} : \E x \in S : LocalDeps(store, x) \cap S = {}

(***************************************************************************)
(* The event feed tells the truth: the last lifecycle event of a task, as  *)
(* a watcher of `todo events` reads it, implies the status the store has.  *)
(* A child of decompose is born without an event and is pending.           *)
(***************************************************************************)
Announced(q) ==
    IF q = << >> THEN "pending"
    ELSE CASE q[Len(q)] = "task_claimed"   -> "in_progress"
           [] q[Len(q)] = "task_completed" -> "completed"
           [] q[Len(q)] = "task_blocked"   -> "blocked"
           [] q[Len(q)] = "task_removed"   -> "absent"
           [] OTHER                        -> "pending"

FeedTellsStatus ==
    \A id \in Present(store) : Announced(store.feed[id]) = store.task[id].status

(***************************************************************************)
(* A receipt outlives every change of its task but its removal: RemoveTask *)
(* drops the receipts of a task with it, so a replay never hands a worker  *)
(* a task that is gone.                                                    *)
(***************************************************************************)
ReceiptsBacked ==
    \A r \in RequestId :
        store.receipt[r] # NoReceipt => store.receipt[r].id \in Present(store)

-----------------------------------------------------------------------------
(* What a step may never do.                                               *)

(***************************************************************************)
(* An unexpired lease ends only by a call of its holder, whatever calls    *)
(* the others race against it: nobody can steal, finish, block, decompose  *)
(* or remove work that is being done.                                      *)
(***************************************************************************)
HoldersKeepLeases ==
    [][\A a \in Actor, id \in TaskId :
         (/\ store.task[id].owner = a
          /\ store.task[id].lease > now'
          /\ store'.task[id].owner # a)
         => ~OpenCall /\ \A b \in Caller \ {a} : ~CallOf(b)]_vars

(***************************************************************************)
(* Completion is final and IDs are never reused: a completed task can only *)
(* be removed, and the ID of a removed task stays empty.                   *)
(***************************************************************************)
CompletedIsFinal ==
    [][\A id \in TaskId :
         /\ store.task[id].status = "completed"
                => store'.task[id].status \in {"completed", "absent"}
         /\ store.task[id].status = "absent" /\ id < store.nextID
                => store'.task[id].status = "absent"]_vars

(***************************************************************************)
(* Work starts, changes hands and completes only when every local          *)
(* prerequisite of the task is completed, in single calls and in batches   *)
(* that complete a task and its prerequisite together.                     *)
(***************************************************************************)
WorkStartsReady ==
    [][\A id \in TaskId :
         (\/ store'.task[id].owner \notin {NoActor, store.task[id].owner}
          \/ store'.task[id].status = "completed" /\ store.task[id].status # "completed")
         => \A d \in LocalDeps(store', id) : store'.task[d].status = "completed"]_vars

(***************************************************************************)
(* A delayed heartbeat never revives a lease whose expiry has passed when  *)
(* the call ends, even if it had not when the call reclaimed leases.       *)
(***************************************************************************)
NoRevival ==
    [][\A id \in TaskId :
         (/\ store.task[id].lease # 0
          /\ store.task[id].lease <= now'
          /\ store'.task[id].lease > store.task[id].lease)
         => \A a \in Actor, ttl \in TTL : ~Heartbeat(a, id, ttl, now')]_vars

\* The acquisitions a step granted: request IDs that got a receipt.
Granted == {r \in RequestId : store.receipt[r] = NoReceipt /\ store'.receipt[r] # NoReceipt}

(***************************************************************************)
(* No priority inversion: acquire never grants a task while it leaves      *)
(* behind a compatible ready one with a higher priority, or with the same  *)
(* priority and a lower ID.                                                *)
(***************************************************************************)
AcquireTakesBest ==
    [][\A r \in Granted, id \in TaskId :
         LET best == store'.task[store'.receipt[r].id]
             t == store'.task[id]
         IN  (/\ t.status = "pending"
              /\ t.caps \subseteq store'.receipt[r].req.caps
              /\ t.deps \subseteq {d \in TaskId : store'.task[d].status = "completed"})
             => \/ t.prio < best.prio
                \/ t.prio = best.prio /\ id > store'.receipt[r].id]_vars

-----------------------------------------------------------------------------
(* What the repository says and the code does not do.                      *)

(***************************************************************************)
(* "A mutation that fails must commit nothing" (store/fault_test.go): a    *)
(* done call that fails leaves at most the reclaim pass behind.            *)
(***************************************************************************)
FailedBatchCommitsNothing ==
    [][\A a \in Caller, i, j \in TaskId :
         Done(a, i, j, {}) /\ ~CompleteBatch(Reclaimed, i, j, a, {}).ok
             => store' = Reclaimed]_vars

=============================================================================
