----------------------------- MODULE Retention -----------------------------
(***************************************************************************)
(* What a store keeps and what it forgets: the event log and the consumers *)
(* that page through it with a cursor, acquisition receipts, explicit      *)
(* compaction, and backups that a restore puts back whole, counters        *)
(* included.                                                               *)
(*                                                                         *)
(* Tasks are reduced to their status; who may do what to them is the       *)
(* business of Board.  Each action is one transaction of store.Update,     *)
(* except Backup and Restore, which read one file and write another.       *)
(*                                                                         *)
(* A restore puts the counters back, and event and task IDs are issued     *)
(* again.  To tell the old events from the new, an event carries its era,  *)
(* the number of restores before it; the code has no such field.  What was *)
(* ever issued and granted is remembered outside the store, where no       *)
(* restore takes it back.                                                  *)
(***************************************************************************)
EXTENDS Integers, FiniteSets

CONSTANTS
    MaxTasks,    \* bound: task IDs are 1..MaxTasks
    MaxEvents,   \* bound: event IDs are 1..MaxEvents
    MaxRestores, \* bound on restores
    Start,       \* the first value of the clock
    MaxTime,     \* bound on the clock
    Width,       \* 2^64, the values of an unsigned time stamp
    RequestId,   \* idempotency keys of acquire
    NoReceipt,   \* no receipt under a key
    Consumer,    \* readers of the event log
    Limit,       \* page limits
    KeepCount,   \* values of compact --keep-events
    Duration,    \* values of compact --receipts-before
    BackupFile,  \* backup files
    NoFile       \* what a file that does not exist contains

ASSUME RetentionAssumption ==
    /\ MaxTasks \in Nat /\ MaxEvents \in Nat /\ MaxRestores \in Nat
    /\ Start \in Nat \ {0} /\ MaxTime \in Nat
    /\ Width \in Nat /\ Width > MaxTime
    /\ Limit \subseteq Nat \ {0} /\ KeepCount \subseteq Nat
    /\ Duration \subseteq Nat \ {0}

ASSUME ClockAssumption == Start <= MaxTime

ASSUME NoReceiptAssumption == NoReceipt \notin [id : Nat, created : Nat]

TaskId == 1..MaxTasks

Event == [id : 1..MaxEvents, era : 0..MaxRestores]

Receipt == [id : TaskId, created : Nat]

\* An acquisition: the request ID, the task and the event that recorded it.
Grant == [request : RequestId, id : TaskId, event : Event]

Store ==
    [status    : [TaskId -> {"absent", "pending", "in_progress", "completed"}],
     nextID    : 1..(MaxTasks + 1),
     receipt   : [RequestId -> Receipt \cup {NoReceipt}],
     events    : SUBSET Event,
     nextEvent : 1..(MaxEvents + 1)]

ASSUME NoFileAssumption == NoFile \notin Store

NewTaskStore ==
    [status    |-> [t \in TaskId |-> "absent"],
     nextID    |-> 1,
     receipt   |-> [r \in RequestId |-> NoReceipt],
     events    |-> {},
     nextEvent |-> 1]

VARIABLES
    store,    \* the committed contents of tasks.bin
    backup,   \* the contents of every backup file
    now,      \* the wall clock in milliseconds
    cursor,   \* the last event ID every consumer has dealt with
    \* history:
    restores, \* how many restores there were
    issued,   \* every event ever issued
    granted,  \* every acquisition there ever was
    past,     \* the events that led to the store, compacted ones included
    saved,    \* the events that led to what every backup file contains
    seen,     \* the events every consumer was sent
    told      \* the events reported to every consumer as a retention gap

archive == <<backup, saved, restores>>

readers == <<cursor, seen, told>>

vars == <<store, now, issued, granted, past, archive, readers>>

TypeOK ==
    /\ store \in Store
    /\ backup \in [BackupFile -> Store \cup {NoFile}]
    /\ now \in Start..MaxTime
    /\ cursor \in [Consumer -> 0..MaxEvents]
    /\ restores \in 0..MaxRestores
    /\ issued \subseteq Event /\ granted \subseteq Grant
    /\ past \subseteq Event /\ saved \in [BackupFile -> SUBSET Event]
    /\ seen \in [Consumer -> SUBSET Event]
    /\ told \in [Consumer -> SUBSET Event]

Init ==
    /\ store = NewTaskStore
    /\ backup = [f \in BackupFile |-> NoFile]
    /\ now = Start
    /\ cursor = [c \in Consumer |-> 0]
    /\ restores = 0
    /\ issued = {} /\ granted = {} /\ past = {}
    /\ saved = [f \in BackupFile |-> {}]
    /\ seen = [c \in Consumer |-> {}]
    /\ told = [c \in Consumer |-> {}]

-----------------------------------------------------------------------------
(* Transactions.                                                           *)

NextEvent(s) == s.nextEvent

Fresh == [id |-> NextEvent(store), era |-> restores]

\* AddEvent, on the store that the rest of the transaction made.
Logged(s) ==
    [s EXCEPT !.events = @ \cup {Fresh}, !.nextEvent = NextEvent(store) + 1]

\* A transaction that logs one event and otherwise leaves s.
Log(s) ==
    /\ NextEvent(store) <= MaxEvents
    /\ store' = Logged(s)
    /\ issued' = issued \cup {Fresh}
    /\ past' = past \cup {Fresh}
    /\ UNCHANGED <<now, archive, readers>>

\* A transaction that logs none and leaves s.
Commit(s) ==
    /\ store' = s
    /\ UNCHANGED <<now, issued, granted, past, archive, readers>>

SetStatus(t, status) == [store EXCEPT !.status[t] = status]

Add ==
    /\ store.nextID <= MaxTasks
    /\ Log([SetStatus(store.nextID, "pending") EXCEPT !.nextID = @ + 1])
    /\ UNCHANGED granted

\* acquire under a request ID without a receipt.
Acquire(r, t) ==
    /\ store.receipt[r] = NoReceipt
    /\ store.status[t] = "pending"
    /\ Log([SetStatus(t, "in_progress") EXCEPT
              !.receipt[r] = [id |-> t, created |-> now]])
    /\ granted' = granted \cup {[request |-> r, id |-> t, event |-> Fresh]}

Yield(t) ==
    /\ store.status[t] = "in_progress"
    /\ Log(SetStatus(t, "pending"))
    /\ UNCHANGED granted

Complete(t) ==
    /\ store.status[t] \in {"pending", "in_progress"}
    /\ Log(SetStatus(t, "completed"))
    /\ UNCHANGED granted

\* RemoveTask for every task of R: the record and its receipts go.
Without(s, R) ==
    [s EXCEPT
        !.status = [t \in TaskId |-> IF t \in R THEN "absent" ELSE s.status[t]],
        !.receipt = [r \in RequestId |->
            IF s.receipt[r] # NoReceipt /\ s.receipt[r].id \in R
            THEN NoReceipt ELSE s.receipt[r]]]

Remove(t) ==
    /\ store.status[t] \in {"pending", "completed"}
    /\ Log(Without(store, {t}))
    /\ UNCHANGED granted

\* prune logs no event.
Prune == Commit(Without(store, {t \in TaskId : store.status[t] = "completed"}))

Tick ==
    /\ now < MaxTime
    /\ now' = now + 1
    /\ UNCHANGED <<store, issued, granted, past, archive, readers>>

-----------------------------------------------------------------------------
(* compact.                                                                *)

\* Wrong: the oldest events are kept.
FaultyNewest(E, n) == {e \in E : Cardinality({f \in E : f.id < e.id}) < n}

\* The n newest of the events E.
Newest(E, n) == {e \in E : Cardinality({f \in E : f.id > e.id}) < n}

\* now.Add(-d).UnixMilli() is signed; the conversion to uint64 wraps.
Cutoff(d) == (now - d) % Width

\* Wrong: the status of the task is not looked at.
FaultyCompactable(r, d) ==
    /\ store.receipt[r] # NoReceipt
    /\ store.receipt[r].created < Cutoff(d)

\* A receipt older than the cutoff whose task is completed or gone.
Compactable(r, d) ==
    /\ store.receipt[r] # NoReceipt
    /\ store.receipt[r].created < Cutoff(d)
    /\ store.status[store.receipt[r].id] \in {"completed", "absent"}

CompactEvents(n) == Commit([store EXCEPT !.events = Newest(@, n)])

CompactReceipts(d) ==
    Commit([store EXCEPT !.receipt = [r \in RequestId |->
        IF Compactable(r, d) THEN NoReceipt ELSE store.receipt[r]]])

-----------------------------------------------------------------------------
(* backup and restore.                                                     *)

\* The backup file gets the store, under a lock of its own.
Backup(f) ==
    /\ backup' = [backup EXCEPT ![f] = store]
    /\ saved' = [saved EXCEPT ![f] = past]
    /\ UNCHANGED <<store, now, issued, granted, past, restores, readers>>

\* store.Load: a file that does not exist is a new store.
Load(f) == IF backup[f] = NoFile THEN NewTaskStore ELSE backup[f]

\* restoreBackup: *existing = *snapshot.
Restore(f) ==
    /\ restores < MaxRestores
    /\ store' = Load(f)
    /\ past' = saved[f]
    /\ restores' = restores + 1
    /\ UNCHANGED <<backup, saved, now, issued, granted, readers>>

-----------------------------------------------------------------------------
(* buildEventPage.                                                         *)

Newer(s, after) == {e \in s.events : e.id > after}

\* The first `limit` events after the cursor, by ID.
Page(s, after, limit) ==
    {e \in Newer(s, after) :
        Cardinality({f \in Newer(s, after) : f.id < e.id}) < limit}

\* The IDs after the cursor and before the first event left, or before the
\* next event to come if none is.
RetentionGap(s, after) ==
    {i \in (after + 1)..(s.nextEvent - 1) : \A e \in Newer(s, after) : i < e.id}

\* next_since: the last ID of the page, or the old cursor if it is empty.
NextSince(page, after) ==
    IF page = {} THEN {after}
    ELSE {i \in {e.id : e \in page} : \A e \in page : e.id <= i}

\* A consumer asks for a page.  One that is told of a gap resynchronises with
\* the status of the tasks and goes on from next_since.
Poll(c, limit) ==
    LET page == Page(store, cursor[c], limit)
        gap  == RetentionGap(store, cursor[c])
    IN  /\ \E next \in NextSince(page, cursor[c]) :
               cursor' = [cursor EXCEPT ![c] = next]
        /\ seen' = [seen EXCEPT ![c] = @ \cup page]
        /\ told' = [told EXCEPT ![c] = @ \cup {e \in past : e.id \in gap}]
        /\ UNCHANGED <<store, now, issued, granted, past, archive>>

-----------------------------------------------------------------------------

TaskStep ==
    \/ Add
    \/ \E t \in TaskId : Yield(t) \/ Complete(t) \/ Remove(t)
    \/ \E r \in RequestId, t \in TaskId : Acquire(r, t)
    \/ Prune

Compact == (\E n \in KeepCount : CompactEvents(n)) \/ (\E d \in Duration : CompactReceipts(d))

Archive == \E f \in BackupFile : Backup(f) \/ Restore(f)

Read(c) == \E limit \in Limit : Poll(c, limit)

Next == TaskStep \/ Compact \/ Archive \/ (\E c \in Consumer : Read(c)) \/ Tick

Spec == Init /\ [][Next]_vars

-----------------------------------------------------------------------------
(* Properties.                                                             *)

(***************************************************************************)
(* A consumer that follows next_since (buildEventPage) has been sent every *)
(* event that led to the present store, up to its cursor, or was told of   *)
(* it as a retention gap, however pages, compactions, backups and restores *)
(* interleave.  What it can miss is what a restore (restoreBackup) issues  *)
(* again: an event with the ID of one it had seen, or a lower one, where   *)
(* that one is no part of the present history any more.                    *)
(***************************************************************************)
Outdated(c, e) == \E f \in seen[c] \ past : f.id >= e.id

NothingMissed ==
    \A c \in Consumer : \A e \in past :
        e.id <= cursor[c] => e \in seen[c] \/ e \in told[c] \/ Outdated(c, e)

(***************************************************************************)
(* A retry of acquire finds its grant while the granted task is not        *)
(* finished: compactTaskStore, RemoveTask and a restore never separate the *)
(* receipt from the work, in whatever order they come.  Only a restore     *)
(* behind the grant, which takes both back, lets the retry allocate anew.  *)
(***************************************************************************)
RetriesFindTheirGrant ==
    \A g \in granted :
        g.event \in past /\ store.status[g.id] \in {"pending", "in_progress"} =>
            /\ store.receipt[g.request] # NoReceipt
            /\ store.receipt[g.request].id = g.id

=============================================================================
