-------------------------- MODULE RetentionProofs --------------------------
(***************************************************************************)
(* Proofs about Retention: a cursor consumer misses no event unawares, for *)
(* any number of consumers, page limits, compactions, backups and restores.*)
(***************************************************************************)
EXTENDS Retention, FiniteSetTheorems, TLAPS

-----------------------------------------------------------------------------
(* Operators.                                                              *)

(***************************************************************************)
(* There are finitely many events (buildEventPage sorts a finite slice).   *)
(***************************************************************************)
LEMMA EventsFinite == IsFiniteSet(Event)
<1>1. MaxEvents \in Nat /\ MaxRestores \in Nat
  BY RetentionAssumption
<1>2. IsFiniteSet(1..MaxEvents) /\ IsFiniteSet(0..MaxRestores)
  BY <1>1, FS_Interval
<1>3. IsFiniteSet((1..MaxEvents) \X (0..MaxRestores))
  BY <1>2, FS_Product
<1> DEFINE Pair == (1..MaxEvents) \X (0..MaxRestores)
           Make == [p \in Pair |-> [id |-> p[1], era |-> p[2]]]
<1>4. Make \in Surjection(Pair, Event)
  <2>1. Make \in [Pair -> Event]
    BY DEF Event
  <2>2. ASSUME NEW e \in Event PROVE \E p \in Pair : Make[p] = e
    <3>1. <<e.id, e.era>> \in Pair
      BY DEF Event
    <3>2. Make[<<e.id, e.era>>] = e
      BY <3>1 DEF Event
    <3> QED BY <3>1, <3>2
  <2> QED BY <2>1, <2>2 DEF Surjection
<1> QED BY <1>3, <1>4, FS_Surjection

(***************************************************************************)
(* compactTaskStore drops a prefix: an event at least as new as a kept one *)
(* is kept.                                                                *)
(***************************************************************************)
LEMMA NewestIsUpward ==
  ASSUME NEW E \in SUBSET Event, NEW n \in Nat,
         NEW e \in Newest(E, n), NEW f \in E, f.id >= e.id
  PROVE  f \in Newest(E, n)
<1> DEFINE After(x) == {g \in E : g.id > x.id}
<1>1. IsFiniteSet(After(e))
  BY EventsFinite, FS_Subset
<1>2. After(f) \subseteq After(e)
  BY DEF Event, Newest
<1>3. /\ Cardinality(After(f)) \in Nat
      /\ Cardinality(After(e)) \in Nat
      /\ Cardinality(After(f)) <= Cardinality(After(e))
  BY <1>1, <1>2, FS_Subset, FS_CardinalityType
<1>4. Cardinality(After(e)) < n
  BY DEF Newest
<1> HIDE DEF After
<1>5. Cardinality(After(f)) < n
  BY <1>3, <1>4
<1> QED BY <1>5 DEF Newest, After

(***************************************************************************)
(* A page of buildEventPage is a prefix of what is after the cursor.       *)
(***************************************************************************)
LEMMA PageIsDownward ==
  ASSUME NEW s, s.events \in SUBSET Event, NEW after \in Nat, NEW limit \in Nat,
         NEW e \in Page(s, after, limit), NEW f \in Newer(s, after), f.id <= e.id
  PROVE  f \in Page(s, after, limit)
<1> DEFINE Before(x) == {g \in Newer(s, after) : g.id < x.id}
<1>0. Newer(s, after) \subseteq Event /\ e \in Event /\ f \in Event
  BY DEF Newer, Page
<1>1. IsFiniteSet(Before(e))
  BY <1>0, EventsFinite, FS_Subset
<1>2. Before(f) \subseteq Before(e)
  BY <1>0 DEF Event
<1>3. /\ Cardinality(Before(f)) \in Nat
      /\ Cardinality(Before(e)) \in Nat
      /\ Cardinality(Before(f)) <= Cardinality(Before(e))
  BY <1>1, <1>2, FS_Subset, FS_CardinalityType
<1>4. Cardinality(Before(e)) < limit
  BY DEF Page
<1> HIDE DEF Before
<1>5. Cardinality(Before(f)) < limit
  BY <1>3, <1>4
<1> QED BY <1>5 DEF Page, Before
-----------------------------------------------------------------------------
(* The inductive invariant.                                                *)

\* What is left of the log is what came last, and the next event is new: s is
\* a store to which the events of L have led.
Sound(s, L) ==
    /\ s.events \subseteq L
    /\ \A e \in L : e.id < s.nextEvent
    /\ \A e \in s.events, f \in L : f.id >= e.id => f \in s.events

Stores == Sound(store, past) /\ \A f \in BackupFile : Sound(Load(f), saved[f])

\* The histories of the store and of the backups.
History == {past} \cup {saved[f] : f \in BackupFile}

\* Two histories that share an event share all that came before it.
Agree(L, M) == \A e \in L, f \in L \cap M : e.id <= f.id => e \in M

Branches == \A L, M \in History : Agree(L, M)

\* Every event was issued once, and since the last restore for this store.
Known ==
    /\ \A L \in History : L \subseteq issued
    /\ \A c \in Consumer : seen[c] \subseteq issued
    /\ \A e \in issued : e.era <= restores /\ (e.era = restores => e \in past)

\* A consumer has dealt with the events of L up to its cursor, or has seen
\* events of another history.
Dealt(c, L) ==
    \A e \in L : e.id <= cursor[c] =>
        e \in seen[c] \/ e \in told[c] \/ \E f \in seen[c] \ L : f.id >= e.id

\* A cursor is 0 or the ID of an event that was sent.
Placed == \A c \in Consumer : cursor[c] = 0 \/ \E f \in seen[c] : f.id = cursor[c]

Followed == Placed /\ \A c \in Consumer, L \in History : Dealt(c, L)

IInv == TypeOK /\ Stores /\ Branches /\ Known /\ Followed

(***************************************************************************)
(* A new store (NewTaskStore) has no event and no consumer is behind.      *)
(***************************************************************************)
LEMMA NewStoreSound == NewTaskStore \in Store /\ Sound(NewTaskStore, {})
<1>0. MaxTasks \in Nat /\ MaxEvents \in Nat
  BY RetentionAssumption
<1>1. NewTaskStore \in Store
  BY <1>0 DEF NewTaskStore, Store
<1>2. Sound(NewTaskStore, {})
  BY DEF NewTaskStore, Sound
<1> QED BY <1>1, <1>2

LEMMA InitIInv == Init => IInv
<1> SUFFICES ASSUME Init PROVE IInv
  OBVIOUS
<1>0. MaxEvents \in Nat /\ MaxRestores \in Nat /\ Start \in Nat /\ MaxTime \in Nat
  BY RetentionAssumption
<1>1. Start \in Start..MaxTime
  BY <1>0, ClockAssumption
<1>2. TypeOK
  BY <1>0, <1>1, NewStoreSound DEF Init, TypeOK
<1>3. Stores
  BY NewStoreSound DEF Init, Stores, Load
<1>4. \A L \in History : L = {}
  BY DEF Init, History
<1>5. Branches /\ Known /\ Followed
  BY <1>4 DEF Init, Branches, Agree, Known, Followed, Placed, Dealt
<1> QED BY <1>2, <1>3, <1>5 DEF IInv

(***************************************************************************)
(* The store a file holds (store.Load) is a store, whether it exists or    *)
(* not.                                                                    *)
(***************************************************************************)
LEMMA LoadedIsStore == ASSUME TypeOK, NEW f \in BackupFile PROVE Load(f) \in Store
  BY NewStoreSound DEF TypeOK, Load

(***************************************************************************)
(* A transaction keeps the invariant if what it leaves of the log is sound.*)
(***************************************************************************)
LEMMA CommitStep ==
  ASSUME IInv, NEW s \in Store, Commit(s), Sound(s, past)
  PROVE  IInv'
<1>1. /\ store' = s
      /\ UNCHANGED <<now, issued, granted, past, backup, saved, restores, cursor, seen, told>>
  BY DEF Commit, archive, readers
<1>2. TypeOK'
  BY <1>1 DEF IInv, TypeOK
<1>3. Stores'
  BY <1>1 DEF IInv, Stores, Sound, Load
<1>4. History' = History
  BY <1>1 DEF History
<1>5. Branches' /\ Known' /\ Followed'
  BY <1>1, <1>4 DEF IInv, Branches, Agree, Known, Followed, Placed, Dealt
<1> QED BY <1>2, <1>3, <1>5 DEF IInv

(***************************************************************************)
(* AddEvent numbers an event as no event was numbered since the last       *)
(* restore.                                                                *)
(***************************************************************************)
LEMMA FreshIsNew ==
  ASSUME IInv, NextEvent(store) <= MaxEvents
  PROVE  /\ Fresh \in Event /\ Fresh.id = store.nextEvent /\ Fresh \notin issued
         /\ store.nextEvent \in 1..MaxEvents /\ store.nextEvent + 1 \in 1..(MaxEvents + 1)
<1>0. /\ store \in Store /\ restores \in 0..MaxRestores /\ MaxEvents \in Nat
      /\ store.nextEvent \in 1..(MaxEvents + 1)
  BY RetentionAssumption DEF IInv, TypeOK, Store
<1>1. store.nextEvent \in 1..MaxEvents /\ store.nextEvent + 1 \in 1..(MaxEvents + 1)
  BY <1>0 DEF NextEvent
<1>2. Fresh \in Event /\ Fresh.id = store.nextEvent /\ Fresh.era = restores
  BY <1>0, <1>1 DEF Fresh, Event, NextEvent
<1>3. ASSUME Fresh \in issued PROVE FALSE
  <2>1. Fresh.id < store.nextEvent
    BY <1>2, <1>3 DEF IInv, Known, Stores, Sound
  <2> QED BY <1>1, <1>2, <2>1
<1> QED BY <1>1, <1>2, <1>3

(***************************************************************************)
(* AddEvent appends under the next ID.  A consumer whose cursor is beyond  *)
(* that ID has seen an event of a history that was given up.               *)
(***************************************************************************)
LEMMA LogStep ==
  ASSUME IInv, NEW s \in Store, Log(s), s.events = store.events, granted' \subseteq Grant
  PROVE  IInv'
<1> DEFINE n == store.nextEvent
<1>1. /\ Fresh \in Event /\ Fresh.id = n /\ Fresh \notin issued
      /\ n \in 1..MaxEvents /\ n + 1 \in 1..(MaxEvents + 1) /\ n \in Nat
  BY FreshIsNew DEF Log
<1>2. /\ store' = Logged(s) /\ issued' = issued \cup {Fresh} /\ past' = past \cup {Fresh}
      /\ UNCHANGED <<now, backup, saved, restores, cursor, seen, told>>
  BY DEF Log, archive, readers
<1>3. /\ store' \in Store /\ store'.events = store.events \cup {Fresh}
      /\ store'.nextEvent = n + 1
  <2>1. s.events \cup {Fresh} \in SUBSET Event
    BY <1>1 DEF Store
  <2> QED BY <1>1, <1>2, <2>1 DEF Logged, Store, NextEvent
<1>4. TypeOK'
  BY <1>1, <1>2, <1>3 DEF IInv, TypeOK
<1>5. /\ issued \subseteq Event /\ past \subseteq issued
      /\ \A f \in BackupFile : saved[f] \subseteq issued
  BY DEF IInv, TypeOK, Known, History
<1>6. \A e \in past : e.id \in Nat /\ e.id < n
  BY <1>5 DEF IInv, Stores, Sound, Event
<1>7. \A L \in History' : L = past' \/ \E f \in BackupFile : L = saved[f]
  BY <1>2 DEF History
<1> HIDE DEF n
<1>8. Stores'
  <2>1. Sound(store, past)'
    <3>1. store'.events \subseteq past'
      BY <1>2, <1>3 DEF IInv, Stores, Sound
    <3>2. \A e \in past' : e.id < store'.nextEvent
      BY <1>1, <1>2, <1>3, <1>6
    <3>3. ASSUME NEW e \in store'.events, NEW f \in past', f.id >= e.id
          PROVE  f \in store'.events
      <4>1. CASE f = Fresh
        BY <1>3, <4>1
      <4>2. CASE f # Fresh
        <5>1. f \in past /\ f.id < n /\ f.id \in Nat
          BY <1>2, <1>6, <4>2
        <5>2. e # Fresh
          BY <1>1, <3>3, <5>1
        <5>3. e \in store.events
          BY <1>3, <5>2
        <5> QED BY <1>3, <3>3, <5>1, <5>3 DEF IInv, Stores, Sound
      <4> QED BY <4>1, <4>2
    <3> QED BY <3>1, <3>2, <3>3 DEF Sound
  <2> QED BY <1>2, <2>1 DEF IInv, Stores, Sound, Load
<1>9. Branches'
  <2> SUFFICES ASSUME NEW L \in History', NEW M \in History', NEW e \in L,
                      NEW f \in L \cap M, e.id <= f.id
               PROVE  e \in M
    BY DEF Branches, Agree
  <2>1. CASE L = past' /\ M = past'
    BY <2>1
  <2>2. ASSUME L = past', NEW g \in BackupFile, M = saved[g] PROVE e \in M
    <3>1. f \in past /\ f # Fresh /\ f.id \in Nat /\ f.id < n
      BY <1>1, <1>2, <1>5, <1>6, <2>2
    <3>2. e # Fresh
      BY <1>1, <3>1
    <3>3. e \in past
      BY <1>2, <2>2, <3>2
    <3> QED BY <2>2, <3>1, <3>3 DEF IInv, Branches, Agree, History
  <2>3. ASSUME NEW g \in BackupFile, L = saved[g], M = past' PROVE e \in M
    <3>1. f \in past
      BY <1>1, <1>2, <1>5, <2>3
    <3>2. e \in past
      BY <2>3, <3>1 DEF IInv, Branches, Agree, History
    <3> QED BY <1>2, <2>3, <3>2
  <2>4. ASSUME NEW g \in BackupFile, NEW h \in BackupFile, L = saved[g], M = saved[h]
        PROVE  e \in M
    BY <2>4 DEF IInv, Branches, Agree, History
  <2> QED BY <1>7, <2>1, <2>2, <2>3, <2>4
<1>10. Known'
  <2>1. \A L \in History' : L \subseteq issued'
    BY <1>2, <1>5, <1>7
  <2>2. restores \in Nat /\ Fresh.era = restores
    BY RetentionAssumption DEF IInv, TypeOK, Fresh
  <2> QED BY <1>2, <2>1, <2>2 DEF IInv, Known
<1>11. Followed'
  <2>1. Placed'
    BY <1>2 DEF IInv, Followed, Placed
  <2>2. ASSUME NEW c \in Consumer, NEW f \in BackupFile PROVE Dealt(c, saved[f])'
    BY <1>2 DEF IInv, Followed, Dealt, History
  <2>3. ASSUME NEW c \in Consumer, NEW e \in past', e.id <= cursor[c]
        PROVE  e \in seen[c] \/ e \in told[c] \/ \E f \in seen[c] \ past' : f.id >= e.id
    <3>1. seen[c] \subseteq issued /\ Fresh \notin seen[c]
      BY <1>1 DEF IInv, Known
    <3>2. CASE e = Fresh
      <4>1. cursor[c] # 0
        BY <1>1, <2>3, <3>2
      <4>2. PICK f \in seen[c] : f.id = cursor[c]
        BY <4>1 DEF IInv, Followed, Placed
      <4>3. f # Fresh /\ f \notin past
        <5>1. cursor[c] >= n /\ cursor[c] \in Nat
          BY <1>1, <2>3, <3>2 DEF IInv, TypeOK
        <5> QED BY <1>1, <1>6, <3>1, <4>2, <5>1
      <4> QED BY <1>2, <2>3, <4>2, <4>3
    <3>3. CASE e # Fresh
      <4>1. e \in past
        BY <1>2, <3>3
      <4>2. e \in seen[c] \/ e \in told[c] \/ \E f \in seen[c] \ past : f.id >= e.id
        BY <2>3, <4>1 DEF IInv, Followed, Dealt, History
      <4> QED BY <1>2, <3>1, <4>2
    <3> QED BY <3>2, <3>3
  <2>4. ASSUME NEW c \in Consumer PROVE Dealt(c, past)'
    BY <1>2, <2>3 DEF Dealt
  <2>5. ASSUME NEW c \in Consumer, NEW L \in History' PROVE Dealt(c, L)'
    BY <1>2, <1>7, <2>2, <2>4 DEF Dealt
  <2> QED BY <2>1, <2>5 DEF Followed
<1> QED BY <1>4, <1>8, <1>9, <1>10, <1>11 DEF IInv

(***************************************************************************)
(* RemoveTask leaves the log alone.                                        *)
(***************************************************************************)
LEMMA WithoutKeepsLog ==
  ASSUME NEW s \in Store, NEW R
  PROVE  /\ Without(s, R) \in Store
         /\ Without(s, R).events = s.events
         /\ Without(s, R).nextEvent = s.nextEvent
<1>1. [t \in TaskId |-> IF t \in R THEN "absent" ELSE s.status[t]]
        \in [TaskId -> {"absent", "pending", "in_progress", "completed"}]
  BY DEF Store
<1>2. [r \in RequestId |-> IF s.receipt[r] # NoReceipt /\ s.receipt[r].id \in R
                           THEN NoReceipt ELSE s.receipt[r]]
        \in [RequestId -> Receipt \cup {NoReceipt}]
  BY DEF Store
<1> QED BY <1>1, <1>2 DEF Without, Store

(***************************************************************************)
(* Every task operation keeps the invariant.                               *)
(***************************************************************************)
LEMMA TaskSteps == ASSUME IInv, TaskStep PROVE IInv'
<1>0. /\ store \in Store /\ MaxTasks \in Nat /\ now \in Nat /\ granted \subseteq Grant
  BY RetentionAssumption DEF IInv, TypeOK
<1>1. ASSUME NEW t \in TaskId,
             NEW status \in {"absent", "pending", "in_progress", "completed"}
      PROVE  /\ SetStatus(t, status) \in Store
             /\ SetStatus(t, status).events = store.events
             /\ SetStatus(t, status).nextID = store.nextID
  BY <1>0 DEF SetStatus, Store
<1>2. CASE Add
  <2> DEFINE n == store.nextID
             s == [SetStatus(n, "pending") EXCEPT !.nextID = @ + 1]
  <2>1. n \in TaskId /\ n + 1 \in 1..(MaxTasks + 1)
    BY <1>0, <1>2 DEF Add, TaskId, Store
  <2>2. /\ SetStatus(n, "pending") \in Store
        /\ SetStatus(n, "pending").events = store.events
        /\ SetStatus(n, "pending").nextID = n
    BY <1>1, <2>1
  <2>3. s \in Store /\ s.events = store.events
    BY <2>1, <2>2 DEF Store
  <2>4. Log(s) /\ granted' \subseteq Grant
    BY <1>0, <1>2 DEF Add
  <2> QED BY <2>3, <2>4, LogStep
<1>3. ASSUME NEW t \in TaskId, Yield(t) PROVE IInv'
  BY <1>0, <1>1, <1>3, LogStep DEF Yield
<1>4. ASSUME NEW t \in TaskId, Complete(t) PROVE IInv'
  BY <1>0, <1>1, <1>4, LogStep DEF Complete
<1>5. ASSUME NEW t \in TaskId, Remove(t) PROVE IInv'
  BY <1>0, <1>5, WithoutKeepsLog, LogStep DEF Remove
<1>6. ASSUME NEW r \in RequestId, NEW t \in TaskId, Acquire(r, t) PROVE IInv'
  <2> DEFINE m == SetStatus(t, "in_progress")
             s == [m EXCEPT !.receipt[r] = [id |-> t, created |-> now]]
  <2>1. m \in Store /\ m.events = store.events
    BY <1>1
  <2>2. [id |-> t, created |-> now] \in Receipt
    BY <1>0 DEF Receipt
  <2>3. Log(s)
    BY <1>6 DEF Acquire
  <2> HIDE DEF m
  <2>4. s \in Store /\ s.events = store.events
    BY <2>1, <2>2 DEF Store
  <2>5. Fresh \in Event
    BY <2>3, FreshIsNew DEF Log
  <2>6. granted' \subseteq Grant
    BY <1>0, <1>6, <2>5 DEF Acquire, Grant
  <2> QED BY <2>3, <2>4, <2>6, LogStep
<1>7. CASE Prune
  <2> DEFINE s == Without(store, {t \in TaskId : store.status[t] = "completed"})
  <2>1. s \in Store /\ s.events = store.events /\ s.nextEvent = store.nextEvent
    BY <1>0, WithoutKeepsLog
  <2> HIDE DEF s
  <2>2. Sound(s, past)
    BY <2>1 DEF IInv, Stores, Sound
  <2> QED BY <1>7, <2>1, <2>2, CommitStep DEF Prune, s
<1> QED BY <1>2, <1>3, <1>4, <1>5, <1>6, <1>7 DEF TaskStep

(***************************************************************************)
(* compactTaskStore keeps the invariant.                                   *)
(***************************************************************************)
LEMMA CompactSteps == ASSUME IInv, Compact PROVE IInv'
<1>0. store \in Store /\ KeepCount \subseteq Nat
  BY RetentionAssumption DEF IInv, TypeOK
<1>1. ASSUME NEW d \in Duration, CompactReceipts(d) PROVE IInv'
  <2> DEFINE s == [store EXCEPT !.receipt = [r \in RequestId |->
                     IF Compactable(r, d) THEN NoReceipt ELSE store.receipt[r]]]
  <2>1. s \in Store /\ s.events = store.events /\ s.nextEvent = store.nextEvent
    BY <1>0 DEF Store
  <2>2. Commit(s)
    BY <1>1 DEF CompactReceipts
  <2> HIDE DEF s
  <2>3. Sound(s, past)
    BY <2>1 DEF IInv, Stores, Sound
  <2> QED BY <2>1, <2>2, <2>3, CommitStep
<1>2. ASSUME NEW n \in KeepCount, CompactEvents(n) PROVE IInv'
  <2> DEFINE E == store.events
             s == [store EXCEPT !.events = Newest(@, n)]
  <2>1. E \subseteq Event /\ n \in Nat /\ Newest(E, n) \subseteq E
    BY <1>0 DEF Store, Newest
  <2>2. s \in Store /\ s.events = Newest(E, n) /\ s.nextEvent = store.nextEvent
    BY <1>0, <2>1 DEF Store
  <2>3. Commit(s)
    BY <1>2 DEF CompactEvents
  <2> HIDE DEF s
  <2>4. Sound(s, past)
    <3>1. ASSUME NEW e \in Newest(E, n), NEW f \in past, f.id >= e.id
          PROVE  f \in Newest(E, n)
      <4>1. f \in E
        BY <2>1, <3>1 DEF IInv, Stores, Sound
      <4> QED BY <2>1, <3>1, <4>1, NewestIsUpward
    <3> QED BY <2>1, <2>2, <3>1 DEF IInv, Stores, Sound
  <2> QED BY <2>2, <2>3, <2>4, CommitStep
<1> QED BY <1>1, <1>2 DEF Compact

(***************************************************************************)
(* A backup adds no history, and a restore goes back to one there is.      *)
(***************************************************************************)
LEMMA ArchiveSteps == ASSUME IInv, Archive PROVE IInv'
<1>1. ASSUME NEW f \in BackupFile, Backup(f) PROVE IInv'
  <2>1. /\ backup' = [backup EXCEPT ![f] = store]
        /\ saved' = [saved EXCEPT ![f] = past]
        /\ UNCHANGED <<store, now, issued, granted, past, restores, cursor, seen, told>>
    BY <1>1 DEF Backup, readers
  <2>2. \A g \in BackupFile : /\ backup'[g] = IF g = f THEN store ELSE backup[g]
                              /\ saved'[g] = IF g = f THEN past ELSE saved[g]
    BY <2>1 DEF IInv, TypeOK
  <2>3. TypeOK'
    BY <2>1 DEF IInv, TypeOK
  <2>4. Load(f)' = store \/ (Load(f)' = NewTaskStore /\ store = NoFile)
    BY <2>2 DEF Load
  <2>5. Stores'
    <3>1. ASSUME NEW g \in BackupFile PROVE Sound(Load(g), saved[g])'
      <4>1. CASE g # f
        BY <2>1, <2>2, <4>1 DEF IInv, Stores, Sound, Load
      <4>2. CASE g = f /\ store # NoFile
        BY <2>1, <2>2, <4>2 DEF IInv, Stores, Sound, Load
      <4>3. CASE g = f /\ store = NoFile
        BY <4>3, NoFileAssumption DEF IInv, TypeOK
      <4> QED BY <4>1, <4>2, <4>3
    <3> QED BY <2>1, <3>1 DEF IInv, Stores, Sound
  <2>6. History' \subseteq History
    BY <2>1, <2>2 DEF History
  <2> QED BY <2>1, <2>3, <2>5, <2>6
          DEF IInv, Branches, Agree, Known, Followed, Placed, Dealt
<1>2. ASSUME NEW f \in BackupFile, Restore(f) PROVE IInv'
  <2>1. /\ store' = Load(f) /\ past' = saved[f] /\ restores' = restores + 1
        /\ UNCHANGED <<backup, saved, now, issued, granted, cursor, seen, told>>
    BY <1>2 DEF Restore, readers
  <2>2. restores \in Nat /\ restores' \in 0..MaxRestores
    BY <1>2, RetentionAssumption DEF Restore, IInv, TypeOK
  <2>3. TypeOK'
    BY <2>1, <2>2, LoadedIsStore DEF IInv, TypeOK
  <2>4. Stores'
    BY <2>1 DEF IInv, Stores, Sound, Load
  <2>5. History' \subseteq History
    BY <2>1 DEF History
  <2>6. \A e \in issued : e.era <= restores /\ e.era \in Nat
    BY RetentionAssumption DEF IInv, TypeOK, Known, Event
  <2>7. \A e \in issued' : e.era <= restores' /\ e.era # restores'
    BY <2>1, <2>2, <2>6
  <2>8. Known'
    BY <2>1, <2>5, <2>7 DEF IInv, Known
  <2> QED BY <2>1, <2>3, <2>4, <2>5, <2>8
          DEF IInv, Branches, Agree, Followed, Placed, Dealt
<1> QED BY <1>1, <1>2 DEF Archive

(***************************************************************************)
(* A page (buildEventPage) moves a cursor only over events that it sends   *)
(* or reports.  Of another history they are the same as far as that goes,  *)
(* or the last event of the page is not in it.                             *)
(***************************************************************************)
LEMMA PollStep ==
  ASSUME IInv, NEW c \in Consumer, NEW limit \in Limit, Poll(c, limit)
  PROVE  IInv'
<1> DEFINE after == cursor[c]
           page == Page(store, after, limit)
           gap == RetentionGap(store, after)
           lost == {e \in past : e.id \in gap}
<1>0. /\ store \in Store /\ after \in 0..MaxEvents /\ after \in Nat
      /\ MaxEvents \in Nat /\ limit \in Nat /\ past \subseteq Event
  BY RetentionAssumption DEF IInv, TypeOK
<1>1. PICK next \in NextSince(page, after) : cursor' = [cursor EXCEPT ![c] = next]
  BY DEF Poll
<1>2. /\ seen' = [seen EXCEPT ![c] = @ \cup page]
      /\ told' = [told EXCEPT ![c] = @ \cup lost]
      /\ UNCHANGED <<store, now, issued, granted, past, backup, saved, restores>>
  BY DEF Poll, archive
<1>3. /\ store.events \subseteq Event /\ page \subseteq store.events
      /\ page \subseteq past /\ past \subseteq issued
      /\ Newer(store, after) \subseteq store.events
      /\ store.nextEvent \in 1..(MaxEvents + 1)
  BY <1>0 DEF Store, Page, Newer, IInv, Stores, Sound, Known, History
<1>4. /\ next \in 0..MaxEvents
      /\ next = after \/ \E e \in page : e.id = next /\ \A f \in page : f.id <= next
  BY <1>0, <1>1, <1>3 DEF NextSince, Event
<1>5. TypeOK'
  BY <1>0, <1>1, <1>2, <1>3, <1>4 DEF IInv, TypeOK
<1>6. /\ \A d \in Consumer : cursor'[d] = IF d = c THEN next ELSE cursor[d]
      /\ \A d \in Consumer : seen'[d] = IF d = c THEN seen[d] \cup page ELSE seen[d]
      /\ \A d \in Consumer : told'[d] = IF d = c THEN told[d] \cup lost ELSE told[d]
  BY <1>1, <1>2 DEF IInv, TypeOK
<1>7. ASSUME NEW e \in past, ~(e.id <= after), e.id <= next
      PROVE  e \in page \/ e \in lost
  <2>1. /\ e \in Event /\ e.id \in Nat /\ e.id > after /\ e.id < store.nextEvent
        /\ e.id \in (after + 1)..(store.nextEvent - 1)
    BY <1>0, <1>3, <1>7 DEF IInv, Stores, Sound, Store, Event
  <2>2. PICK m \in page : m.id = next /\ \A f \in page : f.id <= next
    BY <1>4, <1>7
  <2>3. CASE \A f \in Newer(store, after) : e.id < f.id
    BY <2>1, <2>3 DEF RetentionGap
  <2>4. CASE ~(\A f \in Newer(store, after) : e.id < f.id)
    <3>1. PICK f \in Newer(store, after) : ~(e.id < f.id)
      BY <2>4
    <3>2. f \in store.events /\ f.id \in Nat /\ e.id >= f.id
      BY <1>3, <2>1, <3>1 DEF Event
    <3>3. e \in store.events
      BY <3>2 DEF IInv, Stores, Sound
    <3>4. e \in Newer(store, after)
      BY <2>1, <3>3 DEF Newer
    <3> QED BY <1>0, <1>3, <1>7, <2>2, <3>4, PageIsDownward
  <2> QED BY <2>3, <2>4
<1> HIDE DEF page, lost, gap
<1>8. Stores' /\ History' = History
  BY <1>2 DEF IInv, Stores, Sound, Load, History
<1>9. Known'
  BY <1>2, <1>3, <1>6, <1>8 DEF IInv, Known
<1>10. Placed'
  BY <1>4, <1>6 DEF IInv, Followed, Placed
<1>11. ASSUME NEW d \in Consumer, NEW L \in History PROVE Dealt(d, L)'
  <2> SUFFICES ASSUME NEW e \in L, e.id <= cursor'[d]
               PROVE  e \in seen'[d] \/ e \in told'[d] \/ \E f \in seen'[d] \ L : f.id >= e.id
    BY DEF Dealt
  <2>1. CASE d # c \/ e.id <= after
    <3>1. e \in seen[d] \/ e \in told[d] \/ \E f \in seen[d] \ L : f.id >= e.id
      BY <1>6, <2>1 DEF IInv, Followed, Dealt
    <3> QED BY <1>6, <3>1
  <2>2. CASE d = c /\ ~(e.id <= after)
    <3>1. e.id <= next /\ next # after
      BY <1>6, <2>2
    <3>2. PICK m \in page : m.id = next
      BY <1>4, <3>1
    <3>3. m \in seen'[c] /\ m.id >= e.id
      <4>1. e \in Event /\ e.id \in Nat /\ next \in Nat
        BY <1>4 DEF IInv, Known, TypeOK, Event
      <4> QED BY <1>6, <3>1, <3>2, <4>1
    <3>4. CASE m \in L
      <4>1. m \in L \cap past /\ e.id <= m.id
        BY <1>3, <3>1, <3>2, <3>4
      <4>2. e \in past
        BY <4>1 DEF IInv, Branches, Agree, History
      <4> QED BY <1>6, <1>7, <2>2, <3>1, <4>2
    <3> QED BY <2>2, <3>3, <3>4
  <2> QED BY <2>1, <2>2
<1> QED BY <1>5, <1>8, <1>9, <1>10, <1>11 DEF IInv, Branches, Agree, Followed

-----------------------------------------------------------------------------
(* Theorems.                                                               *)

(***************************************************************************)
(* Every step keeps the invariant.                                         *)
(***************************************************************************)
LEMMA StepIInv == IInv /\ [Next]_vars => IInv'
<1> SUFFICES ASSUME IInv, [Next]_vars PROVE IInv'
  OBVIOUS
<1>1. CASE TaskStep
  BY <1>1, TaskSteps
<1>2. CASE Compact
  BY <1>2, CompactSteps
<1>3. CASE Archive
  BY <1>3, ArchiveSteps
<1>4. ASSUME NEW c \in Consumer, Read(c) PROVE IInv'
  BY <1>4, PollStep DEF Read
<1>5. ASSUME UNCHANGED <<store, issued, granted, past, archive, readers>>,
             now' \in Start..MaxTime
      PROVE  IInv'
  <2>1. UNCHANGED <<store, issued, granted, past, backup, saved, restores, cursor, seen, told>>
    BY <1>5 DEF archive, readers
  <2>2. TypeOK' /\ Stores' /\ History' = History
    BY <1>5, <2>1 DEF IInv, TypeOK, Stores, Sound, Load, History
  <2> QED BY <2>1, <2>2 DEF IInv, Branches, Agree, Known, Followed, Placed, Dealt
<1>6. CASE Tick
  <2>1. now' \in Start..MaxTime
    BY <1>6, RetentionAssumption DEF Tick, IInv, TypeOK
  <2> QED BY <1>5, <1>6, <2>1 DEF Tick
<1>7. CASE UNCHANGED vars
  BY <1>5, <1>7 DEF vars, IInv, TypeOK
<1> QED BY <1>1, <1>2, <1>3, <1>4, <1>6, <1>7 DEF Next

(***************************************************************************)
(* The value of a store (TaskStore) has its type whatever is called.       *)
(***************************************************************************)
THEOREM RetentionTypeCorrect == Spec => []TypeOK
<1>1. IInv => TypeOK
  BY DEF IInv
<1> QED BY <1>1, InitIInv, StepIInv, PTL DEF Spec

(***************************************************************************)
(* buildEventPage against AddEvent, compactTaskStore and restoreBackup: a  *)
(* consumer misses an event unawares only where a restore has issued the   *)
(* ID again of one that the consumer had seen.                             *)
(***************************************************************************)
THEOREM ConsumersMissNothing == Spec => []NothingMissed
<1>1. IInv => NothingMissed
  BY DEF IInv, Followed, Dealt, History, NothingMissed, Outdated
<1> QED BY <1>1, InitIInv, StepIInv, PTL DEF Spec

-----------------------------------------------------------------------------
(* Receipts of active work.                                                *)

Active == {"pending", "in_progress"}

\* No ID from NextID up is in use or was granted, and active work that was
\* granted in the history L of s has its receipt.
Backed(s, L, G) ==
    /\ \A t \in TaskId : s.status[t] # "absent" => t < s.nextID
    /\ \A g \in G : g.event \in L =>
           /\ g.id < s.nextID
           /\ s.status[g.id] \in Active =>
                s.receipt[g.request] # NoReceipt /\ s.receipt[g.request].id = g.id

GInv ==
    /\ \A g \in granted : g.event \in issued
    /\ Backed(store, past, granted)
    /\ \A f \in BackupFile : Backed(Load(f), saved[f], granted)

(***************************************************************************)
(* A transaction that logs an event backs the grants if its store does:    *)
(* the new event is nobody's grant.                                        *)
(***************************************************************************)
LEMMA LogBacks ==
  ASSUME IInv, GInv, NEW s \in Store, Log(s), Backed(s, past, granted), UNCHANGED granted
  PROVE  GInv'
<1>1. /\ store' = Logged(s) /\ issued' = issued \cup {Fresh} /\ past' = past \cup {Fresh}
      /\ UNCHANGED <<backup, saved>>
  BY DEF Log, archive
<1>2. /\ Logged(s).status = s.status /\ Logged(s).nextID = s.nextID
      /\ Logged(s).receipt = s.receipt
  BY DEF Logged, Store
<1>3. \A g \in granted : g.event # Fresh
  BY FreshIsNew DEF Log, GInv
<1>4. Backed(store', past', granted')
  BY <1>1, <1>2, <1>3 DEF Backed
<1> QED BY <1>1, <1>4 DEF GInv, Backed, Load

(***************************************************************************)
(* So does one that logs none.                                             *)
(***************************************************************************)
LEMMA CommitBacks ==
  ASSUME GInv, NEW s, Commit(s), Backed(s, past, granted) PROVE GInv'
<1>1. store' = s /\ UNCHANGED <<issued, granted, past, backup, saved>>
  BY DEF Commit, archive
<1> QED BY <1>1 DEF GInv, Backed, Load

(***************************************************************************)
(* RemoveTask takes only the receipts of the tasks that it removes.        *)
(***************************************************************************)
LEMMA WithoutBacks ==
  ASSUME TypeOK, NEW s \in Store, Backed(s, past, granted), NEW R
  PROVE  Backed(Without(s, R), past, granted)
<1>1. /\ \A t \in TaskId : Without(s, R).status[t] = IF t \in R THEN "absent" ELSE s.status[t]
      /\ \A r \in RequestId : Without(s, R).receipt[r] =
            IF s.receipt[r] # NoReceipt /\ s.receipt[r].id \in R THEN NoReceipt ELSE s.receipt[r]
      /\ Without(s, R).nextID = s.nextID
  BY DEF Without, Store
<1>2. \A g \in granted : g.id \in TaskId /\ g.request \in RequestId
  BY DEF TypeOK, Grant
<1>3. ASSUME NEW g \in granted, g.event \in past, Without(s, R).status[g.id] \in Active
      PROVE  /\ Without(s, R).receipt[g.request] # NoReceipt
             /\ Without(s, R).receipt[g.request].id = g.id
  <2>1. g.id \notin R /\ s.status[g.id] \in Active
    BY <1>1, <1>2, <1>3 DEF Active
  <2>2. s.receipt[g.request] # NoReceipt /\ s.receipt[g.request].id = g.id
    BY <1>3, <2>1 DEF Backed
  <2> QED BY <1>1, <1>2, <2>1, <2>2
<1> QED BY <1>1, <1>3 DEF Backed

(***************************************************************************)
(* A change of status that starts from a present task backs the grants if  *)
(* the task was active before or is not afterwards.                        *)
(***************************************************************************)
LEMMA SetStatusBacks ==
  ASSUME TypeOK, Backed(store, past, granted), NEW t \in TaskId,
         store.status[t] # "absent",
         NEW status \in {"pending", "in_progress", "completed"},
         store.status[t] \in Active \/ status = "completed"
  PROVE  Backed(SetStatus(t, status), past, granted) /\ SetStatus(t, status) \in Store
<1>0. store \in Store /\ \A g \in granted : g.id \in TaskId
  BY DEF TypeOK, Grant
<1>1. /\ \A u \in TaskId : SetStatus(t, status).status[u] = IF u = t THEN status ELSE store.status[u]
      /\ SetStatus(t, status).receipt = store.receipt
      /\ SetStatus(t, status).nextID = store.nextID
      /\ SetStatus(t, status) \in Store
  BY <1>0 DEF SetStatus, Store
<1>2. ASSUME NEW g \in granted, SetStatus(t, status).status[g.id] \in Active
      PROVE  store.status[g.id] \in Active
  BY <1>0, <1>1, <1>2 DEF Active
<1> QED BY <1>1, <1>2 DEF Backed

(***************************************************************************)
(* Every step backs the grants.                                            *)
(***************************************************************************)
LEMMA StepGInv == IInv /\ GInv /\ [Next]_vars => GInv'
<1> SUFFICES ASSUME IInv, GInv, [Next]_vars PROVE GInv'
  OBVIOUS
<1>0. /\ TypeOK /\ store \in Store /\ Backed(store, past, granted)
      /\ MaxTasks \in Nat /\ now \in Nat
      /\ \A g \in granted : g.id \in TaskId /\ g.request \in RequestId
  BY RetentionAssumption DEF IInv, TypeOK, GInv, Grant
<1>1. CASE Add
  <2> DEFINE n == store.nextID
             m == SetStatus(n, "pending")
             s == [m EXCEPT !.nextID = @ + 1]
  <2>1. n \in TaskId /\ n + 1 \in 1..(MaxTasks + 1) /\ n \in Nat
    BY <1>0, <1>1 DEF Add, TaskId, Store
  <2>2. /\ m \in Store /\ m.nextID = n /\ m.receipt = store.receipt
        /\ \A u \in TaskId : m.status[u] = IF u = n THEN "pending" ELSE store.status[u]
    BY <1>0, <2>1 DEF SetStatus, Store
  <2> HIDE DEF m
  <2>3. s \in Store /\ s.nextID = n + 1 /\ s.receipt = store.receipt /\ s.status = m.status
    BY <2>1, <2>2 DEF Store
  <2> HIDE DEF s
  <2>4. \A u \in TaskId : s.status[u] # "absent" => u < s.nextID
    BY <1>0, <2>1, <2>2, <2>3 DEF Backed, TaskId
  <2>5. ASSUME NEW g \in granted, g.event \in past
        PROVE  g.id < n + 1 /\ s.status[g.id] = store.status[g.id]
    <3>1. g.id \in TaskId /\ g.id < n
      BY <1>0, <2>5 DEF Backed
    <3> QED BY <2>1, <2>2, <2>3, <3>1 DEF TaskId
  <2>6. Backed(s, past, granted)
    BY <1>0, <2>3, <2>4, <2>5 DEF Backed
  <2>7. Log(s) /\ UNCHANGED granted
    BY <1>1 DEF Add, s, m
  <2> QED BY <2>3, <2>6, <2>7, LogBacks
<1>2. ASSUME NEW t \in TaskId, Yield(t) PROVE GInv'
  BY <1>0, <1>2, SetStatusBacks, LogBacks DEF Yield, Active
<1>3. ASSUME NEW t \in TaskId, Complete(t) PROVE GInv'
  BY <1>0, <1>3, SetStatusBacks, LogBacks DEF Complete, Active
<1>4. ASSUME NEW t \in TaskId, Remove(t) PROVE GInv'
  BY <1>0, <1>4, WithoutBacks, WithoutKeepsLog, LogBacks DEF Remove
<1>5. ASSUME NEW r \in RequestId, NEW t \in TaskId, Acquire(r, t) PROVE GInv'
  <2> DEFINE m == SetStatus(t, "in_progress")
             s == [m EXCEPT !.receipt[r] = [id |-> t, created |-> now]]
             g0 == [request |-> r, id |-> t, event |-> Fresh]
  <2>1. m \in Store /\ Backed(m, past, granted) /\ m.status[t] = "in_progress"
    <3>1. m \in Store /\ Backed(m, past, granted)
      BY <1>0, <1>5, SetStatusBacks DEF Acquire, Active
    <3>2. m.status[t] = "in_progress"
      BY <1>0 DEF SetStatus, Store
    <3> QED BY <3>1, <3>2
  <2>2. [id |-> t, created |-> now] \in Receipt /\ [id |-> t, created |-> now] # NoReceipt
    <3> DEFINE receipt == [id |-> t, created |-> now]
    <3>1. t \in Nat
      BY <1>0 DEF TaskId
    <3>2. receipt \in Receipt /\ receipt \in [id : Nat, created : Nat]
      BY <1>0, <3>1 DEF Receipt
    <3> HIDE DEF receipt
    <3>3. receipt # NoReceipt
      BY <3>2, NoReceiptAssumption
    <3> QED BY <3>2, <3>3 DEF receipt
  <2>6. m.receipt = store.receipt /\ m.receipt[r] = NoReceipt
    BY <1>0, <1>5 DEF Acquire, SetStatus, Store
  <2> HIDE DEF m
  <2>3. /\ s \in Store /\ s.status = m.status /\ s.nextID = m.nextID
        /\ \A q \in RequestId \ {r} : s.receipt[q] = m.receipt[q]
        /\ s.receipt[r] = [id |-> t, created |-> now]
    BY <2>1, <2>2 DEF Store
  <2>7. Log(s) /\ granted' = granted \cup {g0}
    BY <1>5 DEF Acquire, m
  <2> HIDE DEF s
  <2>4. s.receipt[r] # NoReceipt /\ s.receipt[r].id = t
    BY <2>2, <2>3
  <2>5. t < m.nextID
    BY <2>1 DEF Backed
  <2>8. /\ store' = Logged(s) /\ issued' = issued \cup {Fresh} /\ past' = past \cup {Fresh}
        /\ UNCHANGED <<backup, saved>> /\ Fresh \notin issued
    BY <2>7, FreshIsNew DEF Log, archive
  <2>9. /\ store'.status = s.status /\ store'.nextID = s.nextID
        /\ store'.receipt = s.receipt
    BY <2>3, <2>8 DEF Logged, Store
  <2>10. ASSUME NEW g \in granted', g.event \in past'
         PROVE  /\ g.id < s.nextID
                /\ s.status[g.id] \in Active =>
                     s.receipt[g.request] # NoReceipt /\ s.receipt[g.request].id = g.id
    <3>1. CASE g = g0
      BY <2>3, <2>4, <2>5, <3>1
    <3>2. CASE g # g0
      <4>1. g \in granted /\ g.event \in past
        BY <2>7, <2>8, <2>10, <3>2 DEF GInv
      <4>2. /\ g.id < m.nextID
            /\ m.status[g.id] \in Active =>
                 m.receipt[g.request] # NoReceipt /\ m.receipt[g.request].id = g.id
        BY <2>1, <4>1 DEF Backed
      <4> QED BY <1>0, <2>6, <2>3, <4>1, <4>2
    <3> QED BY <3>1, <3>2
  <2>11. Backed(store', past', granted')
    BY <2>1, <2>3, <2>9, <2>10 DEF Backed
  <2>12. \A g \in granted' : g.event \in issued'
    BY <2>7, <2>8 DEF GInv
  <2>13. ASSUME NEW f \in BackupFile PROVE Backed(Load(f), saved[f], granted')
    <3>1. saved[f] \subseteq issued
      BY DEF IInv, Known, History
    <3>2. \A g \in granted' : g.event \in saved[f] => g \in granted
      BY <2>7, <2>8, <3>1
    <3> QED BY <3>2 DEF GInv, Backed
  <2> QED BY <2>8, <2>11, <2>12, <2>13 DEF GInv, Load
<1>6. CASE Prune
  BY <1>0, <1>6, WithoutBacks, CommitBacks DEF Prune
<1>7. ASSUME NEW n \in KeepCount, CompactEvents(n) PROVE GInv'
  <2> DEFINE s == [store EXCEPT !.events = Newest(@, n)]
  <2>1. /\ s.status = store.status /\ s.nextID = store.nextID /\ s.receipt = store.receipt
        /\ Commit(s)
    BY <1>0, <1>7 DEF CompactEvents, Store
  <2> HIDE DEF s
  <2>2. Backed(s, past, granted)
    BY <1>0, <2>1 DEF Backed
  <2> QED BY <2>1, <2>2, CommitBacks
<1>8. ASSUME NEW d \in Duration, CompactReceipts(d) PROVE GInv'
  <2> DEFINE s == [store EXCEPT !.receipt = [r \in RequestId |->
                     IF Compactable(r, d) THEN NoReceipt ELSE store.receipt[r]]]
  <2>1. /\ s.status = store.status /\ s.nextID = store.nextID /\ Commit(s)
        /\ \A r \in RequestId : s.receipt[r] =
              IF Compactable(r, d) THEN NoReceipt ELSE store.receipt[r]
    BY <1>0, <1>8 DEF CompactReceipts, Store
  <2> HIDE DEF s
  <2>2. ASSUME NEW g \in granted, g.event \in past, store.status[g.id] \in Active
        PROVE  s.receipt[g.request] = store.receipt[g.request]
    <3>1. store.receipt[g.request].id = g.id
      BY <1>0, <2>2 DEF Backed
    <3>2. ~Compactable(g.request, d)
      BY <2>2, <3>1 DEF Compactable, Active
    <3> QED BY <1>0, <2>1, <3>2
  <2>3. Backed(s, past, granted)
    BY <1>0, <2>1, <2>2 DEF Backed
  <2> QED BY <2>1, <2>3, CommitBacks
<1>9. ASSUME NEW f \in BackupFile, Backup(f) PROVE GInv'
  <2>1. /\ UNCHANGED <<store, past, granted, issued>> /\ store # NoFile
        /\ \A g \in BackupFile : /\ backup'[g] = IF g = f THEN store ELSE backup[g]
                                 /\ saved'[g] = IF g = f THEN past ELSE saved[g]
    BY <1>0, <1>9, NoFileAssumption DEF Backup, TypeOK
  <2> QED BY <2>1 DEF GInv, Backed, Load
<1>10. ASSUME NEW f \in BackupFile, Restore(f) PROVE GInv'
  BY <1>10 DEF Restore, GInv, Backed, Load
<1>11. ASSUME NEW c \in Consumer, Read(c) PROVE GInv'
  BY <1>11 DEF Read, Poll, GInv, Backed, Load, archive
<1>12. CASE Tick
  BY <1>12 DEF Tick, GInv, Backed, Load, archive
<1>13. CASE UNCHANGED vars
  BY <1>13 DEF vars, GInv, Backed, Load, archive
<1> QED BY <1>1, <1>2, <1>3, <1>4, <1>5, <1>6, <1>7, <1>8, <1>9, <1>10, <1>11,
           <1>12, <1>13 DEF Next, TaskStep, Compact, Archive

(***************************************************************************)
(* compactTaskStore, RemoveTask and restoreBackup never take the receipt   *)
(* of active work and leave the work: a retry under its request ID finds   *)
(* the grant, unless a restore went back behind it.                        *)
(***************************************************************************)
THEOREM GrantsStayFound == Spec => []RetriesFindTheirGrant
<1>1. Init => GInv
  BY DEF Init, GInv, Backed, NewTaskStore, Load
<1>2. GInv => RetriesFindTheirGrant
  BY DEF GInv, Backed, Active, RetriesFindTheirGrant
<1> QED BY <1>1, <1>2, InitIInv, StepIInv, StepGInv, PTL DEF Spec
=============================================================================
