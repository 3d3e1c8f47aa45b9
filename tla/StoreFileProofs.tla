-------------------------- MODULE StoreFileProofs --------------------------
(***************************************************************************)
(* Theorems about StoreFile for every set of processes and every number of *)
(* calls and power losses.                                                 *)
(***************************************************************************)
EXTENDS StoreFile, TLAPS

\* At most one process holds the lock for writing, and then nobody for reading.
Exclusion == \A p, q \in Proc : p # q /\ held[p] = "exclusive" => held[q] = "none"

\* Where a process holds the lock, and what it is doing there.
Discipline ==
    \A p \in Proc :
        /\ pc[p] \in SaveStage => held[p] = "exclusive"
        /\ pc[p] = "reading" => held[p] # "none"
        /\ pc[p] = "reading" /\ call[p] = "update" => held[p] = "exclusive"
        /\ pc[p] = "want shared" => call[p] = "query"
        /\ pc[p] = "checking" => call[p] = "init"
        /\ pc[p] = "renaming" => tmp[p] \in {"none", "flushed"}

\* A call of Update has a number.
Numbered == \A p \in Proc : call[p] = "update" => op[p] \in 1..MaxOps

\* The lease a store starts with expires at most once.
OneLease(c) == c.expiries <= 1 /\ (c.leased => c.expiries = 0)

Leases == OneLease(file.data) /\ OneLease(disk.data) /\ \A p \in Proc : OneLease(local[p])

FileInv == TypeOK /\ Exclusion /\ Discipline /\ Numbered /\ NeverTorn /\ Leases

-----------------------------------------------------------------------------

\* The reclaim pass keeps the operations, and expires a lease once.
LEMMA CleanContent ==
    ASSUME NEW c \in Content, OneLease(c)
    PROVE  /\ CleanExpiredLeases(c) \in Content
           /\ CleanExpiredLeases(c).ops = c.ops
           /\ OneLease(CleanExpiredLeases(c))
<1>1. CASE ~Lapsed(c)
  BY <1>1 DEF CleanExpiredLeases
<1>2. CASE Lapsed(c)
  <2> DEFINE d == [c EXCEPT !.leased = FALSE, !.expiries = 1]
  <2>1. c.expiries + 1 = 1
    BY <1>2 DEF Lapsed, OneLease
  <2>2. d \in Content
    BY DEF Content
  <2>4. d.ops = c.ops /\ d.expiries = 1
    BY DEF Content
  <2>5. d.leased = FALSE
    BY DEF Content
  <2>3. CleanExpiredLeases(c) = d
    BY <1>2, <2>1 DEF CleanExpiredLeases
  <2> QED BY <2>2, <2>3, <2>4, <2>5 DEF OneLease
<1> QED BY <1>1, <1>2

\* The empty store, and the one every run of an existing project starts from.
LEMMA FirstContents ==
    /\ Fresh \in Content /\ OneLease(Fresh)
    /\ Seed \in Content /\ OneLease(Seed)
BY DEF Fresh, Seed, Content, OneLease

LEMMA FileInit == Init => FileInv
<1> SUFFICES ASSUME Init PROVE FileInv
  OBVIOUS
<1>1. file \in Entry /\ NeverTorn /\ OneLease(file.data) /\ disk = file
  BY FirstContents, StoreFileAssumption DEF Init, Entry, Absent, NeverTorn
<1>2. TypeOK
  <2>1. /\ pc \in [Proc -> Stage] /\ held \in [Proc -> {"none", "shared", "exclusive"}]
        /\ call \in [Proc -> {"none", "update", "query", "init"}]
        /\ tmp \in [Proc -> {"none", "empty", "cached", "flushed"}]
        /\ verdict \in [Proc -> {"ok", "error"}]
    BY DEF Init, Stage
  <2>2. local \in [Proc -> Content] /\ op \in [Proc -> 0..MaxOps] /\ losses \in 0..MaxLosses
    BY FirstContents, StoreFileAssumption DEF Init
  <2>3. acked \subseteq Op /\ late \in BOOLEAN
    BY DEF Init
  <2> QED BY <1>1, <2>1, <2>2, <2>3 DEF TypeOK
<1>3. Exclusion /\ Discipline /\ Numbered
  BY DEF Init, Exclusion, Discipline, Numbered, SaveStage
<1>4. Leases
  BY <1>1, FirstContents DEF Init, Leases
<1> QED BY <1>1, <1>2, <1>3, <1>4 DEF FileInv

-----------------------------------------------------------------------------
(* One lemma per action.                                                   *)

LEMMA StartUpdateKeeps ==
    ASSUME FileInv, NEW p \in Proc, StartUpdate(p)
    PROVE  FileInv'
<1>1. op \in [Proc -> 0..MaxOps] /\ op[p] < MaxOps /\ op' = [op EXCEPT ![p] = @ + 1]
  BY DEF StartUpdate, FileInv, TypeOK
<1>2. /\ op' \in [Proc -> 0..MaxOps]
      /\ op'[p] \in 1..MaxOps /\ \A q \in Proc \ {p} : op'[q] = op[q]
  BY <1>1, StoreFileAssumption
<1>3. TypeOK'
  BY <1>2 DEF StartUpdate, Start, Goto, FileInv, TypeOK, Stage
<1>4. Discipline'
  BY DEF StartUpdate, Start, Goto, FileInv, TypeOK, Discipline, SaveStage
<1>6. Numbered'
  BY <1>2 DEF StartUpdate, Start, FileInv, TypeOK, Numbered
<1>5. Exclusion' /\ NeverTorn' /\ Leases'
  BY DEF StartUpdate, Start, FileInv, Exclusion, NeverTorn, Leases, OneLease
<1> QED BY <1>3, <1>4, <1>5, <1>6 DEF FileInv

LEMMA StartQueryKeeps ==
    ASSUME FileInv, NEW p \in Proc, StartQuery(p)
    PROVE  FileInv'
<1> USE DEF StartQuery, Start, Goto
<1>1. TypeOK'
  BY DEF FileInv, TypeOK, Stage
<1>2. Discipline'
  BY DEF FileInv, TypeOK, Discipline, SaveStage
<1>3. Exclusion' /\ NeverTorn' /\ Leases' /\ Numbered'
  BY DEF FileInv, TypeOK, Exclusion, NeverTorn, Leases, OneLease, Numbered
<1> QED BY <1>1, <1>2, <1>3 DEF FileInv

LEMMA StartInitKeeps ==
    ASSUME FileInv, NEW p \in Proc, StartInit(p)
    PROVE  FileInv'
<1> USE DEF StartInit, Start, Goto
<1>1. TypeOK'
  BY DEF FileInv, TypeOK, Stage
<1>2. Discipline'
  BY DEF FileInv, TypeOK, Discipline, SaveStage
<1>3. Exclusion' /\ NeverTorn' /\ Leases' /\ Numbered'
  BY DEF FileInv, TypeOK, Exclusion, NeverTorn, Leases, OneLease, Numbered
<1> QED BY <1>1, <1>2, <1>3 DEF FileInv

LEMMA CheckKeeps ==
    ASSUME FileInv, NEW p \in Proc, Check(p)
    PROVE  FileInv'
<1>1. TypeOK'
  BY DEF Check, Goto, FileInv, TypeOK, Stage
<1>2. /\ pc'[p] \in {"want exclusive", "leaving"} /\ \A q \in Proc \ {p} : pc'[q] = pc[q]
      /\ UNCHANGED <<held, call, tmp>>
  BY DEF Check, Goto, FileInv, TypeOK
<1>3. Discipline'
  BY <1>2 DEF FileInv, Discipline, SaveStage
<1>4. Exclusion' /\ NeverTorn' /\ Leases' /\ Numbered'
  BY DEF Check, Goto, FileInv, TypeOK, Exclusion, NeverTorn, Leases, OneLease, Numbered
<1> QED BY <1>1, <1>3, <1>4 DEF FileInv

LEMMA LockSharedKeeps ==
    ASSUME FileInv, NEW p \in Proc, LockShared(p)
    PROVE  FileInv'
<1> USE DEF LockShared, Goto
<1>1. TypeOK'
  BY DEF FileInv, TypeOK, Stage
<1>2. Discipline' /\ Exclusion'
  BY DEF FileInv, TypeOK, Discipline, Exclusion, SaveStage
<1>3. NeverTorn' /\ Leases' /\ Numbered'
  BY DEF FileInv, TypeOK, NeverTorn, Leases, OneLease, Numbered
<1> QED BY <1>1, <1>2, <1>3 DEF FileInv

LEMMA LockExclusiveKeeps ==
    ASSUME FileInv, NEW p \in Proc, LockExclusive(p)
    PROVE  FileInv'
<1>1. TypeOK'
  BY FirstContents DEF LockExclusive, Goto, FileInv, TypeOK, Stage
<1>2. \A q \in Proc : held[q] = "none"
  BY DEF LockExclusive, ExclusiveIsFree
<1>3. /\ held'[p] = "exclusive" /\ \A q \in Proc \ {p} : held'[q] = held[q]
      /\ pc'[p] \in {"creating", "reading"} /\ \A q \in Proc \ {p} : pc'[q] = pc[q]
      /\ call' = call /\ tmp' = tmp
  BY DEF LockExclusive, Goto, FileInv, TypeOK
<1>4. Exclusion'
  BY <1>2, <1>3 DEF Exclusion
<1>5. Discipline'
  BY <1>3 DEF FileInv, Discipline, SaveStage
<1>6. NeverTorn' /\ Leases' /\ Numbered'
  BY FirstContents DEF LockExclusive, FileInv, TypeOK, NeverTorn, Leases, Numbered
<1> QED BY <1>1, <1>4, <1>5, <1>6 DEF FileInv

LEMMA LeaveKeeps ==
    ASSUME FileInv, NEW p \in Proc, Leave(p)
    PROVE  FileInv'
<1>1. /\ held' = [held EXCEPT ![p] = "none"] /\ pc' = [pc EXCEPT ![p] = "idle"]
      /\ call' = [call EXCEPT ![p] = "none"] /\ local' = [local EXCEPT ![p] = Fresh]
      /\ UNCHANGED <<file, disk, op, tmp, verdict, late, losses>>
  BY DEF Leave, Released, Goto
<1>2. acked' \subseteq Op
  <2>1. call[p] = "update" => <<p, op[p]>> \in Op
    BY DEF FileInv, Numbered, Op
  <2> QED BY <2>1 DEF Leave, FileInv, TypeOK
<1>3. TypeOK'
  BY <1>1, <1>2, FirstContents DEF FileInv, TypeOK, Stage
<1>4. Exclusion' /\ Discipline'
  BY <1>1 DEF FileInv, TypeOK, Exclusion, Discipline, SaveStage
<1>5. NeverTorn' /\ Numbered'
  BY <1>1 DEF FileInv, TypeOK, NeverTorn, Numbered
<1>6. Leases'
  BY <1>1, FirstContents DEF FileInv, TypeOK, Leases
<1> QED BY <1>3, <1>4, <1>5, <1>6 DEF FileInv

LEMMA ReturnErrorKeeps ==
    ASSUME FileInv, NEW p \in Proc, LockFails(p) \/ ReadFails(p)
    PROVE  FileInv'
<1>1. /\ pc' = [pc EXCEPT ![p] = "leaving"] /\ verdict' = [verdict EXCEPT ![p] = "error"]
      /\ UNCHANGED <<file, disk, held, call, op, local, tmp, acked, late, losses>>
  BY DEF LockFails, ReadFails, Return, Goto
<1>2. TypeOK'
  BY <1>1 DEF FileInv, TypeOK, Stage
<1>3. Exclusion' /\ Discipline'
  BY <1>1 DEF FileInv, TypeOK, Exclusion, Discipline, SaveStage
<1>4. NeverTorn' /\ Numbered' /\ Leases'
  BY <1>1 DEF FileInv, TypeOK, NeverTorn, Numbered, Leases, OneLease
<1> QED BY <1>2, <1>3, <1>4 DEF FileInv

LEMMA ReadSharedKeeps ==
    ASSUME FileInv, NEW p \in Proc, ReadShared(p)
    PROVE  FileInv'
<1>1. file.data \in Content /\ OneLease(file.data)
  BY DEF FileInv, TypeOK, Entry, Leases
<1>2. /\ held' \in {held, [held EXCEPT ![p] = "none"]}
      /\ pc' \in {[pc EXCEPT ![p] = "want exclusive"], [pc EXCEPT ![p] = "leaving"]}
      /\ local' = [local EXCEPT ![p] = file.data]
      /\ UNCHANGED <<file, disk, call, op, tmp, verdict, acked, late, losses>>
  BY DEF ReadShared, Released, Goto
<1>3. TypeOK'
  BY <1>1, <1>2 DEF FileInv, TypeOK, Stage
<1>5. /\ pc'[p] \in {"want exclusive", "leaving"} /\ held'[p] \in {held[p], "none"}
      /\ \A q \in Proc \ {p} : pc'[q] = pc[q] /\ held'[q] = held[q]
      /\ call' = call /\ tmp' = tmp
  BY <1>2 DEF FileInv, TypeOK
<1>4. Exclusion'
  BY <1>5 DEF FileInv, Exclusion
<1>6. Discipline'
  BY <1>5 DEF FileInv, Discipline, SaveStage
<1>7. NeverTorn' /\ Numbered'
  BY <1>2 DEF FileInv, TypeOK, NeverTorn, Numbered
<1>8. Leases'
  BY <1>1, <1>2 DEF FileInv, TypeOK, Leases
<1> QED BY <1>3, <1>4, <1>6, <1>7, <1>8 DEF FileInv

\* A new store in the memory of a process that holds the lock for writing.
LEMMA InMemoryKeeps ==
    ASSUME FileInv, NEW p \in Proc, pc[p] = "reading", held[p] = "exclusive",
           NEW c \in Content, OneLease(c), local' = [local EXCEPT ![p] = c],
           pc' \in {[pc EXCEPT ![p] = "creating"], [pc EXCEPT ![p] = "leaving"]},
           verdict' \in [Proc -> {"ok", "error"}],
           UNCHANGED <<file, disk, held, call, op, tmp, acked, late, losses>>
    PROVE  FileInv'
<1>1. TypeOK'
  BY DEF FileInv, TypeOK, Stage
<1>2. /\ pc'[p] \in {"creating", "leaving"} /\ \A q \in Proc \ {p} : pc'[q] = pc[q]
      /\ held' = held /\ call' = call /\ tmp' = tmp
  BY DEF FileInv, TypeOK
<1>3. Exclusion'
  BY DEF FileInv, Exclusion
<1>6. Discipline'
  <2>1. SUFFICES ASSUME NEW q \in Proc
                 PROVE  /\ pc'[q] \in SaveStage => held[q] = "exclusive"
                        /\ pc'[q] = "reading" => held[q] # "none"
                        /\ pc'[q] = "reading" /\ call[q] = "update" => held[q] = "exclusive"
                        /\ pc'[q] = "want shared" => call[q] = "query"
                        /\ pc'[q] = "checking" => call[q] = "init"
                        /\ pc'[q] = "renaming" => tmp[q] \in {"none", "flushed"}
    BY <1>2 DEF Discipline
  <2>2. CASE q = p
    BY <1>2, <2>2 DEF SaveStage
  <2>3. CASE q # p
    BY <1>2, <2>3 DEF FileInv, Discipline
  <2> QED BY <2>2, <2>3
<1>4. NeverTorn' /\ Numbered'
  BY DEF FileInv, NeverTorn, Numbered
<1>5. Leases'
  BY DEF FileInv, TypeOK, Leases
<1> QED BY <1>1, <1>3, <1>4, <1>5, <1>6 DEF FileInv

\* What the update that process p executes adds to the store.
LEMMA AddedContent ==
    ASSUME FileInv, NEW p \in Proc, call[p] = "update",
           NEW c \in Content, OneLease(c), NEW s \in SUBSET {<<p, op[p]>>}
    PROVE  /\ [c EXCEPT !.ops = @ \cup s] \in Content
           /\ [c EXCEPT !.ops = @ \cup s].ops = c.ops \cup s
           /\ OneLease([c EXCEPT !.ops = @ \cup s])
<1>1. <<p, op[p]>> \in Op
  BY DEF FileInv, Numbered, Op
<1>2. c.ops \cup s \in SUBSET Op
  BY <1>1 DEF Content
<1> DEFINE d == [c EXCEPT !.ops = c.ops \cup s]
<1>3. d \in Content /\ d.ops = c.ops \cup s /\ d.leased = c.leased /\ d.expiries = c.expiries
  BY <1>2 DEF Content
<1>4. d = [c EXCEPT !.ops = @ \cup s]
  OBVIOUS
<1> HIDE DEF d
<1>5. OneLease(d)
  BY <1>3 DEF OneLease
<1> QED BY <1>3, <1>4, <1>5

LEMMA FileContent == FileInv => file.data \in Content /\ OneLease(file.data)
BY DEF FileInv, TypeOK, Entry, Leases

LEMMA ReclaimUnderLockKeeps ==
    ASSUME FileInv, NEW p \in Proc, ReclaimUnderLock(p)
    PROVE  FileInv'
<1> DEFINE c == CleanExpiredLeases(file.data)
<1>1. c \in Content /\ OneLease(c)
  BY FileContent, CleanContent
<1>2. /\ pc[p] = "reading" /\ held[p] = "exclusive" /\ local' = [local EXCEPT ![p] = c]
      /\ pc' \in {[pc EXCEPT ![p] = "creating"], [pc EXCEPT ![p] = "leaving"]}
      /\ UNCHANGED <<file, disk, held, call, op, tmp, verdict, acked, late, losses>>
  BY DEF ReclaimUnderLock, Goto, Reread
<1>3. verdict' \in [Proc -> {"ok", "error"}]
  BY <1>2 DEF FileInv, TypeOK
<1> HIDE DEF c
<1> QED BY <1>1, <1>2, <1>3, InMemoryKeeps

LEMMA MutateKeeps ==
    ASSUME FileInv, NEW p \in Proc, Mutate(p) \/ MutateFails(p)
    PROVE  FileInv'
<1> DEFINE c == CleanExpiredLeases(file.data)
<1>1. c \in Content /\ OneLease(c)
  BY FileContent, CleanContent
<1>2. PICK s \in SUBSET {<<p, op[p]>>} : local' = [local EXCEPT ![p] = [c EXCEPT !.ops = @ \cup s]]
  BY DEF Mutate, MutateFails
<1>3. /\ pc[p] = "reading" /\ call[p] = "update"
      /\ pc' \in {[pc EXCEPT ![p] = "creating"], [pc EXCEPT ![p] = "leaving"]}
      /\ verdict' \in {verdict, [verdict EXCEPT ![p] = "error"]}
      /\ UNCHANGED <<file, disk, held, call, op, tmp, acked, late, losses>>
  BY DEF Mutate, MutateFails, Goto
<1>4. held[p] = "exclusive" /\ verdict' \in [Proc -> {"ok", "error"}]
  BY <1>3 DEF FileInv, TypeOK, Discipline
<1> HIDE DEF c
<1> DEFINE d == [c EXCEPT !.ops = @ \cup s]
<1>5. d \in Content /\ OneLease(d)
  BY <1>1, <1>3, AddedContent
<1>6. local' = [local EXCEPT ![p] = d]
  BY <1>2
<1> HIDE DEF d
<1> QED BY <1>3, <1>4, <1>5, <1>6, InMemoryKeeps

\* A step of writeStore that touches the temporary file and nothing visible.
LEMMA TmpKeeps ==
    ASSUME FileInv, NEW p \in Proc, pc[p] \in SaveStage,
           NEW t \in {"none", "empty", "cached", "flushed"}, tmp' = [tmp EXCEPT ![p] = t],
           NEW stage \in {"writing", "flushing", "renaming", "leaving"},
           pc' = [pc EXCEPT ![p] = stage],
           stage = "renaming" => t \in {"none", "flushed"},
           verdict' \in [Proc -> {"ok", "error"}],
           UNCHANGED <<file, disk, held, call, op, local, acked, late, losses>>
    PROVE  FileInv'
<1>1. TypeOK'
  BY DEF FileInv, TypeOK, Stage
<1>2. /\ pc'[p] = stage /\ \A q \in Proc \ {p} : pc'[q] = pc[q] /\ tmp'[q] = tmp[q]
      /\ held' = held /\ call' = call /\ tmp'[p] = t
  BY DEF FileInv, TypeOK
<1>3. Exclusion'
  BY DEF FileInv, Exclusion
<1>4. Discipline'
  <2>1. SUFFICES ASSUME NEW q \in Proc
                 PROVE  /\ pc'[q] \in SaveStage => held'[q] = "exclusive"
                        /\ pc'[q] = "reading" => held'[q] # "none"
                        /\ pc'[q] = "reading" /\ call'[q] = "update" => held'[q] = "exclusive"
                        /\ pc'[q] = "want shared" => call'[q] = "query"
                        /\ pc'[q] = "checking" => call'[q] = "init"
                        /\ pc'[q] = "renaming" => tmp'[q] \in {"none", "flushed"}
    BY DEF Discipline
  <2>2. CASE q = p
    BY <1>2, <2>2 DEF FileInv, Discipline, SaveStage
  <2>3. CASE q # p
    <3>1. pc'[q] = pc[q] /\ tmp'[q] = tmp[q] /\ held'[q] = held[q] /\ call'[q] = call[q]
      BY <1>2, <2>3
    <3> QED BY <3>1 DEF FileInv, Discipline
  <2> QED BY <2>2, <2>3
<1>5. NeverTorn' /\ Numbered' /\ Leases'
  BY DEF FileInv, NeverTorn, Numbered, Leases, OneLease
<1> QED BY <1>1, <1>3, <1>4, <1>5 DEF FileInv

LEMMA SaveKeeps ==
    ASSUME FileInv, NEW p \in Proc, Create(p) \/ Write(p) \/ Flush(p) \/ SaveFails(p)
    PROVE  FileInv'
<1>1. verdict' \in [Proc -> {"ok", "error"}]
  BY DEF Create, Write, Flush, SaveFails, Return, FileInv, TypeOK
<1>2. CASE Create(p)
  BY <1>1, <1>2, TmpKeeps DEF Create, Goto, SaveStage
<1>3. CASE Write(p)
  <2> DEFINE t == IF tmp[p] = "none" THEN tmp[p] ELSE "cached"
  <2>1. t \in {"none", "empty", "cached", "flushed"}
    BY DEF FileInv, TypeOK
  <2>2. tmp' = [tmp EXCEPT ![p] = t]
    BY <1>3 DEF Write
  <2> HIDE DEF t
  <2> QED BY <1>1, <1>3, <2>1, <2>2, TmpKeeps DEF Write, Goto, SaveStage
<1>4. CASE Flush(p)
  <2> DEFINE t == Flushed(tmp[p])
  <2>1. t \in {"none", "flushed"}
    BY DEF Flushed
  <2>2. tmp' = [tmp EXCEPT ![p] = t]
    BY <1>4 DEF Flush
  <2> HIDE DEF t
  <2> QED BY <1>1, <1>4, <2>1, <2>2, TmpKeeps DEF Flush, Goto, SaveStage
<1>5. CASE SaveFails(p)
  BY <1>1, <1>5, TmpKeeps DEF SaveFails, Return, Goto
<1> QED BY <1>2, <1>3, <1>4, <1>5

LEMMA RenameKeeps ==
    ASSUME FileInv, NEW p \in Proc, Rename(p)
    PROVE  FileInv'
<1>1. /\ file' = [kind |-> tmp[p], data |-> local[p]]
      /\ tmp' = [tmp EXCEPT ![p] = "none"] /\ pc' = [pc EXCEPT ![p] = "syncing"]
      /\ UNCHANGED <<disk, held, call, op, local, verdict, acked, late, losses>>
  BY DEF Rename, Goto
<1>2. tmp[p] = "flushed"
  BY DEF Rename, HasTmp, FileInv, Discipline
<1>3. local[p] \in Content /\ OneLease(local[p])
  BY DEF FileInv, TypeOK, Leases
<1>4. file' \in Entry /\ file'.kind = "flushed" /\ file'.data = local[p]
  BY <1>1, <1>2, <1>3 DEF Entry
<1>5. TypeOK'
  BY <1>1, <1>4 DEF FileInv, TypeOK, Stage
<1>6. Exclusion'
  BY <1>1 DEF FileInv, Exclusion
<1>7. /\ pc[p] \in SaveStage /\ pc'[p] = "syncing"
      /\ \A q \in Proc \ {p} : pc'[q] = pc[q] /\ tmp'[q] = tmp[q]
      /\ held' = held /\ call' = call
  BY <1>1 DEF Rename, SaveStage, FileInv, TypeOK
<1>8. Discipline'
  BY <1>7 DEF FileInv, Discipline, SaveStage
<1>9. NeverTorn' /\ Numbered'
  BY <1>1, <1>4 DEF FileInv, NeverTorn, Numbered
<1>10. Leases'
  BY <1>1, <1>3, <1>4 DEF FileInv, Leases
<1> QED BY <1>5, <1>6, <1>8, <1>9, <1>10 DEF FileInv

LEMMA SyncDirKeeps ==
    ASSUME FileInv, NEW p \in Proc, SyncDir(p)
    PROVE  FileInv'
<1>1. /\ disk' = file /\ pc' = [pc EXCEPT ![p] = "leaving"]
      /\ UNCHANGED <<file, held, call, op, local, tmp, verdict, acked, late, losses>>
  BY DEF SyncDir, Goto, DirectoryOnDisk
<1>2. TypeOK'
  BY <1>1 DEF FileInv, TypeOK, Stage
<1>3. Exclusion' /\ NeverTorn' /\ Numbered'
  BY <1>1 DEF FileInv, Exclusion, NeverTorn, Numbered
<1>4. Discipline'
  BY <1>1 DEF FileInv, TypeOK, Discipline, SaveStage
<1>5. Leases'
  BY <1>1 DEF FileInv, Leases
<1> QED BY <1>2, <1>3, <1>4, <1>5 DEF FileInv

LEMMA KillKeeps ==
    ASSUME FileInv, NEW p \in Proc, Kill(p)
    PROVE  FileInv'
<1>1. /\ pc' = [pc EXCEPT ![p] = "idle"] /\ held' = [held EXCEPT ![p] = "none"]
      /\ call' = [call EXCEPT ![p] = "none"] /\ local' = [local EXCEPT ![p] = Fresh]
      /\ tmp' = [tmp EXCEPT ![p] = "none"]
      /\ UNCHANGED <<file, disk, op, verdict, acked, late, losses>>
  BY DEF Kill, Released, Goto
<1>2. TypeOK'
  BY <1>1, FirstContents DEF FileInv, TypeOK, Stage
<1>3. Exclusion' /\ Discipline'
  BY <1>1 DEF FileInv, TypeOK, Exclusion, Discipline, SaveStage
<1>4. NeverTorn' /\ Numbered'
  BY <1>1 DEF FileInv, TypeOK, NeverTorn, Numbered
<1>5. Leases'
  BY <1>1, FirstContents DEF FileInv, TypeOK, Leases
<1> QED BY <1>2, <1>3, <1>4, <1>5 DEF FileInv

\* A name whose bytes are all on stable storage comes through a reboot as it was.
LEMMA PowerLossKeeps == FileInv /\ PowerLoss => FileInv'
<1> SUFFICES ASSUME FileInv, PowerLoss PROVE FileInv'
  OBVIOUS
<1>1. PICK e \in {file, disk} : file' = Survives(e) /\ disk' = Survives(e)
  BY DEF PowerLoss
<1>2. Survives(e) = e
  BY <1>1 DEF Survives, FileInv, NeverTorn
<1>3. /\ pc' = [p \in Proc |-> "idle"] /\ held' = [p \in Proc |-> "none"]
      /\ call' = [p \in Proc |-> "none"] /\ local' = [p \in Proc |-> Fresh]
      /\ tmp' = [p \in Proc |-> "none"]
      /\ UNCHANGED <<op, verdict, acked, late>>
  BY DEF PowerLoss
<1>4. losses' \in 0..MaxLosses
  BY StoreFileAssumption DEF PowerLoss, FileInv, TypeOK
<1>5. TypeOK'
  BY <1>1, <1>2, <1>3, <1>4, FirstContents DEF FileInv, TypeOK, Stage
<1>6. Exclusion' /\ Discipline' /\ Numbered'
  BY <1>3 DEF Exclusion, Discipline, SaveStage, Numbered
<1>7. NeverTorn' /\ Leases'
  BY <1>1, <1>2, <1>3, FirstContents DEF FileInv, NeverTorn, Leases
<1> QED BY <1>5, <1>6, <1>7 DEF FileInv

LEMMA DoctorFixKeeps ==
    ASSUME FileInv, NEW p \in Proc, DoctorFix(p)
    PROVE  FileInv'
<1>1. /\ tmp' = [tmp EXCEPT ![p] = "none"]
      /\ UNCHANGED <<file, disk, held, pc, call, op, local, verdict, acked, late, losses>>
  BY DEF DoctorFix
<1>2. TypeOK' /\ Discipline'
  BY <1>1 DEF FileInv, TypeOK, Discipline
<1>3. Exclusion' /\ NeverTorn' /\ Numbered' /\ Leases'
  BY <1>1 DEF FileInv, Exclusion, NeverTorn, Numbered, Leases, OneLease
<1> QED BY <1>2, <1>3 DEF FileInv

LEMMA LeaseRunsOutKeeps == FileInv /\ LeaseRunsOut => FileInv'
<1> SUFFICES ASSUME FileInv, LeaseRunsOut PROVE FileInv'
  OBVIOUS
<1>1. /\ late' = TRUE
      /\ UNCHANGED <<file, disk, held, pc, call, op, local, tmp, verdict, acked, losses>>
  BY DEF LeaseRunsOut
<1>2. TypeOK'
  BY <1>1 DEF FileInv, TypeOK
<1>3. Exclusion' /\ Discipline' /\ Numbered' /\ NeverTorn' /\ Leases'
  BY <1>1 DEF FileInv, Exclusion, Discipline, Numbered, NeverTorn, Leases, OneLease
<1> QED BY <1>2, <1>3 DEF FileInv

LEMMA FileStep == FileInv /\ [Next]_vars => FileInv'
<1> SUFFICES ASSUME FileInv, [Next]_vars PROVE FileInv'
  OBVIOUS
<1>1. CASE UNCHANGED vars
  BY <1>1 DEF vars, FileInv, TypeOK, Exclusion, Discipline, Numbered, NeverTorn, Leases, OneLease
<1>2. ASSUME NEW p \in Proc, Begin(p) PROVE FileInv'
  BY <1>2, StartUpdateKeeps, StartQueryKeeps, StartInitKeeps DEF Begin
<1>3. ASSUME NEW p \in Proc, Work(p) PROVE FileInv'
  BY <1>3, CheckKeeps, LockSharedKeeps, LockExclusiveKeeps, ReturnErrorKeeps, ReadSharedKeeps,
     ReclaimUnderLockKeeps, MutateKeeps, SaveKeeps, RenameKeeps, SyncDirKeeps, LeaveKeeps DEF Work
<1> QED BY <1>1, <1>2, <1>3, KillKeeps, DoctorFixKeeps, PowerLossKeeps, LeaseRunsOutKeeps DEF Next

LEMMA FileInvariant == Spec => []FileInv
BY FileInit, FileStep, PTL DEF Spec

-----------------------------------------------------------------------------
(* What a process carries from its read to its report, when nobody runs init. *)

Unsaved == {"creating", "writing", "flushing", "renaming"}

\* The call of p is going to be reported as done.
Promised(p) == call[p] = "update" /\ verdict[p] = "ok"

Carries(p) ==
    /\ call[p] # "init"
    /\ pc[p] \in Unsaved => file.data.ops \subseteq local[p].ops
    /\ pc[p] \in Unsaved /\ Promised(p) => <<p, op[p]>> \in local[p].ops
    /\ pc[p] = "syncing" /\ Promised(p) => <<p, op[p]>> \in file.data.ops
    /\ pc[p] = "leaving" /\ Promised(p) =>
           <<p, op[p]>> \in file.data.ops /\ <<p, op[p]>> \in disk.data.ops

DataInv == NoLostUpdate /\ AckedIsDurable /\ \A p \in Proc : Carries(p)

SameAt(q) ==
    /\ pc'[q] = pc[q] /\ call'[q] = call[q] /\ op'[q] = op[q]
    /\ verdict'[q] = verdict[q] /\ local'[q] = local[q]

\* A step of p that leaves the files alone keeps DataInv if p still carries
\* what it has to.
LEMMA QuietStep ==
    ASSUME DataInv, NEW p \in Proc, UNCHANGED <<file, disk, acked>>,
           \A q \in Proc \ {p} : SameAt(q), Carries(p)'
    PROVE  DataInv'
<1>1. ASSUME NEW q \in Proc \ {p} PROVE Carries(q)'
  BY <1>1 DEF DataInv, Carries, Promised, SameAt
<1> QED BY <1>1 DEF DataInv, NoLostUpdate, AckedIsDurable

\* A process outside writeStore that promises nothing carries nothing.
LEMMA CarriesNothing ==
    ASSUME NEW p \in Proc, call'[p] # "init", pc'[p] \notin Unsaved,
           pc'[p] \notin {"syncing", "leaving"} \/ call'[p] # "update" \/ verdict'[p] # "ok"
    PROVE  Carries(p)'
BY DEF Carries, Promised

LEMMA BeginData ==
    ASSUME Initializers = {}, FileInv, DataInv, NEW p \in Proc, Begin(p)
    PROVE  DataInv'
<1>1. PICK k \in {"update", "query"}, stage \in {"want exclusive", "want shared"} : Start(p, k, stage)
  BY DEF Begin, StartUpdate, StartQuery, StartInit
<1>2. UNCHANGED <<file, disk, local, acked>> /\ op' \in {op, [op EXCEPT ![p] = op'[p]]}
  BY DEF Begin, StartUpdate, StartQuery, StartInit, Start, FileInv, TypeOK
<1>3. \A q \in Proc \ {p} : SameAt(q)
  BY <1>1, <1>2 DEF Start, Goto, SameAt, FileInv, TypeOK
<1>4. call'[p] = k /\ pc'[p] = stage
  BY <1>1 DEF Start, Goto, FileInv, TypeOK
<1> QED BY <1>2, <1>3, <1>4, CarriesNothing, QuietStep DEF Unsaved

LEMMA CheckData ==
    ASSUME FileInv, DataInv, NEW p \in Proc, Check(p)
    PROVE  DataInv'
<1>1. call[p] # "init" /\ call[p] = "init"
  BY DEF Check, FileInv, Discipline, DataInv, Carries
<1> QED BY <1>1

\* The steps on the way to the lock, and the reads that end a call.
LEMMA WaitData ==
    ASSUME FileInv, DataInv, NEW p \in Proc,
           LockShared(p) \/ LockExclusive(p) \/ LockFails(p) \/ ReadShared(p) \/ ReadFails(p)
    PROVE  DataInv'
<1>1. UNCHANGED <<file, disk, call, op, acked>> /\ call[p] # "init"
  BY DEF LockShared, LockExclusive, LockFails, ReadShared, ReadFails, DataInv, Carries
<1>2. \A q \in Proc \ {p} : SameAt(q)
  BY <1>1 DEF LockShared, LockExclusive, LockFails, ReadShared, ReadFails, Return, Goto, SameAt, FileInv, TypeOK
<1>3. CASE LockShared(p) \/ LockExclusive(p)
  <2>1. pc'[p] = "reading"
    BY <1>1, <1>3 DEF LockShared, LockExclusive, Goto, FileInv, TypeOK
  <2> QED BY <1>1, <1>2, <2>1, CarriesNothing, QuietStep DEF Unsaved
<1>4. CASE LockFails(p) \/ ReadFails(p)
  <2>1. pc'[p] = "leaving" /\ verdict'[p] = "error"
    BY <1>4 DEF LockFails, ReadFails, Return, Goto, FileInv, TypeOK
  <2> QED BY <1>1, <1>2, <2>1, CarriesNothing, QuietStep DEF Unsaved
<1>5. CASE ReadShared(p)
  <2>1. pc'[p] \in {"want exclusive", "leaving"} /\ call[p] # "update"
    BY <1>5 DEF ReadShared, Goto, FileInv, TypeOK, Discipline
  <2> QED BY <1>1, <1>2, <2>1, CarriesNothing, QuietStep DEF Unsaved
<1> QED BY <1>3, <1>4, <1>5

\* A store built from the file under the lock has everything the file has.
LEMMA InMemoryData ==
    ASSUME FileInv, DataInv, NEW p \in Proc, call[p] # "init",
           NEW c, file.data.ops \subseteq c.ops, local' = [local EXCEPT ![p] = c],
           \/ pc' = [pc EXCEPT ![p] = "creating"]
           \/ pc' = [pc EXCEPT ![p] = "leaving"] /\ ~Promised(p)',
           verdict' \in {verdict, [verdict EXCEPT ![p] = "error"]},
           Promised(p)' => <<p, op[p]>> \in c.ops,
           UNCHANGED <<file, disk, call, op, acked>>
    PROVE  DataInv'
<1>1. \A q \in Proc \ {p} : SameAt(q)
  BY DEF SameAt, FileInv, TypeOK
<1>2. local'[p] = c
  BY DEF FileInv, TypeOK
<1>3. pc'[p] = "creating" \/ (pc'[p] = "leaving" /\ ~Promised(p)')
  BY DEF FileInv, TypeOK
<1>4. Carries(p)'
  BY <1>2, <1>3 DEF Carries, Unsaved
<1> QED BY <1>1, <1>4, QuietStep

LEMMA MutateData ==
    ASSUME FileInv, DataInv, NEW p \in Proc,
           ReclaimUnderLock(p) \/ Mutate(p) \/ MutateFails(p)
    PROVE  DataInv'
<1> DEFINE c == CleanExpiredLeases(file.data)
<1>1. c \in Content /\ c.ops = file.data.ops /\ OneLease(c)
  BY FileContent, CleanContent
<1>2. call[p] # "init" /\ UNCHANGED <<file, disk, call, op, acked>>
  BY DEF ReclaimUnderLock, Mutate, MutateFails
<1>3. CASE ReclaimUnderLock(p)
  <2>1. /\ local' = [local EXCEPT ![p] = c] /\ call[p] = "query" /\ verdict' = verdict
        /\ pc' \in {[pc EXCEPT ![p] = "creating"], [pc EXCEPT ![p] = "leaving"]}
    BY <1>3 DEF ReclaimUnderLock, Goto, Reread
  <2>2. ~Promised(p)'
    BY <1>2, <2>1 DEF Promised
  <2> HIDE DEF c
  <2> QED BY <1>1, <1>2, <2>1, <2>2, InMemoryData
<1>4. CASE Mutate(p)
  <2> DEFINE d == [c EXCEPT !.ops = @ \cup {<<p, op[p]>>}]
  <2>1. local' = [local EXCEPT ![p] = d] /\ verdict' = verdict /\ call[p] = "update"
        /\ pc' = [pc EXCEPT ![p] = "creating"]
    BY <1>4 DEF Mutate, Goto
  <2>2. d.ops = c.ops \cup {<<p, op[p]>>}
    BY <1>1, <2>1, AddedContent
  <2> HIDE DEF c, d
  <2> QED BY <1>1, <1>2, <2>1, <2>2, InMemoryData
<1>5. CASE MutateFails(p)
  <2>1. PICK s \in SUBSET {<<p, op[p]>>} : local' = [local EXCEPT ![p] = [c EXCEPT !.ops = @ \cup s]]
    BY <1>5 DEF MutateFails
  <2> DEFINE d == [c EXCEPT !.ops = @ \cup s]
  <2>2. /\ call[p] = "update" /\ verdict' = [verdict EXCEPT ![p] = "error"]
        /\ pc' \in {[pc EXCEPT ![p] = "creating"], [pc EXCEPT ![p] = "leaving"]}
    BY <1>5 DEF MutateFails, Goto
  <2>3. d.ops = c.ops \cup s
    BY <1>1, <2>2, AddedContent
  <2>4. ~Promised(p)'
    BY <2>2 DEF Promised, FileInv, TypeOK
  <2>5. local' = [local EXCEPT ![p] = d]
    BY <2>1
  <2> HIDE DEF c, d
  <2> QED BY <1>1, <1>2, <2>2, <2>3, <2>4, <2>5, InMemoryData
<1> QED BY <1>3, <1>4, <1>5

LEMMA TmpData ==
    ASSUME FileInv, DataInv, NEW p \in Proc,
           Create(p) \/ Write(p) \/ Flush(p) \/ SaveFails(p) \/ DoctorFix(p)
    PROVE  DataInv'
<1>1. UNCHANGED <<file, disk, call, op, local, acked>>
  BY DEF Create, Write, Flush, SaveFails, DoctorFix
<1>2. \A q \in Proc \ {p} : SameAt(q)
  BY <1>1 DEF Create, Write, Flush, SaveFails, DoctorFix, Return, Goto, SameAt, FileInv, TypeOK
<1>3. CASE Create(p) \/ Write(p) \/ Flush(p)
  <2>1. pc[p] \in Unsaved /\ pc'[p] \in Unsaved /\ verdict' = verdict
    BY <1>3 DEF Create, Write, Flush, Goto, Unsaved, FileInv, TypeOK
  <2>2. Carries(p)'
    BY <1>1, <2>1 DEF DataInv, Carries, Promised, Unsaved
  <2> QED BY <1>1, <1>2, <2>2, QuietStep
<1>4. CASE SaveFails(p)
  <2>1. pc'[p] = "leaving" /\ verdict'[p] = "error" /\ call'[p] # "init"
    BY <1>1, <1>4 DEF SaveFails, Return, Goto, FileInv, TypeOK, DataInv, Carries
  <2> QED BY <1>1, <1>2, <2>1, CarriesNothing, QuietStep DEF Unsaved
<1>5. CASE DoctorFix(p)
  <2>1. pc' = pc /\ verdict' = verdict
    BY <1>5 DEF DoctorFix
  <2>2. Carries(p)'
    BY <1>1, <2>1 DEF DataInv, Carries, Promised
  <2> QED BY <1>1, <1>2, <2>2, QuietStep
<1> QED BY <1>3, <1>4, <1>5

\* The commit: nobody else is between its read and its rename, so nothing that
\* another process promised is missing from what replaces the file.
LEMMA RenameData ==
    ASSUME FileInv, DataInv, NEW p \in Proc, Rename(p)
    PROVE  DataInv'
<1>1. pc[p] = "renaming" /\ file'.data = local[p] /\ pc' = [pc EXCEPT ![p] = "syncing"]
      /\ UNCHANGED <<disk, call, op, local, verdict, acked>>
  BY DEF Rename, Goto
<1>2. pc'[p] = "syncing" /\ \A q \in Proc \ {p} : pc'[q] = pc[q]
  BY <1>1 DEF FileInv, TypeOK
<1>3. file.data.ops \subseteq file'.data.ops
  BY <1>1 DEF DataInv, Carries, Unsaved
<1>4. Promised(p)' => <<p, op'[p]>> \in file'.data.ops
  BY <1>1 DEF DataInv, Carries, Unsaved, Promised
<1>5. \A q \in Proc \ {p} : pc[q] \notin Unsaved
  <2>1. \A q \in Proc \ {p} : held[q] = "none"
    BY <1>1 DEF FileInv, Exclusion, Discipline, SaveStage
  <2> QED BY <2>1 DEF FileInv, Discipline, SaveStage, Unsaved
<1>6. Carries(p)'
  BY <1>1, <1>2, <1>4 DEF DataInv, Carries, Unsaved
<1>7. ASSUME NEW q \in Proc \ {p} PROVE Carries(q)'
  BY <1>1, <1>2, <1>3, <1>5, <1>7 DEF DataInv, Carries, Promised
<1>8. NoLostUpdate' /\ AckedIsDurable'
  BY <1>1, <1>3 DEF DataInv, NoLostUpdate, AckedIsDurable
<1> QED BY <1>6, <1>7, <1>8 DEF DataInv

LEMMA SyncDirData ==
    ASSUME FileInv, DataInv, NEW p \in Proc, SyncDir(p)
    PROVE  DataInv'
<1>1. pc[p] = "syncing" /\ disk' = file /\ pc' = [pc EXCEPT ![p] = "leaving"]
      /\ UNCHANGED <<file, call, op, local, verdict, acked>>
  BY DEF SyncDir, Goto, DirectoryOnDisk
<1>2. pc'[p] = "leaving" /\ \A q \in Proc \ {p} : pc'[q] = pc[q]
  BY <1>1 DEF FileInv, TypeOK
<1>3. Carries(p)'
  BY <1>1, <1>2 DEF DataInv, Carries, Promised, Unsaved
<1>4. ASSUME NEW q \in Proc \ {p} PROVE Carries(q)'
  BY <1>1, <1>2, <1>4 DEF DataInv, Carries, Promised
<1>5. NoLostUpdate' /\ AckedIsDurable'
  BY <1>1 DEF DataInv, NoLostUpdate, AckedIsDurable
<1> QED BY <1>3, <1>4, <1>5 DEF DataInv

\* Only what is in both files is reported.
LEMMA LeaveData ==
    ASSUME FileInv, DataInv, NEW p \in Proc, Leave(p)
    PROVE  DataInv'
<1>1. /\ pc[p] = "leaving" /\ pc' = [pc EXCEPT ![p] = "idle"]
      /\ call' = [call EXCEPT ![p] = "none"] /\ local' = [local EXCEPT ![p] = Fresh]
      /\ UNCHANGED <<file, disk, op, verdict>>
  BY DEF Leave, Goto
<1>2. /\ pc'[p] = "idle" /\ call'[p] = "none"
      /\ \A q \in Proc \ {p} : SameAt(q)
  BY <1>1 DEF FileInv, TypeOK, SameAt
<1>3. NoLostUpdate' /\ AckedIsDurable'
  BY <1>1 DEF Leave, DataInv, NoLostUpdate, AckedIsDurable, Carries, Promised
<1>4. Carries(p)'
  BY <1>2, CarriesNothing DEF Unsaved
<1>5. ASSUME NEW q \in Proc \ {p} PROVE Carries(q)'
  BY <1>1, <1>2, <1>5 DEF DataInv, Carries, Promised, SameAt
<1> QED BY <1>3, <1>4, <1>5 DEF DataInv

LEMMA KillData ==
    ASSUME FileInv, DataInv, NEW p \in Proc, Kill(p)
    PROVE  DataInv'
<1>1. /\ pc' = [pc EXCEPT ![p] = "idle"] /\ call' = [call EXCEPT ![p] = "none"]
      /\ local' = [local EXCEPT ![p] = Fresh] /\ UNCHANGED <<file, disk, op, verdict, acked>>
  BY DEF Kill, Goto
<1>2. /\ pc'[p] = "idle" /\ call'[p] = "none"
      /\ \A q \in Proc \ {p} : SameAt(q)
  BY <1>1 DEF FileInv, TypeOK, SameAt
<1> QED BY <1>1, <1>2, CarriesNothing, QuietStep DEF Unsaved

LEMMA PowerLossData == FileInv /\ DataInv /\ PowerLoss => DataInv'
<1> SUFFICES ASSUME FileInv, DataInv, PowerLoss PROVE DataInv'
  OBVIOUS
<1>1. PICK e \in {file, disk} : file' = Survives(e) /\ disk' = Survives(e)
  BY DEF PowerLoss
<1>2. Survives(e) = e
  BY <1>1 DEF Survives, FileInv, NeverTorn
<1>3. pc' = [p \in Proc |-> "idle"] /\ call' = [p \in Proc |-> "none"] /\ acked' = acked
  BY DEF PowerLoss
<1>4. NoLostUpdate' /\ AckedIsDurable'
  BY <1>1, <1>2, <1>3 DEF DataInv, NoLostUpdate, AckedIsDurable
<1>5. ASSUME NEW p \in Proc PROVE Carries(p)'
  BY <1>3, <1>5, CarriesNothing DEF Unsaved
<1> QED BY <1>4, <1>5 DEF DataInv

LEMMA LeaseRunsOutData == DataInv /\ LeaseRunsOut => DataInv'
BY DEF LeaseRunsOut, DataInv, NoLostUpdate, AckedIsDurable, Carries, Promised

LEMMA DataInit == Init => DataInv
BY DEF Init, DataInv, NoLostUpdate, AckedIsDurable, Carries, Promised, Unsaved

LEMMA DataStep ==
    ASSUME Initializers = {}
    PROVE  FileInv /\ DataInv /\ [Next]_vars => DataInv'
<1> SUFFICES ASSUME FileInv, DataInv, [Next]_vars PROVE DataInv'
  OBVIOUS
<1>1. CASE UNCHANGED vars
  BY <1>1 DEF vars, DataInv, NoLostUpdate, AckedIsDurable, Carries, Promised
<1>2. ASSUME NEW p \in Proc, Work(p) PROVE DataInv'
  BY <1>2, CheckData, WaitData, MutateData, TmpData, RenameData, SyncDirData, LeaveData DEF Work
<1> QED BY <1>1, <1>2, BeginData, KillData, TmpData, PowerLossData, LeaseRunsOutData DEF Next

LEMMA DataInvariant ==
    ASSUME Initializers = {}
    PROVE  Spec => [](FileInv /\ DataInv)
<1>1. FileInv /\ DataInv /\ [Next]_vars => DataInv'
  BY DataStep
<1> QED BY <1>1, DataInit, FileInvariant, PTL DEF Spec

-----------------------------------------------------------------------------
(* The file as one atomic value.                                           *)

\* The reclaim pass over a store that still has its lease.
Reclaimed(c) == [c EXCEPT !.leased = FALSE, !.expiries = @ + 1]

\* A store as a reader may find it: the lease it started with is held or has
\* expired once.
Consistent(c) ==
    IF Existing
    THEN (c.leased = TRUE /\ c.expiries = 0) \/ (c.leased = FALSE /\ c.expiries = 1)
    ELSE c.leased = FALSE /\ c.expiries = 0

\* Store c is store f after the transaction o, or after the reclaim pass alone.
Added(c, f, o) ==
    /\ o \notin f.ops
    /\ \/ c = [f EXCEPT !.ops = @ \cup {o}]
       \/ f.leased = TRUE /\ c = [Reclaimed(f) EXCEPT !.ops = @ \cup {o}]

Expired(c, f) == f.leased = TRUE /\ c = Reclaimed(f)

\* What p is about to put in place of the file is the file's own successor, and
\* the calls that p has not made yet have left no trace.
Prepared(p) ==
    /\ pc[p] \in Unsaved =>
           \/ call[p] = "update" /\ Added(local[p], file.data, <<p, op[p]>>)
           \/ Expired(local[p], file.data)
    /\ pc[p] \in {"want exclusive", "reading"} /\ call[p] = "update" =>
           <<p, op[p]>> \notin file.data.ops
    /\ \A n \in 1..MaxOps : n > op[p] =>
           <<p, n>> \notin file.data.ops /\ <<p, n>> \notin disk.data.ops

\* Stable storage lags behind the file by whole transactions.
Lag ==
    /\ disk.data.ops \subseteq file.data.ops
    /\ file.data.leased = TRUE => disk.data.leased = TRUE

StepInv == Consistent(file.data) /\ Consistent(disk.data) /\ Lag /\ \A p \in Proc : Prepared(p)

LEMMA ReclaimedContent ==
    ASSUME NEW f \in Content, Consistent(f), f.leased = TRUE
    PROVE  /\ Reclaimed(f) \in Content /\ Consistent(Reclaimed(f))
           /\ Reclaimed(f).ops = f.ops /\ Reclaimed(f).leased = FALSE
<1>1. Existing /\ f.expiries + 1 = 1
  BY DEF Consistent
<1> DEFINE d == [f EXCEPT !.leased = FALSE, !.expiries = 1]
<1>2. d \in Content /\ d.ops = f.ops /\ d.leased = FALSE /\ d.expiries = 1
  BY DEF Content
<1>3. Reclaimed(f) = d
  BY <1>1 DEF Reclaimed
<1> HIDE DEF d
<1>4. Consistent(d)
  BY <1>1, <1>2 DEF Consistent
<1> QED BY <1>2, <1>3, <1>4

LEMMA AddedTo ==
    ASSUME NEW f \in Content, Consistent(f), NEW s \in SUBSET Op
    PROVE  /\ Consistent([f EXCEPT !.ops = @ \cup s])
           /\ [f EXCEPT !.ops = @ \cup s].ops = f.ops \cup s
           /\ [f EXCEPT !.ops = @ \cup s].leased = f.leased
<1> DEFINE d == [f EXCEPT !.ops = @ \cup s]
<1>1. d.ops = f.ops \cup s /\ d.leased = f.leased /\ d.expiries = f.expiries
  BY DEF Content
<1> HIDE DEF d
<1>2. Consistent(d)
  BY <1>1 DEF Consistent
<1> QED BY <1>1, <1>2 DEF d

\* A successor of a consistent store is consistent.
LEMMA Successor ==
    ASSUME NEW f \in Content, Consistent(f), NEW o \in Op, NEW c,
           Added(c, f, o) \/ Expired(c, f)
    PROVE  /\ Consistent(c) /\ f.ops \subseteq c.ops /\ c.ops \subseteq f.ops \cup {o}
           /\ c.leased = TRUE => f.leased = TRUE
<1>1. CASE Expired(c, f)
  BY <1>1, ReclaimedContent DEF Expired
<1>2. ASSUME NEW g \in Content, Consistent(g), c = [g EXCEPT !.ops = @ \cup {o}]
      PROVE  Consistent(c) /\ c.ops = g.ops \cup {o} /\ c.leased = g.leased
  <2>1. {o} \in SUBSET Op
    OBVIOUS
  <2> QED BY ONLY <1>2, <2>1, AddedTo
<1>3. CASE Added(c, f, o)
  <2>1. CASE c = [f EXCEPT !.ops = @ \cup {o}]
    <3>1. Consistent(c) /\ c.ops = f.ops \cup {o} /\ c.leased = f.leased
      BY <1>2, <2>1
    <3> QED BY <3>1
  <2>2. CASE f.leased = TRUE /\ c = [Reclaimed(f) EXCEPT !.ops = @ \cup {o}]
    <3>1. Consistent(c) /\ c.ops = Reclaimed(f).ops \cup {o}
      BY <1>2, <2>2, ReclaimedContent
    <3> QED BY <2>2, <3>1, ReclaimedContent
  <2> QED BY <1>3, <2>1, <2>2 DEF Added
<1> QED BY <1>1, <1>3

LEMMA QuietPrepared ==
    ASSUME StepInv, NEW p \in Proc, UNCHANGED <<file, disk>>,
           \A q \in Proc \ {p} : SameAt(q), Prepared(p)'
    PROVE  StepInv'
<1>1. ASSUME NEW q \in Proc \ {p} PROVE Prepared(q)'
  <2>1. Prepared(q) /\ SameAt(q)
    BY DEF StepInv
  <2> QED BY <2>1 DEF Prepared, SameAt
<1> QED BY <1>1 DEF StepInv, Lag

\* A process that has nothing to put in place of the file, and no call that is
\* still to be executed, is prepared.
LEMMA AtRest ==
    ASSUME StepInv, NEW p \in Proc, UNCHANGED <<file, disk>>,
           \A q \in Proc \ {p} : SameAt(q), op'[p] = op[p], pc'[p] \notin Unsaved,
           pc'[p] \notin {"want exclusive", "reading"} \/ call'[p] # "update"
    PROVE  StepInv'
<1>1. Prepared(p)'
  <2>1. Prepared(p)
    BY DEF StepInv
  <2> QED BY <2>1 DEF Prepared
<1> QED BY <1>1, QuietPrepared

LEMMA BeginStep ==
    ASSUME Initializers = {}, FileInv, StepInv, NEW p \in Proc, Begin(p)
    PROVE  StepInv'
<1>1. UNCHANGED <<file, disk>>
  BY DEF Begin, StartUpdate, StartQuery, StartInit, Start
<1>2. CASE StartUpdate(p)
  <2>1. op \in [Proc -> 0..MaxOps] /\ op[p] < MaxOps /\ op' = [op EXCEPT ![p] = @ + 1]
    BY <1>2 DEF StartUpdate, FileInv, TypeOK
  <2>2. /\ op'[p] \in 1..MaxOps /\ op'[p] > op[p] /\ \A n \in 1..MaxOps : n > op'[p] => n > op[p]
        /\ \A q \in Proc \ {p} : op'[q] = op[q]
    BY <2>1, StoreFileAssumption
  <2>3. \A q \in Proc \ {p} : SameAt(q)
    BY <1>2, <2>2 DEF StartUpdate, Start, Goto, SameAt, FileInv, TypeOK
  <2>4. pc'[p] = "want exclusive"
    BY <1>2 DEF StartUpdate, Start, Goto, FileInv, TypeOK
  <2>5. Prepared(p)
    BY DEF StepInv
  <2>6. Prepared(p)'
    BY <1>1, <2>2, <2>4, <2>5 DEF Prepared, Unsaved
  <2> QED BY <1>1, <2>3, <2>6, QuietPrepared
<1>3. CASE StartQuery(p)
  <2>1. pc'[p] = "want shared" /\ op' = op /\ \A q \in Proc \ {p} : SameAt(q)
    BY <1>3 DEF StartQuery, Start, Goto, SameAt, FileInv, TypeOK
  <2> QED BY <1>1, <2>1, AtRest DEF Unsaved
<1> QED BY <1>2, <1>3 DEF Begin, StartInit

LEMMA WaitStep ==
    ASSUME FileInv, DataInv, StepInv, NEW p \in Proc,
           LockShared(p) \/ LockExclusive(p) \/ LockFails(p) \/ ReadShared(p) \/ ReadFails(p)
    PROVE  StepInv'
<1>1. UNCHANGED <<file, disk, call, op>> /\ call[p] # "init"
  BY DEF LockShared, LockExclusive, LockFails, ReadShared, ReadFails, DataInv, Carries
<1>2. \A q \in Proc \ {p} : SameAt(q)
  BY <1>1 DEF LockShared, LockExclusive, LockFails, ReadShared, ReadFails, Return, Goto, SameAt, FileInv, TypeOK
<1>3. CASE LockExclusive(p)
  <2>1. pc'[p] = "reading" /\ pc[p] = "want exclusive"
    BY <1>1, <1>3 DEF LockExclusive, Goto, FileInv, TypeOK
  <2>2. Prepared(p)
    BY DEF StepInv
  <2>3. Prepared(p)'
    BY <1>1, <2>1, <2>2 DEF Prepared, Unsaved
  <2> QED BY <1>1, <1>2, <2>3, QuietPrepared
<1>4. CASE LockShared(p)
  <2>1. pc'[p] = "reading" /\ call[p] = "query"
    BY <1>4 DEF LockShared, Goto, FileInv, TypeOK, Discipline
  <2> QED BY <1>1, <1>2, <2>1, AtRest DEF Unsaved
<1>5. CASE LockFails(p) \/ ReadFails(p)
  <2>1. pc'[p] = "leaving"
    BY <1>5 DEF LockFails, ReadFails, Return, Goto, FileInv, TypeOK
  <2> QED BY <1>1, <1>2, <2>1, AtRest DEF Unsaved
<1>6. CASE ReadShared(p)
  <2>1. pc'[p] \in {"want exclusive", "leaving"} /\ call[p] # "update"
    BY <1>6 DEF ReadShared, Goto, FileInv, TypeOK, Discipline
  <2> QED BY <1>1, <1>2, <2>1, AtRest DEF Unsaved
<1> QED BY <1>3, <1>4, <1>5, <1>6

LEMMA InMemoryStep ==
    ASSUME FileInv, StepInv, NEW p \in Proc, NEW c, local' = [local EXCEPT ![p] = c],
           (call[p] = "update" /\ Added(c, file.data, <<p, op[p]>>)) \/ Expired(c, file.data),
           pc' = [pc EXCEPT ![p] = "creating"],
           verdict' \in {verdict, [verdict EXCEPT ![p] = "error"]},
           UNCHANGED <<file, disk, call, op>>
    PROVE  StepInv'
<1>1. \A q \in Proc \ {p} : SameAt(q)
  BY DEF SameAt, FileInv, TypeOK
<1>2. local'[p] = c /\ pc'[p] = "creating"
  BY DEF FileInv, TypeOK
<1>3. Prepared(p)
  BY DEF StepInv
<1>4. Prepared(p)'
  BY <1>2, <1>3 DEF Prepared
<1> QED BY <1>1, <1>4, QuietPrepared

\* What the reclaim pass makes of the file.
LEMMA CleanCases ==
    ASSUME FileInv
    PROVE  \/ Lapsed(file.data) /\ file.data.leased = TRUE
              /\ CleanExpiredLeases(file.data) = Reclaimed(file.data)
           \/ ~Lapsed(file.data) /\ CleanExpiredLeases(file.data) = file.data
<1>1. file.data.leased \in BOOLEAN
  BY FileContent DEF Content
<1>2. CASE Lapsed(file.data)
  <2>1. file.data.leased = TRUE
    BY <1>1, <1>2 DEF Lapsed
  <2>2. CleanExpiredLeases(file.data) = Reclaimed(file.data)
    BY <1>2 DEF CleanExpiredLeases, Reclaimed
  <2> QED BY <1>2, <2>1, <2>2
<1>3. CASE ~Lapsed(file.data)
  BY <1>3 DEF CleanExpiredLeases
<1> QED BY <1>2, <1>3

LEMMA MutateStep ==
    ASSUME FileInv, StepInv, NEW p \in Proc,
           ReclaimUnderLock(p) \/ Mutate(p) \/ MutateFails(p)
    PROVE  StepInv'
<1> DEFINE f == file.data
           c == CleanExpiredLeases(f)
           o == <<p, op[p]>>
           Half(s) == [c EXCEPT !.ops = @ \cup s]
<1>1. f \in Content /\ c \in Content
  BY FileContent, CleanContent
<1>2. UNCHANGED <<file, disk, call, op>> /\ pc[p] = "reading"
  BY DEF ReclaimUnderLock, Mutate, MutateFails
<1>3. call[p] = "update" => o \notin f.ops
  BY <1>2 DEF StepInv, Prepared
<1>4. call[p] = "update" => Added(Half({o}), f, o)
  <2>1. CASE c = f
    BY <1>3, <2>1 DEF Added
  <2>2. CASE f.leased = TRUE /\ c = Reclaimed(f)
    BY <1>3, <2>2 DEF Added
  <2> HIDE DEF f, c, o
  <2> QED BY <2>1, <2>2, CleanCases DEF f, c
<1>5. Half({}) = c
  BY <1>1 DEF Content
<1>6. Lapsed(f) => Expired(c, f)
  BY CleanCases DEF Expired
<1>7. CASE pc' = [pc EXCEPT ![p] = "leaving"]
  <2>1. /\ local' \in {[local EXCEPT ![p] = local'[p]]}
        /\ verdict' \in {verdict, [verdict EXCEPT ![p] = "error"]}
    BY DEF ReclaimUnderLock, Mutate, MutateFails, FileInv, TypeOK
  <2>2. pc'[p] = "leaving" /\ \A q \in Proc \ {p} : SameAt(q)
    BY <1>2, <1>7, <2>1 DEF SameAt, FileInv, TypeOK
  <2> QED BY <1>2, <2>2, AtRest DEF Unsaved
<1>8. CASE pc' = [pc EXCEPT ![p] = "creating"]
  <2>0. "creating" # "leaving" /\ pc'[p] = "creating"
    BY <1>8 DEF FileInv, TypeOK
  <2>1. CASE ReclaimUnderLock(p)
    <3>1. local' = [local EXCEPT ![p] = c] /\ verdict' = verdict
      BY <2>1 DEF ReclaimUnderLock, Reread
    <3>2. Lapsed(f)
      BY <2>0, <2>1 DEF ReclaimUnderLock, Reread, Goto, FileInv, TypeOK
    <3> HIDE DEF f, c
    <3> QED BY <1>2, <1>6, <1>8, <3>1, <3>2, InMemoryStep DEF f
  <2>2. CASE Mutate(p)
    <3>1. local' = [local EXCEPT ![p] = Half({o})] /\ verdict' = verdict /\ call[p] = "update"
      BY <2>2 DEF Mutate
    <3> HIDE DEF f, c, Half, o
    <3> QED BY <1>2, <1>4, <1>8, <3>1, InMemoryStep DEF f, o
  <2>3. CASE MutateFails(p)
    <3>1. PICK s \in {{}, {o}} : local' = [local EXCEPT ![p] = Half(s)]
      BY <2>3 DEF MutateFails
    <3>2. verdict' = [verdict EXCEPT ![p] = "error"] /\ call[p] = "update"
      BY <2>3 DEF MutateFails
    <3>3. Lapsed(f)
      BY <2>0, <2>3 DEF MutateFails, Goto, FileInv, TypeOK
    <3> HIDE DEF f, c, Half, o
    <3>4. CASE s = {}
      BY <1>2, <1>5, <1>6, <1>8, <3>1, <3>2, <3>3, <3>4, InMemoryStep DEF f
    <3>5. CASE s = {o}
      BY <1>2, <1>4, <1>8, <3>1, <3>2, <3>5, InMemoryStep DEF f, o
    <3> QED BY <3>1, <3>4, <3>5
  <2> QED BY <2>1, <2>2, <2>3
<1> QED BY <1>7, <1>8 DEF ReclaimUnderLock, Mutate, MutateFails, Goto

LEMMA TmpStep ==
    ASSUME FileInv, StepInv, NEW p \in Proc,
           Create(p) \/ Write(p) \/ Flush(p) \/ SaveFails(p) \/ DoctorFix(p)
    PROVE  StepInv'
<1>1. UNCHANGED <<file, disk, call, op, local>>
  BY DEF Create, Write, Flush, SaveFails, DoctorFix
<1>2. \A q \in Proc \ {p} : SameAt(q)
  BY <1>1 DEF Create, Write, Flush, SaveFails, DoctorFix, Return, Goto, SameAt, FileInv, TypeOK
<1>3. Prepared(p)
  BY DEF StepInv
<1>4. CASE Create(p) \/ Write(p) \/ Flush(p)
  <2>1. pc[p] \in Unsaved /\ pc'[p] \in Unsaved
    BY <1>4 DEF Create, Write, Flush, Goto, Unsaved, FileInv, TypeOK
  <2>2. Prepared(p)'
    BY <1>1, <1>3, <2>1 DEF Prepared, Unsaved
  <2> QED BY <1>1, <1>2, <2>2, QuietPrepared
<1>5. CASE SaveFails(p)
  <2>1. pc'[p] = "leaving"
    BY <1>1, <1>5 DEF SaveFails, Return, Goto, FileInv, TypeOK
  <2> QED BY <1>1, <1>2, <2>1, AtRest DEF Unsaved
<1>6. CASE DoctorFix(p)
  <2>1. pc' = pc
    BY <1>6 DEF DoctorFix
  <2>2. Prepared(p)'
    BY <1>1, <1>3, <2>1 DEF Prepared
  <2> QED BY <1>1, <1>2, <2>2, QuietPrepared
<1> QED BY <1>4, <1>5, <1>6

LEMMA EndStep ==
    ASSUME FileInv, StepInv, NEW p \in Proc, Leave(p) \/ Kill(p)
    PROVE  StepInv'
<1>1. /\ pc' = [pc EXCEPT ![p] = "idle"]
      /\ call' = [call EXCEPT ![p] = "none"] /\ local' = [local EXCEPT ![p] = Fresh]
      /\ UNCHANGED <<file, disk, op, verdict>>
  BY DEF Leave, Kill, Goto
<1>2. pc'[p] = "idle" /\ \A q \in Proc \ {p} : SameAt(q)
  BY <1>1 DEF FileInv, TypeOK, SameAt
<1> QED BY <1>1, <1>2, AtRest DEF Unsaved

\* At its rename a process puts the successor of the file in the file's place.
LEMMA RenameSuccessor ==
    ASSUME FileInv, StepInv, NEW p \in Proc, Rename(p)
    PROVE  /\ \/ <<p, op[p]>> \in Op /\ Added(file'.data, file.data, <<p, op[p]>>)
              \/ Expired(file'.data, file.data)
           /\ Consistent(file'.data)
           /\ file.data.ops \subseteq file'.data.ops
           /\ file'.data.ops \subseteq file.data.ops \cup {<<p, op[p]>>}
           /\ file'.data.leased = TRUE => file.data.leased = TRUE
<1>1. pc[p] = "renaming" /\ file'.data = local[p]
  BY DEF Rename
<1>2. \/ call[p] = "update" /\ Added(file'.data, file.data, <<p, op[p]>>)
      \/ Expired(file'.data, file.data)
  BY <1>1 DEF StepInv, Prepared, Unsaved
<1>3. call[p] = "update" => <<p, op[p]>> \in Op
  BY DEF FileInv, Numbered, Op
<1>4. file.data \in Content /\ Consistent(file.data)
  BY FileContent DEF StepInv
<1>5. CASE Expired(file'.data, file.data)
  <2>1. file.data.leased = TRUE /\ file'.data = Reclaimed(file.data)
    BY <1>5 DEF Expired
  <2>2. /\ Consistent(file'.data) /\ file'.data.ops = file.data.ops
        /\ file'.data.leased = FALSE
    BY <1>4, <2>1, ReclaimedContent
  <2> QED BY <1>5, <2>2
<1>6. CASE call[p] = "update" /\ Added(file'.data, file.data, <<p, op[p]>>)
  <2> DEFINE o == <<p, op[p]>>
             c == file'.data
             f == file.data
  <2>1. o \in Op /\ f \in Content /\ Consistent(f) /\ Added(c, f, o)
    BY <1>3, <1>4, <1>6
  <2> HIDE DEF o, c, f
  <2>2. /\ Consistent(c) /\ f.ops \subseteq c.ops /\ c.ops \subseteq f.ops \cup {o}
        /\ c.leased = TRUE => f.leased = TRUE
    BY <2>1, Successor
  <2> QED BY <2>1, <2>2 DEF o, c, f
<1> QED BY <1>2, <1>5, <1>6

LEMMA RenameStep ==
    ASSUME FileInv, StepInv, NEW p \in Proc, Rename(p)
    PROVE  StepInv'
<1>1. /\ pc[p] = "renaming" /\ pc' = [pc EXCEPT ![p] = "syncing"]
      /\ UNCHANGED <<disk, call, op, local>>
  BY DEF Rename, Goto
<1>2. pc'[p] = "syncing" /\ \A q \in Proc \ {p} : pc'[q] = pc[q]
  BY <1>1 DEF FileInv, TypeOK
<1>3. \A q \in Proc \ {p} : pc[q] \notin Unsaved
  <2>1. \A q \in Proc \ {p} : held[q] = "none"
    BY <1>1 DEF FileInv, Exclusion, Discipline, SaveStage
  <2> QED BY <2>1 DEF FileInv, Discipline, SaveStage, Unsaved
<1>4. \A q \in Proc, n \in 1..MaxOps : n > op[q] => <<q, n>> \notin file'.data.ops
  <2>1. op[p] \in 0..MaxOps
    BY DEF FileInv, TypeOK
  <2>2. \A n \in 1..MaxOps : n > op[p] => n # op[p]
    BY <2>1, StoreFileAssumption
  <2> QED BY <2>2, RenameSuccessor DEF StepInv, Prepared
<1>5. ASSUME NEW q \in Proc PROVE Prepared(q)'
  <2>1. Prepared(q)
    BY DEF StepInv
  <2>2. pc'[q] \notin Unsaved
    BY <1>2, <1>3 DEF Unsaved
  <2>3. pc'[q] \in {"want exclusive", "reading"} => q # p /\ pc'[q] = pc[q]
    BY <1>2
  <2> QED BY <1>1, <1>4, <2>1, <2>2, <2>3, RenameSuccessor DEF Prepared
<1>6. Lag'
  BY <1>1, RenameSuccessor DEF StepInv, Lag
<1> QED BY <1>1, <1>5, <1>6, RenameSuccessor DEF StepInv

LEMMA SyncDirStep ==
    ASSUME FileInv, StepInv, NEW p \in Proc, SyncDir(p)
    PROVE  StepInv'
<1>1. disk' = file /\ pc' = [pc EXCEPT ![p] = "leaving"] /\ UNCHANGED <<file, call, op, local>>
  BY DEF SyncDir, Goto, DirectoryOnDisk
<1>2. pc'[p] = "leaving" /\ \A q \in Proc \ {p} : pc'[q] = pc[q]
  BY <1>1 DEF FileInv, TypeOK
<1>3. ASSUME NEW q \in Proc PROVE Prepared(q)'
  <2>1. Prepared(q)
    BY DEF StepInv
  <2>2. pc'[q] = pc[q] \/ pc'[q] \notin Unsaved \cup {"want exclusive", "reading"}
    BY <1>2 DEF Unsaved
  <2> QED BY <1>1, <2>1, <2>2 DEF Prepared
<1> QED BY <1>1, <1>3 DEF StepInv, Lag

LEMMA PowerLossFiles == FileInv /\ PowerLoss => \E e \in {file, disk} : file' = e /\ disk' = e
BY DEF PowerLoss, Survives, FileInv, NeverTorn

LEMMA PowerLossStep == FileInv /\ StepInv /\ PowerLoss => StepInv'
<1> SUFFICES ASSUME FileInv, StepInv, PowerLoss PROVE StepInv'
  OBVIOUS
<1>1. PICK e \in {file, disk} : file' = e /\ disk' = e
  BY PowerLossFiles
<1>2. pc' = [p \in Proc |-> "idle"] /\ op' = op
  BY DEF PowerLoss
<1>3. ASSUME NEW p \in Proc PROVE Prepared(p)'
  <2>1. Prepared(p) /\ pc'[p] = "idle"
    BY <1>2 DEF StepInv
  <2> QED BY <1>1, <1>2, <2>1 DEF Prepared, Unsaved
<1> QED BY <1>1, <1>3 DEF StepInv, Lag

LEMMA StepInit == Init => StepInv
<1> SUFFICES ASSUME Init PROVE StepInv
  OBVIOUS
<1>1. disk = file /\ file.data.ops = {} /\ Consistent(file.data)
  BY DEF Init, Seed, Absent, Fresh, Consistent
<1>2. \A p \in Proc : pc[p] = "idle"
  BY DEF Init
<1> QED BY <1>1, <1>2 DEF StepInv, Lag, Prepared, Unsaved

LEMMA StepStep ==
    ASSUME Initializers = {}
    PROVE  FileInv /\ DataInv /\ StepInv /\ [Next]_vars => StepInv'
<1> SUFFICES ASSUME FileInv, DataInv, StepInv, [Next]_vars PROVE StepInv'
  OBVIOUS
<1>1. CASE UNCHANGED vars \/ LeaseRunsOut
  <2>1. UNCHANGED <<file, disk, pc, call, op, local>>
    BY <1>1 DEF vars, LeaseRunsOut
  <2> QED BY <2>1 DEF StepInv, Lag, Prepared
<1>2. ASSUME NEW p \in Proc, Check(p) PROVE StepInv'
  BY <1>2 DEF Check, FileInv, Discipline, DataInv, Carries
<1>3. ASSUME NEW p \in Proc, Work(p) PROVE StepInv'
  BY <1>2, <1>3, WaitStep, MutateStep, TmpStep, RenameStep, SyncDirStep, EndStep DEF Work
<1> QED BY <1>1, <1>3, BeginStep, EndStep, TmpStep, PowerLossStep DEF Next

-----------------------------------------------------------------------------

LEMMA AtomicInit == Init => Atomic!Init
<1> SUFFICES ASSUME Init PROVE Atomic!Init
  OBVIOUS
<1>1. PICK held0 \in BOOLEAN : file.data = [ops |-> {}, leased |-> held0, expiries |-> 0]
  BY DEF Init, Seed, Absent, Fresh
<1>2. acked = {}
  BY DEF Init
<1> QED BY <1>1, <1>2 DEF Atomic!Init

\* Each step is a step of AtomicStore or none: a rename is a transaction or an
\* expiry, the end of a call an acknowledgement, a power loss a reversal.
LEMMA AtomicStep ==
    ASSUME Initializers = {}
    PROVE  FileInv /\ DataInv /\ StepInv /\ [Next]_vars => [Atomic!Next]_(Atomic!vars)
<1> SUFFICES ASSUME FileInv, DataInv, StepInv, [Next]_vars PROVE [Atomic!Next]_(Atomic!vars)
  OBVIOUS
<1>1. UNCHANGED <<file, acked>> => UNCHANGED Atomic!vars
  BY DEF Atomic!vars
<1>2. ASSUME NEW p \in Proc, Rename(p) PROVE Atomic!Next
  <2>1. acked' = acked
    BY <1>2 DEF Rename
  <2>2. CASE Expired(file'.data, file.data)
    BY <2>1, <2>2 DEF Expired, Reclaimed, Atomic!Next, Atomic!Expire, Atomic!Reclaim
  <2>3. CASE <<p, op[p]>> \in Op /\ Added(file'.data, file.data, <<p, op[p]>>)
    <3>1. Atomic!Apply(<<p, op[p]>>)
      BY <2>1, <2>3 DEF Added, Reclaimed, Atomic!Apply, Atomic!Reclaim
    <3> QED BY <2>3, <3>1 DEF Atomic!Next
  <2> QED BY <1>2, <2>2, <2>3, RenameSuccessor
<1>3. ASSUME NEW p \in Proc, Leave(p) PROVE Atomic!Next \/ UNCHANGED Atomic!vars
  <2>1. file' = file
    BY <1>3 DEF Leave
  <2>2. CASE ~Promised(p)
    BY <1>1, <1>3, <2>1, <2>2 DEF Leave, Promised
  <2>3. CASE Promised(p)
    <3>1. <<p, op[p]>> \in Op
      BY <2>3 DEF Promised, FileInv, Numbered, Op
    <3>2. <<p, op[p]>> \in file.data.ops
      BY <1>3, <2>3 DEF Leave, DataInv, Carries
    <3>3. acked' = acked \cup {<<p, op[p]>>}
      BY <1>3, <2>3 DEF Leave, Promised
    <3> QED BY <2>1, <3>1, <3>2, <3>3 DEF Atomic!Next, Atomic!Ack
  <2> QED BY <2>2, <2>3
<1>4. CASE PowerLoss
  <2>1. PICK e \in {file, disk} : file' = e
    BY <1>4, PowerLossFiles
  <2>2. acked' = acked /\ acked \subseteq e.data.ops
    BY <1>4, <2>1 DEF PowerLoss, DataInv, NoLostUpdate, AckedIsDurable
  <2>3. e.data.ops \subseteq file.data.ops
    BY <2>1 DEF StepInv, Lag
  <2>4. /\ e.data.expiries <= file.data.expiries
        /\ e.data.leased <=> file.data.leased \/ e.data.expiries < file.data.expiries
    BY <2>1 DEF StepInv, Lag, Consistent
  <2> QED BY <2>1, <2>2, <2>3, <2>4 DEF Atomic!Next, Atomic!Revert
<1>5. ASSUME NEW p \in Proc, Work(p) PROVE Rename(p) \/ Leave(p) \/ UNCHANGED <<file, acked>>
  BY <1>5 DEF Work, Check, LockShared, LockExclusive, LockFails, ReadShared, ReclaimUnderLock,
     Mutate, MutateFails, ReadFails, Create, Write, Flush, SyncDir, SaveFails
<1>6. ASSUME NEW p \in Proc, Begin(p) \/ Kill(p) \/ DoctorFix(p) PROVE UNCHANGED <<file, acked>>
  BY <1>6 DEF Begin, StartUpdate, StartQuery, StartInit, Start, Kill, DoctorFix
<1>7. CASE UNCHANGED vars \/ LeaseRunsOut
  BY <1>1, <1>7 DEF vars, LeaseRunsOut
<1> QED BY <1>1, <1>2, <1>3, <1>4, <1>5, <1>6, <1>7 DEF Next

-----------------------------------------------------------------------------

(***************************************************************************)
(* The state of the lock, the file and the processes is always well formed.*)
(***************************************************************************)
THEOREM StoreFileTypeCorrect == Spec => []TypeOK
BY FileInvariant, PTL DEF FileInv

(***************************************************************************)
(* writeStore never makes an incomplete file visible, whichever of its     *)
(* steps fails or is cut short by a kill or a power loss.                  *)
(***************************************************************************)
THEOREM FileNeverTorn == Spec => []NeverTorn
BY FileInvariant, PTL DEF FileInv

(***************************************************************************)
(* LoadCurrent and Update record the expiry of a lease once between them,  *)
(* because the reclaim works on what is read under the exclusive lock.     *)
(***************************************************************************)
THEOREM LeaseExpiresOnce == Spec => []ExpiredOnce
<1>1. FileInv => ExpiredOnce
  BY DEF FileInv, Leases, OneLease, ExpiredOnce
<1> QED BY <1>1, FileInvariant, PTL

(***************************************************************************)
(* Where nobody runs init, store.Update loses no operation it reported as  *)
(* done to a later writer, nor to a power loss.                            *)
(***************************************************************************)
THEOREM UpdatesAreKept ==
    ASSUME Initializers = {}
    PROVE  Spec => []NoLostUpdate
<1>1. DataInv => NoLostUpdate
  BY DEF DataInv
<1> QED BY <1>1, DataInvariant, PTL

(***************************************************************************)
(* Where nobody runs init, what store.Update reported as done is on stable *)
(* storage: writeStore syncs the directory before it returns.              *)
(***************************************************************************)
THEOREM AcksAreDurable ==
    ASSUME Initializers = {}
    PROVE  Spec => []AckedIsDurable
<1>1. DataInv => AckedIsDurable
  BY DEF DataInv
<1> QED BY <1>1, DataInvariant, PTL

(***************************************************************************)
(* Where nobody runs init, the lock, the re-read and the rename make       *)
(* store.Update and store.LoadCurrent transactions on one atomic value.    *)
(***************************************************************************)
THEOREM FileIsAtomic ==
    ASSUME Initializers = {}
    PROVE  Spec => ImplementsAtomicStore
<1>1. FileInv /\ DataInv /\ StepInv /\ [Next]_vars => StepInv'
  BY StepStep
<1>2. FileInv /\ DataInv /\ StepInv /\ [Next]_vars => [Atomic!Next]_(Atomic!vars)
  BY AtomicStep
<1> QED BY <1>1, <1>2, StepInit, AtomicInit, DataInvariant, PTL
        DEF Spec, Atomic!Spec, ImplementsAtomicStore

=============================================================================
