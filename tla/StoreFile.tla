----------------------------- MODULE StoreFile -----------------------------
(***************************************************************************)
(* Processes that share tasks.bin: the lock sidecar, the read-modify-write *)
(* of store.Update, the check and re-read of store.LoadCurrent, the        *)
(* unlocked check of init, and the steps of writeStore (temporary file,    *)
(* fsync, rename, fsync of the directory), any of which can fail, with     *)
(* killed processes and power losses between them.                         *)
(*                                                                         *)
(* The contents of the store are abstracted to the set of operations it    *)
(* holds and one lease that expires; Board says what an operation does.    *)
(* The file system is the visible name tasks.bin, the directory entry that *)
(* is on stable storage, and one temporary file per process.               *)
(*                                                                         *)
(* An operator named Faulty... is a wrong variant of the operator after    *)
(* it, to test the properties with; no specification uses one.             *)
(***************************************************************************)
EXTENDS Integers, FiniteSets

CONSTANTS
    Proc,          \* processes: CLI commands and servers
    MaxOps,        \* bound: calls of Update per process
    Initializers,  \* processes that may run init
    Existing,      \* whether tasks.bin exists at the start
    MaxLosses      \* bound: power losses

ASSUME StoreFileAssumption ==
    /\ MaxOps \in Nat /\ MaxLosses \in Nat
    /\ Initializers \subseteq Proc
    /\ Existing \in BOOLEAN

Op == Proc \X (1..MaxOps)

Content == [ops : SUBSET Op, leased : BOOLEAN, expiries : Nat]

\* What NewTaskStore returns.
Fresh == [ops |-> {}, leased |-> FALSE, expiries |-> 0]

\* A name points to no file, to a complete file whose bytes are or are not on
\* stable storage, or to a file that lost bytes.
Absent == [kind |-> "absent", data |-> Fresh]
Torn == [kind |-> "torn", data |-> Fresh]
Entry == [kind : {"absent", "torn", "cached", "flushed"}, data : Content]

VARIABLES
    file,     \* what the name tasks.bin points to, as the processes see it
    disk,     \* what it points to on stable storage
    held,     \* the lock each process holds on tasks.bin.lock
    pc,       \* where each process is
    call,     \* the call each process executes
    op,       \* calls of Update each process has started
    local,    \* the store each process has in memory
    tmp,      \* the state of each process's temporary file
    verdict,  \* what each process is going to return
    acked,    \* operations reported as done
    late,     \* the clock has passed the expiry of the lease
    losses    \* power losses so far

vars == <<file, disk, held, pc, call, op, local, tmp, verdict, acked, late, losses>>

Stage ==
    {"idle", "checking", "want shared", "want exclusive", "reading", "creating",
     "writing", "flushing", "renaming", "syncing", "leaving"}

TypeOK ==
    /\ file \in Entry /\ disk \in Entry
    /\ held \in [Proc -> {"none", "shared", "exclusive"}]
    /\ pc \in [Proc -> Stage]
    /\ call \in [Proc -> {"none", "update", "query", "init"}]
    /\ op \in [Proc -> 0..MaxOps]
    /\ local \in [Proc -> Content]
    /\ tmp \in [Proc -> {"none", "empty", "cached", "flushed"}]
    /\ verdict \in [Proc -> {"ok", "error"}]
    /\ acked \subseteq Op
    /\ late \in BOOLEAN
    /\ losses \in 0..MaxLosses

Seed == [ops |-> {}, leased |-> TRUE, expiries |-> 0]

Init ==
    /\ file = IF Existing THEN [kind |-> "flushed", data |-> Seed] ELSE Absent
    /\ disk = file
    /\ held = [p \in Proc |-> "none"]
    /\ pc = [p \in Proc |-> "idle"]
    /\ call = [p \in Proc |-> "none"]
    /\ op = [p \in Proc |-> 0]
    /\ local = [p \in Proc |-> Fresh]
    /\ tmp = [p \in Proc |-> "none"]
    /\ verdict = [p \in Proc |-> "ok"]
    /\ acked = {}
    /\ late = FALSE
    /\ losses = 0

-----------------------------------------------------------------------------

Lapsed(c) == c.leased /\ late

CleanExpiredLeases(c) ==
    IF Lapsed(c) THEN [c EXCEPT !.leased = FALSE, !.expiries = @ + 1] ELSE c

Goto(p, stage) == pc' = [pc EXCEPT ![p] = stage]

Return(p, v) ==
    /\ Goto(p, "leaving")
    /\ verdict' = [verdict EXCEPT ![p] = v]

\* Starting a call.
Start(p, kind, stage) ==
    /\ pc[p] = "idle"
    /\ call' = [call EXCEPT ![p] = kind]
    /\ verdict' = [verdict EXCEPT ![p] = "ok"]
    /\ Goto(p, stage)
    /\ UNCHANGED <<file, disk, held, local, tmp, acked, late, losses>>

StartUpdate(p) ==
    /\ op[p] < MaxOps
    /\ op' = [op EXCEPT ![p] = @ + 1]
    /\ Start(p, "update", "want exclusive")

StartQuery(p) == Start(p, "query", "want shared") /\ UNCHANGED op

StartInit(p) == p \in Initializers /\ Start(p, "init", "checking") /\ UNCHANGED op

\* init looks for tasks.bin before it takes the lock.
Check(p) ==
    /\ pc[p] = "checking"
    /\ IF file.kind = "absent" THEN Goto(p, "want exclusive") ELSE Goto(p, "leaving")
    /\ UNCHANGED <<file, disk, held, call, op, local, tmp, verdict, acked, late, losses>>

-----------------------------------------------------------------------------
(* The lock.  A contender polls with a non-blocking flock every 10 ms; a   *)
(* failed attempt changes nothing, so only the successful one is a step.   *)

LockShared(p) ==
    /\ pc[p] = "want shared"
    /\ \A q \in Proc : held[q] # "exclusive"
    /\ held' = [held EXCEPT ![p] = "shared"]
    /\ Goto(p, "reading")
    /\ UNCHANGED <<file, disk, call, op, local, tmp, verdict, acked, late, losses>>

\* Wrong: readers are not waited for, and neither are writers.
FaultyExclusiveIsFree(p) == TRUE

ExclusiveIsFree(p) == \A q \in Proc : held[q] = "none"

\* init saves a new store without reading what is there.
LockExclusive(p) ==
    /\ pc[p] = "want exclusive"
    /\ ExclusiveIsFree(p)
    /\ held' = [held EXCEPT ![p] = "exclusive"]
    /\ IF call[p] = "init"
       THEN Goto(p, "creating") /\ local' = [local EXCEPT ![p] = Fresh]
       ELSE Goto(p, "reading") /\ UNCHANGED local
    /\ UNCHANGED <<file, disk, call, op, tmp, verdict, acked, late, losses>>

\* Wrong: an error path leaves without releasing.
FaultyReleased(p) == IF verdict[p] = "error" THEN held ELSE [held EXCEPT ![p] = "none"]

\* The deferred Release.
Released(p) == [held EXCEPT ![p] = "none"]

\* The operation is reported once the lock is free.
Leave(p) ==
    /\ pc[p] = "leaving"
    /\ held' = Released(p)
    /\ Goto(p, "idle")
    /\ call' = [call EXCEPT ![p] = "none"]
    /\ acked' = IF call[p] = "update" /\ verdict[p] = "ok"
                THEN acked \cup {<<p, op[p]>>} ELSE acked
    /\ local' = [local EXCEPT ![p] = Fresh]
    /\ UNCHANGED <<file, disk, op, tmp, verdict, late, losses>>

\* Opening or locking the sidecar fails.
LockFails(p) ==
    /\ pc[p] \in {"want shared", "want exclusive"}
    /\ Return(p, "error")
    /\ UNCHANGED <<file, disk, held, call, op, local, tmp, acked, late, losses>>

-----------------------------------------------------------------------------
(* Reading and mutating in memory.                                         *)

\* A query reads under the shared lock; if it finds an expired lease it lets
\* go of that lock and takes the exclusive one.
ReadShared(p) ==
    /\ pc[p] = "reading" /\ held[p] = "shared"
    /\ local' = [local EXCEPT ![p] = file.data]
    /\ file.kind # "torn"
    /\ IF Lapsed(file.data)
       THEN held' = Released(p) /\ Goto(p, "want exclusive")
       ELSE UNCHANGED held /\ Goto(p, "leaving")
    /\ UNCHANGED <<file, disk, call, op, tmp, verdict, acked, late, losses>>

\* Wrong: the snapshot taken under the shared lock.
FaultyReread(p) == local[p]

\* What a query works on under the exclusive lock.
Reread(p) == file.data

ReclaimUnderLock(p) ==
    /\ pc[p] = "reading" /\ held[p] = "exclusive" /\ call[p] = "query"
    /\ file.kind # "torn"
    /\ local' = [local EXCEPT ![p] = CleanExpiredLeases(Reread(p))]
    /\ IF Lapsed(Reread(p)) THEN Goto(p, "creating") ELSE Goto(p, "leaving")
    /\ UNCHANGED <<file, disk, held, call, op, tmp, verdict, acked, late, losses>>

\* The callback returned nil.
Mutate(p) ==
    /\ pc[p] = "reading" /\ call[p] = "update"
    /\ file.kind # "torn"
    /\ local' = [local EXCEPT ![p] =
           [CleanExpiredLeases(file.data) EXCEPT !.ops = @ \cup {<<p, op[p]>>}]]
    /\ Goto(p, "creating")
    /\ UNCHANGED <<file, disk, held, call, op, tmp, verdict, acked, late, losses>>

\* The callback failed, perhaps half-way; the store is written only if the
\* reclaim pass freed a lease.
MutateFails(p) ==
    /\ pc[p] = "reading" /\ call[p] = "update"
    /\ file.kind # "torn"
    /\ \E left \in {{}, {<<p, op[p]>>}} :
           local' = [local EXCEPT ![p] =
               [CleanExpiredLeases(file.data) EXCEPT !.ops = @ \cup left]]
    /\ IF Lapsed(file.data) THEN Goto(p, "creating") ELSE Goto(p, "leaving")
    /\ verdict' = [verdict EXCEPT ![p] = "error"]
    /\ UNCHANGED <<file, disk, held, call, op, tmp, acked, late, losses>>

\* An I/O error; a torn file does not decode.
ReadFails(p) ==
    /\ pc[p] = "reading"
    /\ Return(p, "error")
    /\ UNCHANGED <<file, disk, held, call, op, local, tmp, acked, late, losses>>

-----------------------------------------------------------------------------
(* writeStore.                                                             *)

SaveStage == {"creating", "writing", "flushing", "renaming", "syncing"}

Create(p) ==
    /\ pc[p] = "creating"
    /\ tmp' = [tmp EXCEPT ![p] = "empty"]
    /\ Goto(p, "writing")
    /\ UNCHANGED <<file, disk, held, call, op, local, verdict, acked, late, losses>>

Write(p) ==
    /\ pc[p] = "writing"
    /\ tmp' = [tmp EXCEPT ![p] = IF @ = "none" THEN @ ELSE "cached"]
    /\ Goto(p, "flushing")
    /\ UNCHANGED <<file, disk, held, call, op, local, verdict, acked, late, losses>>

\* Wrong: the bytes stay in the cache.
FaultyFlushed(t) == t

\* tmp.Sync
Flushed(t) == IF t = "none" THEN t ELSE "flushed"

Flush(p) ==
    /\ pc[p] = "flushing"
    /\ tmp' = [tmp EXCEPT ![p] = Flushed(@)]
    /\ Goto(p, "renaming")
    /\ UNCHANGED <<file, disk, held, call, op, local, verdict, acked, late, losses>>

HasTmp(p) == tmp[p] # "none"

\* The commit point; rename fails if the temporary file is gone.
Rename(p) ==
    /\ pc[p] = "renaming" /\ HasTmp(p)
    /\ file' = [kind |-> tmp[p], data |-> local[p]]
    /\ tmp' = [tmp EXCEPT ![p] = "none"]
    /\ Goto(p, "syncing")
    /\ UNCHANGED <<disk, held, call, op, local, verdict, acked, late, losses>>

\* Wrong: nothing, which is what it is on Windows.
FaultyDirectoryOnDisk == disk

\* fsutil.SyncDir on Unix.
DirectoryOnDisk == file

SyncDir(p) ==
    /\ pc[p] = "syncing"
    /\ disk' = DirectoryOnDisk
    /\ Goto(p, "leaving")
    /\ UNCHANGED <<file, held, call, op, local, tmp, verdict, acked, late, losses>>

\* Any step of writeStore can fail; the temporary file is removed.
SaveFails(p) ==
    /\ pc[p] \in SaveStage
    /\ tmp' = [tmp EXCEPT ![p] = "none"]
    /\ Return(p, "error")
    /\ UNCHANGED <<file, disk, held, call, op, local, acked, late, losses>>

-----------------------------------------------------------------------------
(* The environment.                                                        *)

\* A killed process loses its memory and its lock; its temporary file stays
\* behind under a name that no other process uses.
Kill(p) ==
    /\ pc[p] # "idle"
    /\ Goto(p, "idle")
    /\ held' = Released(p)
    /\ call' = [call EXCEPT ![p] = "none"]
    /\ local' = [local EXCEPT ![p] = Fresh]
    /\ tmp' = [tmp EXCEPT ![p] = "none"]
    /\ UNCHANGED <<file, disk, op, verdict, acked, late, losses>>

\* What a reboot finds under an entry: bytes that were only cached are lost.
Survives(e) == IF e.kind = "cached" THEN Torn ELSE e

PowerLoss ==
    /\ losses < MaxLosses
    /\ losses' = losses + 1
    /\ \E e \in {file, disk} : file' = Survives(e) /\ disk' = Survives(e)
    /\ pc' = [p \in Proc |-> "idle"]
    /\ held' = [p \in Proc |-> "none"]
    /\ call' = [p \in Proc |-> "none"]
    /\ local' = [p \in Proc |-> Fresh]
    /\ tmp' = [p \in Proc |-> "none"]
    /\ UNCHANGED <<op, verdict, acked, late>>

\* doctor --fix removes temporary files older than an hour, those of a
\* suspended writer included.
DoctorFix(p) ==
    /\ tmp[p] # "none"
    /\ tmp' = [tmp EXCEPT ![p] = "none"]
    /\ UNCHANGED <<file, disk, held, pc, call, op, local, verdict, acked, late, losses>>

LeaseRunsOut ==
    /\ ~late
    /\ late' = TRUE
    /\ UNCHANGED <<file, disk, held, pc, call, op, local, tmp, verdict, acked, losses>>

-----------------------------------------------------------------------------

Begin(p) == StartUpdate(p) \/ StartQuery(p) \/ StartInit(p)

Work(p) ==
    \/ Check(p)
    \/ LockShared(p) \/ LockExclusive(p) \/ LockFails(p)
    \/ ReadShared(p) \/ ReclaimUnderLock(p)
    \/ Mutate(p) \/ MutateFails(p) \/ ReadFails(p)
    \/ Create(p) \/ Write(p) \/ Flush(p) \/ Rename(p) \/ SyncDir(p) \/ SaveFails(p)
    \/ Leave(p)

Next ==
    \/ \E p \in Proc : Begin(p) \/ Work(p) \/ Kill(p) \/ DoctorFix(p)
    \/ PowerLoss
    \/ LeaseRunsOut

Spec == Init /\ [][Next]_vars

\* A process inside a call is scheduled until the call is over.
FairSpec == Spec /\ \A p \in Proc : WF_vars(Work(p))

-----------------------------------------------------------------------------
(* Properties.                                                             *)

(***************************************************************************)
(* No file a reader can open is incomplete, now or after a power loss at   *)
(* this moment: the bytes are flushed before the rename makes them visible.*)
(***************************************************************************)
NeverTorn == file.kind \in {"absent", "flushed"} /\ disk.kind \in {"absent", "flushed"}

(***************************************************************************)
(* No lost updates: an operation that was reported as done is in the store *)
(* every later reader sees, whoever wrote in between.                      *)
(***************************************************************************)
NoLostUpdate == acked \subseteq file.data.ops

(***************************************************************************)
(* An operation that was reported as done survives a power loss: the       *)
(* directory entry is on stable storage before the call returns.           *)
(***************************************************************************)
AckedIsDurable == acked \subseteq disk.data.ops

(***************************************************************************)
(* One expiry, one lease_expired event: queries that all saw the expired   *)
(* lease, and updates, reclaim it once between them.                       *)
(***************************************************************************)
ExpiredOnce == file.data.expiries <= 1

Atomic == INSTANCE AtomicStore WITH value <- file.data

(***************************************************************************)
(* The file behaves like one atomic value: every change adds one operation *)
(* to the value that was current, never to a stale one, and takes nothing  *)
(* away but what a power loss may.                                         *)
(***************************************************************************)
ImplementsAtomicStore == Atomic!Spec

(***************************************************************************)
(* No call keeps the lock: each error path of Update, LoadCurrent and      *)
(* writeStore gets to the deferred release, so nobody polls for ever on a  *)
(* lock whose holder is gone.                                              *)
(***************************************************************************)
LockIsReleased == \A p \in Proc : held[p] # "none" ~> held[p] = "none"
=============================================================================
