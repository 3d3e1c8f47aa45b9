--------------------------- MODULE RegistryProofs ---------------------------
(***************************************************************************)
(* Proofs about Registry: the locked read-modify-write makes every edit of *)
(* agents.json, repositories.json and config.json atomic, for any number   *)
(* of processes, agents, aliases, edits and failures.                      *)
(***************************************************************************)
EXTENDS Registry, TLAPS

-----------------------------------------------------------------------------
(* The callbacks.                                                          *)

FileType(f) ==
    CASE f = "agents"       -> [Agent -> Card]
      [] f = "repositories" -> [Alias -> Path \cup {NoPath}]
      [] f = "config"       -> [Key -> Limit]

(***************************************************************************)
(* The callback of a command leaves a value of the type of its file.       *)
(***************************************************************************)
LEMMA MutateType ==
  ASSUME NEW e \in Edit, NEW c \in FileType(e.file), NEW at \in Stamp
  PROVE  Mutate(c, e, at).data \in FileType(e.file)
<1>0. NoCard \in Card
  BY RegistryAssumption DEF NoCard, Card, Stamp
<1>1. CASE e \in Touch
  <2>1. e.kind = "touch" /\ e.file = "agents" /\ e.agent \in Agent /\ c \in [Agent -> Card]
    BY <1>1 DEF Touch, FileType
  <2>2. Registered(c, e.agent, at) \in Card
    BY <1>0, <2>1 DEF Registered, Card
  <2>3. [Registered(c, e.agent, at) EXCEPT !.seen = at] \in Card
    BY <2>2 DEF Card
  <2>4. Mutate(c, e, at).data = [c EXCEPT ![e.agent] = [Registered(c, e.agent, at) EXCEPT !.seen = at]]
    BY <2>1 DEF Mutate, Touched, Outcome
  <2> QED BY <2>1, <2>3, <2>4 DEF FileType
<1>2. CASE e \in SetCard
  <2>1. /\ e.kind = "card" /\ e.file = "agents" /\ e.agent \in Agent /\ c \in [Agent -> Card]
        /\ e.caps \in SUBSET Capability /\ e.load \in Limit
    BY <1>2 DEF SetCard, FileType
  <2> DEFINE old == Registered(c, e.agent, at)
             new == [old EXCEPT
                       !.caps = IF "caps" \in e.given THEN e.caps ELSE @,
                       !.load = IF "load" \in e.given THEN e.load ELSE @,
                       !.seen = at]
  <2>2. old \in Card
    BY <1>0, <2>1 DEF Registered, Card
  <2>3. new \in Card
    BY <2>1, <2>2 DEF Card
  <2>4. Mutate(c, e, at).data = [c EXCEPT ![e.agent] = new]
    BY <2>1 DEF Mutate, Carded, Outcome
  <2> QED BY <2>1, <2>3, <2>4 DEF FileType
<1>3. CASE e \in Link
  BY <1>3 DEF Link, FileType, Mutate, Linked, Outcome
<1>4. CASE e \in Unlink
  BY <1>4 DEF Unlink, FileType, Mutate, Unlinked, Outcome
<1>5. CASE e \in SetConfig
  <2>1. /\ e.kind = "config" /\ e.file = "config" /\ e.value \in Limit
        /\ c \in [Key -> Limit]
    BY <1>5 DEF SetConfig, FileType
  <2>2. Mutate(c, e, at).data = [k \in Key |-> IF k \in e.given THEN e.value ELSE c[k]]
    BY <2>1 DEF Mutate, Configured, Outcome
  <2> QED BY <2>1, <2>2 DEF FileType
<1> QED BY <1>1, <1>2, <1>3, <1>4, <1>5 DEF Edit

(***************************************************************************)
(* Every command names one of the three files.                             *)
(***************************************************************************)
LEMMA EditFile ==
  ASSUME NEW e \in Edit
  PROVE  e.file \in File /\ e \in Edit \cup {NoEdit}
BY DEF Edit, Touch, SetCard, Link, Unlink, SetConfig, File

LEMMA FileTypeInContents ==
  ASSUME NEW f \in File
  PROVE  FileType(f) \subseteq Contents
BY DEF File, FileType, Contents

-----------------------------------------------------------------------------
(* The inductive invariant.                                                *)

Inside == {"loading", "writing", "renaming", "syncing", "leaving"}

\* Whoever is past the lock holds it: at most one process per file is.
Locked ==
    \A p \in Proc : pc[p] \in Inside => held[edit[p].file] = p

Busy == \A p \in Proc : pc[p] # "idle" => edit[p] \in Edit

\* The value in memory is the edit of the value that is still in the file.
Drafted ==
    \A p \in Proc : pc[p] \in {"writing", "renaming"} =>
        LET outcome == Mutate(file[edit[p].file], edit[p], stamp[p])
        IN  outcome.ok /\ draft[p] = outcome.data

FilesTyped == \A f \in File : file[f] \in FileType(f)

IInv == TypeOK /\ Busy /\ Locked /\ Drafted

(***************************************************************************)
(* TypeOK gives each file the type of its commands.                        *)
(***************************************************************************)
LEMMA Typed == ASSUME TypeOK PROVE FilesTyped
BY DEF TypeOK, FilesTyped, FileType, File

(***************************************************************************)
(* The value drafted for a file has the file's type.                       *)
(***************************************************************************)
LEMMA DraftTyped ==
  ASSUME IInv, NEW p \in Proc, pc[p] = "renaming"
  PROVE  /\ edit[p] \in Edit /\ edit[p].file \in File
         /\ draft[p] \in FileType(edit[p].file)
<1>1. edit[p] \in Edit /\ edit[p].file \in File
  BY EditFile DEF IInv, Busy
<1>2. file[edit[p].file] \in FileType(edit[p].file)
  BY <1>1, Typed DEF IInv, FilesTyped
<1>3. stamp[p] \in Stamp
  BY DEF IInv, TypeOK
<1>4. draft[p] = Mutate(file[edit[p].file], edit[p], stamp[p]).data
  BY DEF IInv, Drafted
<1> QED BY <1>1, <1>2, <1>3, <1>4, MutateType

LEMMA InitInv == Init => IInv
<1> SUFFICES ASSUME Init PROVE IInv
  OBVIOUS
<1>1. NoCard \in Card /\ 0 \in Limit /\ 0 \in Stamp /\ 1 \in 1..MaxStamp /\ 0 \in 0..MaxEdits
  BY RegistryAssumption DEF NoCard, Card, Stamp
<1>2. Blank \in [Agent -> Card]
  BY <1>1 DEF Blank
<1>3. /\ file["agents"] = Blank
      /\ file["repositories"] = [l \in Alias |-> NoPath]
      /\ file["config"] = [k \in Key |-> 0]
  BY DEF Init, File
<1>4. FilesTyped
  BY <1>1, <1>2, <1>3 DEF FilesTyped, FileType, File
<1>5. file \in [File -> Contents]
  <2>1. \A f \in File : file[f] \in Contents
    BY <1>4, FileTypeInContents DEF FilesTyped
  <2> DEFINE Start(f) == CASE f = "agents"       -> Blank
                           [] f = "repositories" -> [l \in Alias |-> NoPath]
                           [] f = "config"       -> [k \in Key |-> 0]
  <2>2. file = [f \in File |-> Start(f)]
    BY DEF Init
  <2> HIDE DEF Start
  <2>3. \A f \in File : file[f] = Start(f)
    BY <2>2
  <2> QED BY <2>1, <2>2, <2>3
<1>6. TypeOK
  <2>1. Blank \in Contents /\ \A p \in Proc : draft[p] = Blank
    BY <1>2 DEF Contents, Init
  <2>2. draft \in [Proc -> Contents]
    BY <2>1 DEF Init
  <2>3. edit \in [Proc -> Edit \cup {NoEdit}]
    BY DEF Init
  <2>4. /\ held \in [File -> Proc \cup {NoProc}] /\ pc \in [Proc -> Stage]
        /\ stamp \in [Proc -> Stamp] /\ tmp \in [Proc -> BOOLEAN]
        /\ verdict \in [Proc -> {"none", "ok", "refused", "error"}]
        /\ edits \in [Proc -> 0..MaxEdits] /\ clock \in 1..MaxStamp
    BY <1>1 DEF Init, Stage
  <2>5. /\ file["agents"] \in [Agent -> Card]
        /\ file["repositories"] \in [Alias -> Path \cup {NoPath}]
        /\ file["config"] \in [Key -> Limit]
    BY <1>1, <1>2, <1>3
  <2> QED BY <1>5, <2>2, <2>3, <2>4, <2>5 DEF TypeOK
<1>7. Busy /\ Locked /\ Drafted
  BY DEF Init, Busy, Locked, Drafted, Inside
<1> QED BY <1>6, <1>7 DEF IInv

-----------------------------------------------------------------------------
(* Every step keeps it.                                                    *)

\* The parts of TypeOK that no file is needed for.
Quiet ==
    /\ held \in [File -> Proc \cup {NoProc}] /\ pc \in [Proc -> Stage]
    /\ edit \in [Proc -> Edit \cup {NoEdit}]
    /\ stamp \in [Proc -> Stamp] /\ draft \in [Proc -> Contents]
    /\ tmp \in [Proc -> BOOLEAN]
    /\ verdict \in [Proc -> {"none", "ok", "refused", "error"}]
    /\ edits \in [Proc -> 0..MaxEdits] /\ clock \in 1..MaxStamp

LEMMA BeginInv == ASSUME IInv, NEW p \in Proc, NEW e \in Edit, Begin(p, e) PROVE IInv'
<1>0. /\ clock \in Stamp
      /\ edits[p] + 1 \in 0..MaxEdits
  BY RegistryAssumption DEF IInv, TypeOK, Begin, Stamp
<1>1. TypeOK'
  BY <1>0 DEF IInv, TypeOK, Begin, Goto, Stage
<1>2. Busy' /\ Locked' /\ Drafted'
  BY DEF IInv, TypeOK, Busy, Locked, Drafted, Inside, Begin, Goto
<1> QED BY <1>1, <1>2 DEF IInv

LEMMA LockInv == ASSUME IInv, NEW p \in Proc, Lock(p) PROVE IInv'
<1>0. edit[p] \in Edit /\ edit[p].file \in File
  BY EditFile DEF IInv, Busy, Lock
<1>1. TypeOK'
  BY <1>0 DEF IInv, TypeOK, Lock, Goto, Stage
<1>2. Busy' /\ Drafted'
  BY DEF IInv, TypeOK, Busy, Drafted, Lock, Goto
<1>3. Locked'
  <2> SUFFICES ASSUME NEW q \in Proc, pc'[q] \in Inside
               PROVE  held'[edit'[q].file] = q
    BY DEF Locked
  <2>1. CASE q = p
    BY <1>0, <2>1 DEF IInv, TypeOK, Lock
  <2>2. CASE q # p
    <3>1. held[edit[q].file] = q
      BY <2>2 DEF IInv, TypeOK, Locked, Lock, Goto
    <3>2. edit[q].file # edit[p].file
      BY <3>1, RegistryAssumption DEF Lock, IsFree
    <3> QED BY <3>1, <3>2 DEF IInv, TypeOK, Lock
  <2> QED BY <2>1, <2>2
<1> QED BY <1>1, <1>2, <1>3 DEF IInv

LEMMA LoadInv == ASSUME IInv, NEW p \in Proc, Load(p) PROVE IInv'
<1> DEFINE e == edit[p]
           at == CallbackTime(p)
           outcome == Mutate(file[e.file], e, at)
<1>0. e \in Edit /\ e.file \in File
  BY EditFile DEF IInv, Busy, Load
<1>1. at \in Stamp
  BY RegistryAssumption DEF IInv, TypeOK, CallbackTime, Stamp
<1>2. outcome.data \in Contents
  BY <1>0, <1>1, MutateType, FileTypeInContents, Typed DEF IInv, FilesTyped
<1>3. /\ stamp' = [stamp EXCEPT ![p] = at]
      /\ \/ outcome.ok /\ draft' = [draft EXCEPT ![p] = outcome.data]
            /\ pc' = [pc EXCEPT ![p] = "writing"] /\ verdict' = verdict
         \/ draft' = draft /\ pc' = [pc EXCEPT ![p] = "leaving"]
            /\ verdict' = [verdict EXCEPT ![p] = "refused"]
      /\ pc[p] = "loading" /\ UNCHANGED <<file, held, edit, tmp, edits, clock>>
  BY DEF Load, Agreed, Goto, Return
<1> HIDE DEF outcome, at
<1>4. TypeOK'
  BY <1>1, <1>2, <1>3 DEF IInv, TypeOK, Stage
<1>5. Busy' /\ Locked'
  BY <1>3 DEF IInv, TypeOK, Busy, Locked, Inside
<1>6. Drafted'
  <2> SUFFICES ASSUME NEW q \in Proc, pc'[q] \in {"writing", "renaming"}
               PROVE  LET o == Mutate(file'[edit'[q].file], edit'[q], stamp'[q])
                      IN  o.ok /\ draft'[q] = o.data
    BY DEF Drafted
  <2>1. CASE q = p
    <3>1. outcome.ok /\ draft'[p] = outcome.data /\ stamp'[p] = at
      BY <1>3, <2>1 DEF IInv, TypeOK
    <3> QED BY <1>3, <2>1, <3>1 DEF outcome
  <2>2. CASE q # p
    <3>1. pc[q] = pc'[q] /\ draft'[q] = draft[q] /\ stamp'[q] = stamp[q]
      BY <1>3, <2>2 DEF IInv, TypeOK
    <3> QED BY <1>3, <3>1 DEF IInv, Drafted
  <2> QED BY <2>1, <2>2
<1> QED BY <1>4, <1>5, <1>6 DEF IInv

LEMMA WriteInv == ASSUME IInv, NEW p \in Proc, Write(p) PROVE IInv'
<1>1. TypeOK'
  BY DEF IInv, TypeOK, Write, Goto, Return, Stage
<1>2. Busy' /\ Locked'
  BY DEF IInv, TypeOK, Busy, Locked, Inside, Write, Goto, Return
<1>3. Drafted'
  BY DEF IInv, TypeOK, Drafted, Write, Goto, Return
<1> QED BY <1>1, <1>2, <1>3 DEF IInv

LEMMA RenameInv == ASSUME IInv, NEW p \in Proc, Rename(p) PROVE IInv'
<1>0. /\ edit[p] \in Edit /\ edit[p].file \in File
      /\ draft[p] \in FileType(edit[p].file)
  BY DraftTyped DEF Rename
<1>1. file' = [file EXCEPT ![edit[p].file] = draft[p]]
  BY DEF Rename
<1>2. TypeOK'
  <2>1. file' \in [File -> Contents]
    BY <1>0, <1>1, FileTypeInContents DEF IInv, TypeOK
  <2>2. \A f \in File : file'[f] \in FileType(f)
    BY <1>0, <1>1, Typed DEF IInv, TypeOK, FilesTyped
  <2>3. /\ file'["agents"] \in [Agent -> Card]
        /\ file'["repositories"] \in [Alias -> Path \cup {NoPath}]
        /\ file'["config"] \in [Key -> Limit]
    BY <2>2 DEF File, FileType
  <2>4. Quiet'
    BY DEF IInv, TypeOK, Quiet, Rename, Goto, Stage
  <2> QED BY <2>1, <2>3, <2>4 DEF TypeOK, Quiet
<1>3. Busy' /\ Locked'
  BY DEF IInv, TypeOK, Busy, Locked, Inside, Rename, Goto
<1>4. Drafted'
  <2> SUFFICES ASSUME NEW q \in Proc, pc'[q] \in {"writing", "renaming"}
               PROVE  LET o == Mutate(file'[edit'[q].file], edit'[q], stamp'[q])
                      IN  o.ok /\ draft'[q] = o.data
    BY DEF Drafted
  <2>1. q # p /\ pc[q] = pc'[q]
    BY DEF IInv, TypeOK, Rename, Goto
  <2>2. held[edit[q].file] = q /\ held[edit[p].file] = p
    BY <2>1 DEF IInv, Locked, Inside, Rename
  <2>3. edit[q] \in Edit /\ edit[q].file \in File
    BY <2>1, EditFile DEF IInv, Busy
  <2>4. file'[edit[q].file] = file[edit[q].file]
    BY <1>1, <2>1, <2>2, <2>3 DEF IInv, TypeOK
  <2> QED BY <2>1, <2>4 DEF IInv, Drafted, Rename
<1> QED BY <1>2, <1>3, <1>4 DEF IInv

LEMMA RenameFailsInv == ASSUME IInv, NEW p \in Proc, RenameFails(p) PROVE IInv'
<1>1. TypeOK'
  BY DEF IInv, TypeOK, RenameFails, Goto, Return, Stage
<1>2. Busy' /\ Locked'
  BY DEF IInv, TypeOK, Busy, Locked, Inside, RenameFails, Goto, Return
<1>3. Drafted'
  BY DEF IInv, TypeOK, Drafted, RenameFails, Goto, Return
<1> QED BY <1>1, <1>2, <1>3 DEF IInv

LEMMA SyncDirInv == ASSUME IInv, NEW p \in Proc, SyncDir(p) PROVE IInv'
<1>1. TypeOK'
  BY DEF IInv, TypeOK, SyncDir, Goto, Return, Stage
<1>2. Busy' /\ Locked' /\ Drafted'
  BY DEF IInv, TypeOK, Busy, Locked, Drafted, Inside, SyncDir, Goto, Return
<1> QED BY <1>1, <1>2 DEF IInv

(***************************************************************************)
(* A process that leaves, by the deferred release or killed, takes no      *)
(* other process's lock.                                                   *)
(***************************************************************************)
LEMMA ForgetInv ==
  ASSUME IInv, NEW p \in Proc, Forget(p),
         held' = [f \in File |-> IF held[f] = p THEN NoProc ELSE held[f]]
  PROVE  IInv'
<1>0. Blank \in Contents /\ 0 \in Stamp
  <2>1. NoCard \in Card /\ 0 \in Stamp
    BY RegistryAssumption DEF NoCard, Card, Stamp
  <2> QED BY <2>1 DEF Blank, Contents
<1>1. TypeOK'
  BY <1>0 DEF IInv, TypeOK, Forget, Goto, Stage
<1>2. Busy' /\ Drafted'
  BY DEF IInv, TypeOK, Busy, Drafted, Forget, Goto
<1>3. Locked'
  <2> SUFFICES ASSUME NEW q \in Proc, pc'[q] \in Inside
               PROVE  held'[edit'[q].file] = q
    BY DEF Locked
  <2>1. q # p /\ pc[q] = pc'[q] /\ edit'[q] = edit[q]
    BY DEF IInv, TypeOK, Forget, Goto, Inside
  <2>2. held[edit[q].file] = q /\ edit[q] \in Edit
    BY <2>1 DEF IInv, Locked, Busy, Inside
  <2>3. edit[q].file \in File
    BY <2>2, EditFile
  <2> QED BY <2>1, <2>2, <2>3
<1> QED BY <1>1, <1>2, <1>3 DEF IInv

LEMMA LeaveInv == ASSUME IInv, NEW p \in Proc, Leave(p) PROVE IInv'
BY ForgetInv DEF Leave, Released

LEMMA KillInv == ASSUME IInv, NEW p \in Proc, Kill(p) PROVE IInv'
BY ForgetInv DEF Kill

LEMMA SweepInv == ASSUME IInv, NEW p \in Proc, Sweep(p) PROVE IInv'
<1>1. TypeOK'
  BY DEF IInv, TypeOK, Sweep
<1>2. Busy' /\ Locked' /\ Drafted'
  BY DEF IInv, Busy, Locked, Drafted, Sweep
<1> QED BY <1>1, <1>2 DEF IInv

LEMMA TickInv == ASSUME IInv, Tick PROVE IInv'
<1>1. TypeOK'
  BY RegistryAssumption DEF IInv, TypeOK, Tick
<1>2. Busy' /\ Locked' /\ Drafted'
  BY DEF IInv, Busy, Locked, Drafted, Tick
<1> QED BY <1>1, <1>2 DEF IInv

LEMMA StutterInv == ASSUME IInv, UNCHANGED vars PROVE IInv'
BY DEF IInv, TypeOK, Busy, Locked, Drafted, vars

LEMMA StepInv == IInv /\ [Next]_vars => IInv'
<1> SUFFICES ASSUME IInv, [Next]_vars PROVE IInv'
  OBVIOUS
<1>1. CASE \E p \in Proc : \E e \in Edit : Begin(p, e)
  BY <1>1, BeginInv
<1>2. CASE \E p \in Proc : Lock(p) \/ Kill(p) \/ Sweep(p)
  BY <1>2, LockInv, KillInv, SweepInv
<1>3. CASE \E p \in Proc : Proceed(p)
  BY <1>3, LoadInv, WriteInv, RenameInv, RenameFailsInv, SyncDirInv, LeaveInv
  DEF Proceed
<1>4. CASE Tick
  BY <1>4, TickInv
<1>5. CASE UNCHANGED vars
  BY <1>5, StutterInv
<1> QED BY <1>1, <1>2, <1>3, <1>4, <1>5 DEF Next

LEMMA InvHolds == Spec => []IInv
<1>1. Init => IInv
  BY InitInv
<1>2. IInv /\ [Next]_vars => IInv'
  BY StepInv
<1> QED BY <1>1, <1>2, PTL DEF Spec

-----------------------------------------------------------------------------
(* What the callers rely on.                                               *)

(***************************************************************************)
(* TypeOK holds in every reachable state.                                  *)
(***************************************************************************)
THEOREM RegistryTypeCorrect == Spec => []TypeOK
<1>1. IInv => TypeOK
  BY DEF IInv
<1> QED BY <1>1, InvHolds, PTL

(***************************************************************************)
(* A file changes only when a process that holds its lock renames the      *)
(* edit of the current value over it.                                      *)
(***************************************************************************)
LEMMA FileChange ==
  ASSUME IInv, [Next]_vars, NEW f \in File, file'[f] # file[f]
  PROVE  \E p \in Proc :
            /\ pc[p] = "renaming" /\ edit[p] \in Edit /\ edit[p].file = f
            /\ stamp[p] \in Stamp
            /\ Mutate(file[f], edit[p], stamp[p]).ok
            /\ file'[f] = Mutate(file[f], edit[p], stamp[p]).data
<1>1. ASSUME NEW p \in Proc, Rename(p) PROVE
            /\ pc[p] = "renaming" /\ edit[p] \in Edit /\ edit[p].file = f
            /\ stamp[p] \in Stamp
            /\ Mutate(file[f], edit[p], stamp[p]).ok
            /\ file'[f] = Mutate(file[f], edit[p], stamp[p]).data
  <2>1. pc[p] = "renaming" /\ edit[p] \in Edit /\ edit[p].file \in File
    BY <1>1, DraftTyped DEF Rename
  <2>2. edit[p].file = f /\ file'[f] = draft[p]
    BY <1>1, <2>1 DEF Rename, IInv, TypeOK
  <2> QED BY <2>1, <2>2 DEF IInv, TypeOK, Drafted
<1>2. ASSUME NEW p \in Proc, Proceed(p) PROVE Rename(p)
  BY <1>2 DEF Proceed, Load, Write, RenameFails, SyncDir, Leave, Forget
<1>3. \E p \in Proc : Rename(p)
  <2>1. ASSUME NEW p \in Proc, NEW e \in Edit, Begin(p, e) PROVE FALSE
    BY <2>1 DEF Begin
  <2>2. ASSUME NEW p \in Proc, Lock(p) \/ Kill(p) \/ Sweep(p) PROVE FALSE
    BY <2>2 DEF Lock, Kill, Forget, Sweep
  <2>3. ~Tick /\ ~UNCHANGED vars
    BY DEF Tick, vars
  <2> QED BY <1>2, <2>1, <2>2, <2>3 DEF Next
<1> QED BY <1>1, <1>3

(***************************************************************************)
(* EditsAreAtomic for any number of processes: updateAgentRegistry,        *)
(* updateRepositoryRegistry and updateConfig lose no concurrent edit and   *)
(* keep nothing of a refused one.                                          *)
(***************************************************************************)
THEOREM EditsAtomic == Spec => EditsAreAtomic
<1> DEFINE A ==
      \A f \in File : file'[f] # file[f] =>
          \E p \in Proc :
             LET outcome == Mutate(file[f], edit[p], stamp[p])
             IN  /\ pc[p] = "renaming" /\ edit[p].file = f
                 /\ outcome.ok /\ file'[f] = outcome.data
<1>1. IInv /\ [Next]_vars => A
  BY FileChange
<1>2. IInv /\ [Next]_vars => [A]_vars
  BY <1>1
<1> QED BY <1>2, InvHolds, PTL DEF Spec, EditsAreAtomic

(***************************************************************************)
(* What the callbacks of agents.json do to one card: touchAgent leaves the *)
(* profile, agent-card changes what it was given, and both keep the time   *)
(* of registration.                                                        *)
(***************************************************************************)
LEMMA CardEdits ==
  ASSUME NEW e \in Edit, e.file = "agents", NEW c \in [Agent -> Card],
         NEW at \in Stamp, NEW a \in Agent, c[a].known \/ c[a] = NoCard
  PROVE  LET new == Mutate(c, e, at).data[a] IN
         /\ new.caps # c[a].caps => e.kind = "card" /\ e.agent = a /\ "caps" \in e.given
         /\ new.load # c[a].load => e.kind = "card" /\ e.agent = a /\ "load" \in e.given
         /\ c[a].known => new.known /\ new.created = c[a].created
         /\ new.known \/ new = NoCard
<1> DEFINE old == Registered(c, a, at)
           new == Mutate(c, e, at).data[a]
<1>0. NoCard \in Card
  BY RegistryAssumption DEF NoCard, Card, Stamp
<1>1. /\ old \in Card /\ old.known
      /\ old.caps = c[a].caps /\ old.load = c[a].load
      /\ c[a].known => old.created = c[a].created
  <2>1. CASE c[a].known
    BY <2>1 DEF Registered
  <2>2. CASE ~c[a].known
    <3>1. c[a] = NoCard /\ old = [NoCard EXCEPT !.known = TRUE, !.created = at]
      BY <2>2 DEF Registered
    <3> HIDE DEF old
    <3>2. old \in Card /\ old.known
      BY <1>0, <3>1 DEF Card
    <3>3. old.caps = NoCard.caps /\ old.load = NoCard.load
      BY <1>0, <3>1 DEF Card, NoCard
    <3> QED BY <2>2, <3>1, <3>2, <3>3
  <2> QED BY <2>1, <2>2
<1>2. CASE e \in Touch
  <2>1. e.kind = "touch" /\ e.agent \in Agent
    BY <1>2 DEF Touch
  <2>2. Mutate(c, e, at).data =
            [c EXCEPT ![e.agent] = [Registered(c, e.agent, at) EXCEPT !.seen = at]]
    BY <2>1 DEF Mutate, Touched, Outcome
  <2>3. CASE a # e.agent
    BY <2>1, <2>2, <2>3
  <2>4. CASE a = e.agent
    <3>1. new = [old EXCEPT !.seen = at]
      BY <2>1, <2>2, <2>4
    <3> HIDE DEF old, new
    <3>2. /\ new.caps = old.caps /\ new.load = old.load
          /\ new.known = old.known /\ new.created = old.created
      BY <1>1, <3>1 DEF Card
    <3> QED BY <1>1, <3>2 DEF new
  <2> QED BY <2>3, <2>4
<1>3. CASE e \in SetCard
  <2>1. e.kind = "card" /\ e.agent \in Agent
    BY <1>3 DEF SetCard
  <2> DEFINE card(x) ==
        [Registered(c, x, at) EXCEPT
            !.caps = IF "caps" \in e.given THEN e.caps ELSE @,
            !.load = IF "load" \in e.given THEN e.load ELSE @,
            !.seen = at]
  <2>2. Mutate(c, e, at).data = [c EXCEPT ![e.agent] = card(e.agent)]
    BY <2>1 DEF Mutate, Carded, Outcome
  <2>3. CASE a # e.agent
    <3>1. new = c[a]
      BY <2>1, <2>2, <2>3
    <3> QED BY <3>1
  <2>4. CASE a = e.agent
    <3>1. new = [old EXCEPT
                   !.caps = IF "caps" \in e.given THEN e.caps ELSE @,
                   !.load = IF "load" \in e.given THEN e.load ELSE @,
                   !.seen = at]
      BY <2>1, <2>2, <2>4
    <3> HIDE DEF old, new
    <3>2. /\ "caps" \notin e.given => new.caps = old.caps
          /\ "load" \notin e.given => new.load = old.load
          /\ new.known = old.known /\ new.created = old.created
      BY <1>1, <3>1 DEF Card
    <3> QED BY <1>1, <2>1, <2>4, <3>2 DEF new
  <2> QED BY <2>3, <2>4
<1>4. e \in Touch \cup SetCard
  BY DEF Edit, Link, Unlink, SetConfig
<1> QED BY <1>2, <1>3, <1>4

\* An agent that is not registered has no profile.
StrangersAreBlank ==
    \A a \in Agent : file["agents"][a].known \/ file["agents"][a] = NoCard

LEMMA StrangersHold == Spec => []StrangersAreBlank
<1>1. Init => StrangersAreBlank
  BY DEF Init, StrangersAreBlank, Blank, File
<1>2. IInv /\ StrangersAreBlank /\ [Next]_vars => StrangersAreBlank'
  <2> SUFFICES ASSUME IInv, StrangersAreBlank, [Next]_vars, NEW a \in Agent
               PROVE  file'["agents"][a].known \/ file'["agents"][a] = NoCard
    BY DEF StrangersAreBlank
  <2>1. CASE file'["agents"] = file["agents"]
    BY <2>1 DEF StrangersAreBlank
  <2>2. CASE file'["agents"] # file["agents"]
    <3>1. PICK p \in Proc :
            /\ edit[p] \in Edit /\ edit[p].file = "agents" /\ stamp[p] \in Stamp
            /\ file'["agents"] = Mutate(file["agents"], edit[p], stamp[p]).data
      BY <2>2, FileChange DEF File
    <3>2. file["agents"] \in [Agent -> Card]
      BY DEF IInv, TypeOK
    <3> QED BY <3>1, <3>2, CardEdits DEF StrangersAreBlank
  <2> QED BY <2>1, <2>2
<1> QED BY <1>1, <1>2, InvHolds, PTL DEF Spec

(***************************************************************************)
(* FieldsHaveAuthors for any number of agents, aliases and keys: a field   *)
(* that no command names keeps its value through concurrent edits of the   *)
(* same file.                                                              *)
(***************************************************************************)
THEOREM FieldsAuthored == Spec => FieldsHaveAuthors
<1>1. IInv /\ StrangersAreBlank /\ [Next]_vars => \A a \in Agent : ProfileHasAuthor(a)
  <2> SUFFICES ASSUME IInv, StrangersAreBlank, [Next]_vars, NEW a \in Agent,
                      file'["agents"] # file["agents"]
               PROVE  ProfileHasAuthor(a)
    BY DEF ProfileHasAuthor
  <2>1. PICK p \in Proc :
          /\ pc[p] = "renaming"
          /\ edit[p] \in Edit /\ edit[p].file = "agents" /\ stamp[p] \in Stamp
          /\ file'["agents"] = Mutate(file["agents"], edit[p], stamp[p]).data
    BY FileChange DEF File
  <2>2. file["agents"] \in [Agent -> Card]
    BY DEF IInv, TypeOK
  <2> QED BY <2>1, <2>2, CardEdits DEF StrangersAreBlank, Publishes, ProfileHasAuthor
<1>2. IInv /\ [Next]_vars => \A l \in Alias : LinkHasAuthor(l)
  <2> SUFFICES ASSUME IInv, [Next]_vars, NEW l \in Alias,
                      file'["repositories"][l] # file["repositories"][l]
               PROVE  \E p \in Proc : /\ Publishes(p, "link") \/ Publishes(p, "unlink")
                                      /\ edit[p].alias = l
    BY DEF LinkHasAuthor
  <2>1. PICK p \in Proc :
          /\ pc[p] = "renaming"
          /\ edit[p] \in Edit /\ edit[p].file = "repositories"
          /\ file'["repositories"] = Mutate(file["repositories"], edit[p], stamp[p]).data
    BY FileChange DEF File
  <2>2. file["repositories"] \in [Alias -> Path \cup {NoPath}]
    BY DEF IInv, TypeOK
  <2>3. CASE edit[p] \in Link
    BY <2>1, <2>2, <2>3 DEF Link, Mutate, Linked, Outcome, Publishes
  <2>4. CASE edit[p] \in Unlink
    BY <2>1, <2>2, <2>4 DEF Unlink, Mutate, Unlinked, Outcome, Publishes
  <2>5. edit[p] \in Link \cup Unlink
    BY <2>1 DEF Edit, Touch, SetCard, SetConfig
  <2> QED BY <2>3, <2>4, <2>5
<1>3. IInv /\ [Next]_vars => \A k \in Key : SettingHasAuthor(k)
  <2> SUFFICES ASSUME IInv, [Next]_vars, NEW k \in Key,
                      file'["config"][k] # file["config"][k]
               PROVE  \E p \in Proc : Publishes(p, "config") /\ k \in edit[p].given
    BY DEF SettingHasAuthor
  <2>1. PICK p \in Proc :
          /\ pc[p] = "renaming"
          /\ edit[p] \in Edit /\ edit[p].file = "config"
          /\ file'["config"] = Mutate(file["config"], edit[p], stamp[p]).data
    BY FileChange DEF File
  <2>2. edit[p].kind = "config"
    BY <2>1 DEF Edit, Touch, SetCard, Link, Unlink, SetConfig
  <2>3. file'["config"][k] = IF k \in edit[p].given THEN edit[p].value ELSE file["config"][k]
    BY <2>1, <2>2 DEF Mutate, Configured, Outcome
  <2> QED BY <2>1, <2>2, <2>3 DEF Publishes
<1>4. IInv /\ StrangersAreBlank /\ [Next]_vars => [EachFieldHasAuthor]_vars
  BY <1>1, <1>2, <1>3 DEF EachFieldHasAuthor
<1> QED BY <1>4, InvHolds, StrangersHold, PTL DEF Spec, FieldsHaveAuthors

(***************************************************************************)
(* RegistrationIsForGood for any number of agents and first calls.         *)
(***************************************************************************)
THEOREM RegistrationStays == Spec => RegistrationIsForGood
<1> DEFINE A == \A a \in Agent : file["agents"][a].known =>
                  /\ file'["agents"][a].known
                  /\ file'["agents"][a].created = file["agents"][a].created
<1>1. IInv /\ StrangersAreBlank /\ [Next]_vars => A
  <2> SUFFICES ASSUME IInv, StrangersAreBlank, [Next]_vars, NEW a \in Agent,
                      file["agents"][a].known, file'["agents"] # file["agents"]
               PROVE  /\ file'["agents"][a].known
                      /\ file'["agents"][a].created = file["agents"][a].created
    OBVIOUS
  <2>1. PICK p \in Proc :
          /\ edit[p] \in Edit /\ edit[p].file = "agents" /\ stamp[p] \in Stamp
          /\ file'["agents"] = Mutate(file["agents"], edit[p], stamp[p]).data
    BY FileChange DEF File
  <2>2. file["agents"] \in [Agent -> Card]
    BY DEF IInv, TypeOK
  <2> QED BY <2>1, <2>2, CardEdits DEF StrangersAreBlank
<1>2. IInv /\ StrangersAreBlank /\ [Next]_vars => [A]_vars
  BY <1>1
<1> QED BY <1>2, InvHolds, StrangersHold, PTL DEF Spec, RegistrationIsForGood
=============================================================================
