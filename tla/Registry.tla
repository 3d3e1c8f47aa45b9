------------------------------ MODULE Registry ------------------------------
(***************************************************************************)
(* The three small files beside the store: agents.json (agent cards),      *)
(* repositories.json (links) and config.json (project defaults).  Each is  *)
(* changed by a read-modify-write under its own lock sidecar: load, run a  *)
(* callback on the value in memory, write and flush a temporary file,      *)
(* rename it, flush the directory.  Readers take no lock.  Any step can    *)
(* fail, processes are killed, and doctor --fix may remove the temporary   *)
(* file of a writer that was suspended for an hour.                        *)
(*                                                                         *)
(* Descriptions are abstracted, as are the names of the config keys'       *)
(* values.  A stamp is a reading of the clock.                             *)
(***************************************************************************)
EXTENDS Integers, FiniteSets

CONSTANTS
    Proc,        \* processes: CLI commands and servers
    NoProc,      \* nobody holds the lock
    Agent,       \* names of agents
    Alias,       \* names of linked repositories
    Path,        \* where linked repositories are
    NoPath,      \* the alias is not linked
    Capability,  \* capability names
    Key,         \* default_ttl, default_priority, default_caps
    Limit,       \* load limits and values of the config keys
    MaxStamp,    \* bound on the clock
    MaxEdits     \* bound: edits per process

ASSUME RegistryAssumption ==
    /\ NoProc \notin Proc
    /\ NoPath \notin Path
    /\ 0 \in Limit /\ Limit \subseteq Nat
    /\ MaxStamp \in Nat \ {0} /\ MaxEdits \in Nat

File == {"agents", "repositories", "config"}

Stamp == 0..MaxStamp

Card ==
    [known : BOOLEAN, caps : SUBSET Capability, load : Limit,
     created : Stamp, seen : Stamp]

\* What a name that is not a key of the Agents map looks up.
NoCard == [known |-> FALSE, caps |-> {}, load |-> 0, created |-> 0, seen |-> 0]

Blank == [a \in Agent |-> NoCard]

\* Each file is a map; config.json has a fixed set of keys.
Contents ==
    [Agent -> Card] \cup [Alias -> Path \cup {NoPath}] \cup [Key -> Limit]

(* What the commands ask of a file.  `given` are the flags or keys present. *)
Touch == [kind : {"touch"}, file : {"agents"}, agent : Agent]
SetCard ==
    {e \in [kind : {"card"}, file : {"agents"}, agent : Agent,
            given : SUBSET {"caps", "load"} \ {{}}, caps : SUBSET Capability,
            load : Limit, parses : BOOLEAN] :
        /\ "caps" \in e.given \/ e.caps = {}
        /\ "load" \in e.given \/ (e.load = 0 /\ e.parses)}
Link == [kind : {"link"}, file : {"repositories"}, alias : Alias, path : Path]
Unlink == [kind : {"unlink"}, file : {"repositories"}, alias : Alias]
SetConfig ==
    [kind : {"config"}, file : {"config"}, given : SUBSET Key \ {{}},
     value : Limit, parses : BOOLEAN]

Edit == Touch \cup SetCard \cup Link \cup Unlink \cup SetConfig

NoEdit == [kind |-> "none", file |-> "agents"]

VARIABLES
    file,     \* the contents of each file
    held,     \* who holds the lock of each file
    pc,       \* where each process is
    edit,     \* the edit each process makes
    stamp,    \* the clock as the process last read it
    draft,    \* the value each process has in memory
    tmp,      \* whether the process's temporary file is there
    verdict,  \* what each process is going to return
    edits,    \* edits each process has begun
    clock

vars == <<file, held, pc, edit, stamp, draft, tmp, verdict, edits, clock>>


Stage == {"idle", "locking", "loading", "writing", "renaming", "syncing", "leaving"}

TypeOK ==
    /\ file \in [File -> Contents]
    /\ file["agents"] \in [Agent -> Card]
    /\ file["repositories"] \in [Alias -> Path \cup {NoPath}]
    /\ file["config"] \in [Key -> Limit]
    /\ held \in [File -> Proc \cup {NoProc}]
    /\ pc \in [Proc -> Stage]
    /\ edit \in [Proc -> Edit \cup {NoEdit}]
    /\ stamp \in [Proc -> Stamp]
    /\ draft \in [Proc -> Contents]
    /\ tmp \in [Proc -> BOOLEAN]
    /\ verdict \in [Proc -> {"none", "ok", "refused", "error"}]
    /\ edits \in [Proc -> 0..MaxEdits]
    /\ clock \in 1..MaxStamp

\* A file that does not exist reads as its default.
Init ==
    /\ file = [f \in File |->
                 CASE f = "agents"       -> Blank
                   [] f = "repositories" -> [l \in Alias |-> NoPath]
                   [] f = "config"       -> [k \in Key |-> 0]]
    /\ held = [f \in File |-> NoProc]
    /\ pc = [p \in Proc |-> "idle"]
    /\ edit = [p \in Proc |-> NoEdit]
    /\ stamp = [p \in Proc |-> 0]
    /\ draft = [p \in Proc |-> Blank]
    /\ tmp = [p \in Proc |-> FALSE]
    /\ verdict = [p \in Proc |-> "none"]
    /\ edits = [p \in Proc |-> 0]
    /\ clock = 1

-----------------------------------------------------------------------------
(* The callbacks: the value they leave in memory and whether they agree.   *)

Outcome(ok, data) == [ok |-> ok, data |-> data]

\* The card of the agent, or a new one.
Registered(c, a, at) ==
    IF c[a].known THEN c[a] ELSE [NoCard EXCEPT !.known = TRUE, !.created = at]

\* Wrong: the card starts from nothing.
FaultyTouched(c, e, at) ==
    Outcome(TRUE, [c EXCEPT ![e.agent] =
        [NoCard EXCEPT !.known = TRUE, !.created = c[e.agent].created, !.seen = at]])

\* touchAgent, with the time it reads under the lock.
Touched(c, e, at) ==
    Outcome(TRUE, [c EXCEPT ![e.agent] = [Registered(c, e.agent, at) EXCEPT !.seen = at]])

\* agent-card, with the time it read before it asked for the lock.  A load
\* that does not parse is found after the capabilities were replaced.
Carded(c, e, at) ==
    LET old == Registered(c, e.agent, at)
        new == [old EXCEPT
                  !.caps = IF "caps" \in e.given THEN e.caps ELSE @,
                  !.load = IF "load" \in e.given THEN e.load ELSE @,
                  !.seen = at]
    IN  Outcome(e.parses, [c EXCEPT ![e.agent] = new])

Linked(c, e) == Outcome(TRUE, [c EXCEPT ![e.alias] = e.path])

Unlinked(c, e) == Outcome(c[e.alias] # NoPath, [c EXCEPT ![e.alias] = NoPath])

\* config k1=v1 k2=v2 ...: an argument that does not parse is found after the
\* ones before it were set.
Configured(c, e) ==
    Outcome(e.parses, [k \in Key |-> IF k \in e.given THEN e.value ELSE c[k]])

Mutate(c, e, at) ==
    CASE e.kind = "touch"  -> Touched(c, e, at)
      [] e.kind = "card"   -> Carded(c, e, at)
      [] e.kind = "link"   -> Linked(c, e)
      [] e.kind = "unlink" -> Unlinked(c, e)
      [] e.kind = "config" -> Configured(c, e)

-----------------------------------------------------------------------------
(* updateAgentRegistry, updateRepositoryRegistry and updateConfig.         *)

Goto(p, stage) == pc' = [pc EXCEPT ![p] = stage]

Return(p, v) == Goto(p, "leaving") /\ verdict' = [verdict EXCEPT ![p] = v]

Begin(p, e) ==
    /\ pc[p] = "idle" /\ edits[p] < MaxEdits
    /\ edit' = [edit EXCEPT ![p] = e]
    /\ edits' = [edits EXCEPT ![p] = @ + 1]
    /\ stamp' = [stamp EXCEPT ![p] = clock]
    /\ Goto(p, "locking")
    /\ UNCHANGED <<file, held, draft, tmp, verdict, clock>>

\* Wrong: the lock is not waited for.
FaultyIsFree(f) == TRUE

IsFree(f) == held[f] = NoProc

Lock(p) ==
    /\ pc[p] = "locking" /\ IsFree(edit[p].file)
    /\ held' = [held EXCEPT ![edit[p].file] = p]
    /\ Goto(p, "loading")
    /\ UNCHANGED <<file, edit, stamp, draft, tmp, verdict, edits, clock>>

\* touchAgent reads the clock inside the callback.
CallbackTime(p) == IF edit[p].kind = "touch" THEN clock ELSE stamp[p]

Agreed(outcome) == outcome.ok

Load(p) ==
    /\ pc[p] = "loading"
    /\ LET outcome == Mutate(file[edit[p].file], edit[p], CallbackTime(p))
       IN  IF Agreed(outcome)
           THEN /\ draft' = [draft EXCEPT ![p] = outcome.data]
                /\ Goto(p, "writing") /\ UNCHANGED verdict
           ELSE Return(p, "refused") /\ UNCHANGED draft
    /\ stamp' = [stamp EXCEPT ![p] = CallbackTime(p)]
    /\ UNCHANGED <<file, held, edit, tmp, edits, clock>>

\* Creating, writing and flushing the temporary file; a deferred remove takes
\* it away again when a step fails.
Write(p) ==
    /\ pc[p] = "writing"
    /\ \/ tmp' = [tmp EXCEPT ![p] = TRUE] /\ Goto(p, "renaming") /\ UNCHANGED verdict
       \/ Return(p, "error") /\ UNCHANGED tmp
    /\ UNCHANGED <<file, held, edit, stamp, draft, edits, clock>>

Rename(p) ==
    /\ pc[p] = "renaming" /\ tmp[p]
    /\ file' = [file EXCEPT ![edit[p].file] = draft[p]]
    /\ tmp' = [tmp EXCEPT ![p] = FALSE]
    /\ Goto(p, "syncing")
    /\ UNCHANGED <<held, edit, stamp, draft, verdict, edits, clock>>

\* The rename fails, of its own or because the temporary file is gone.
RenameFails(p) ==
    /\ pc[p] = "renaming"
    /\ tmp' = [tmp EXCEPT ![p] = FALSE]
    /\ Return(p, "error")
    /\ UNCHANGED <<file, held, edit, stamp, draft, edits, clock>>

SyncDir(p) ==
    /\ pc[p] = "syncing"
    /\ \E v \in {"ok", "error"} : Return(p, v)
    /\ UNCHANGED <<file, held, edit, stamp, draft, tmp, edits, clock>>

\* Wrong: an error return keeps the lock.
FaultyReleased(p) ==
    IF verdict[p] = "ok" THEN [held EXCEPT ![edit[p].file] = NoProc] ELSE held

\* The deferred release.
Released(p) ==
    [f \in File |-> IF held[f] = p THEN NoProc ELSE held[f]]

\* The process is done with the edit, and its memory is gone.
Forget(p) ==
    /\ Goto(p, "idle")
    /\ edit' = [edit EXCEPT ![p] = NoEdit]
    /\ stamp' = [stamp EXCEPT ![p] = 0]
    /\ draft' = [draft EXCEPT ![p] = Blank]
    /\ tmp' = [tmp EXCEPT ![p] = FALSE]
    /\ verdict' = [verdict EXCEPT ![p] = "none"]
    /\ UNCHANGED <<file, edits, clock>>

Leave(p) == pc[p] = "leaving" /\ held' = Released(p) /\ Forget(p)

\* The kernel drops the lock of a killed process; its temporary file stays
\* behind under a name nobody else uses.
Kill(p) ==
    /\ pc[p] # "idle"
    /\ held' = [f \in File |-> IF held[f] = p THEN NoProc ELSE held[f]]
    /\ Forget(p)

\* doctor --fix, without any lock.
Sweep(p) ==
    /\ tmp[p]
    /\ tmp' = [tmp EXCEPT ![p] = FALSE]
    /\ UNCHANGED <<file, held, pc, edit, stamp, draft, verdict, edits, clock>>

Tick ==
    /\ clock < MaxStamp /\ clock' = clock + 1
    /\ UNCHANGED <<file, held, pc, edit, stamp, draft, tmp, verdict, edits>>

Proceed(p) ==
    Load(p) \/ Write(p) \/ Rename(p) \/ RenameFails(p) \/ SyncDir(p) \/ Leave(p)

Next ==
    \/ \E p \in Proc : \/ \E e \in Edit : Begin(p, e)
                       \/ Lock(p) \/ Proceed(p) \/ Kill(p) \/ Sweep(p)
    \/ Tick

Spec == Init /\ [][Next]_vars

\* A process that holds the lock goes on.  Nothing is assumed of Lock: the
\* contenders poll without a queue.
FairSpec == Spec /\ \A p \in Proc : WF_vars(Proceed(p))

-----------------------------------------------------------------------------

(* Every change of a file is one whole edit that its callback agreed to,   *)
(* made to the value that was there: updateAgentRegistry and its siblings  *)
(* lose no concurrent edit and keep nothing of a refused one.              *)
EditsAreAtomic ==
    [][\A f \in File : file'[f] # file[f] =>
          \E p \in Proc :
             LET outcome == Mutate(file[f], edit[p], stamp[p])
             IN  /\ pc[p] = "renaming" /\ edit[p].file = f
                 /\ outcome.ok /\ file'[f] = outcome.data]_vars

\* p is about to publish an edit of the given kind.
Publishes(p, kind) == pc[p] = "renaming" /\ edit[p].kind = kind

ProfileHasAuthor(a) ==
    /\ file'["agents"][a].caps # file["agents"][a].caps =>
          \E p \in Proc : /\ Publishes(p, "card") /\ edit[p].agent = a
                          /\ "caps" \in edit[p].given
    /\ file'["agents"][a].load # file["agents"][a].load =>
          \E p \in Proc : /\ Publishes(p, "card") /\ edit[p].agent = a
                          /\ "load" \in edit[p].given

LinkHasAuthor(l) ==
    file'["repositories"][l] # file["repositories"][l] =>
        \E p \in Proc : /\ Publishes(p, "link") \/ Publishes(p, "unlink")
                        /\ edit[p].alias = l

SettingHasAuthor(k) ==
    file'["config"][k] # file["config"][k] =>
        \E p \in Proc : Publishes(p, "config") /\ k \in edit[p].given

EachFieldHasAuthor ==
    /\ \A a \in Agent : ProfileHasAuthor(a)
    /\ \A l \in Alias : LinkHasAuthor(l)
    /\ \A k \in Key : SettingHasAuthor(k)

(* A capability list, load limit, link or config value changes only by a   *)
(* command that names it: touchAgent and edits of other fields, made at    *)
(* the same time, leave it as it is.                                       *)
FieldsHaveAuthors == [][EachFieldHasAuthor]_vars

(* A registered agent stays registered, with the time it was first seen:   *)
(* no two first calls of one agent both create its card.                   *)
RegistrationIsForGood ==
    [][\A a \in Agent : file["agents"][a].known =>
          /\ file'["agents"][a].known
          /\ file'["agents"][a].created = file["agents"][a].created]_vars

(* No lock is held for ever: every return of an update passes the deferred *)
(* release, refused and failed ones too.                                   *)
LocksAreReleased == \A f \in File : []<>(held[f] = NoProc)
=============================================================================
