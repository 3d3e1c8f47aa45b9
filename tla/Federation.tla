----------------------------- MODULE Federation -----------------------------
(***************************************************************************)
(* Linked repositories: several stores whose tasks wait for tasks of each  *)
(* other through aliases, and the claim and done calls that ask the linked *)
(* stores before they commit.                                              *)
(*                                                                         *)
(* Of a store the module keeps the status and dependencies of each task.   *)
(* Owners are left to Board: a lease is a task in progress, `expired` when *)
(* it has run out.  A load or an update of one store is a step under its   *)
(* lock, as StoreFile shows; a claim or done call is several.              *)
(***************************************************************************)
EXTENDS Naturals, FiniteSets, Sequences

CONSTANTS
    Repo,      \* the projects
    Alias,     \* the names a project gives to the projects it links
    NoRepo,    \* what an alias that is not registered stands for
    Worker,    \* the processes that run claim and done
    Home,      \* the project each of them works in
    Movable,   \* the projects whose checkout may be missing for a while
    MaxTasks,  \* the tasks of a project
    MaxDeps    \* the dependencies of a task

ASSUME FederationAssumption ==
    /\ "local" \notin Alias
    /\ NoRepo \notin Repo /\ IsFiniteSet(Repo)
    /\ Home \in [Worker -> Repo]
    /\ Movable \subseteq Repo
    /\ MaxTasks \in Nat /\ MaxDeps \in Nat

TaskId == 1..MaxTasks

\* todo://<alias>/<id>, or todo://local/<id>.
Reference == (Alias \cup {"local"}) \X TaskId

Status == {"none", "pending", "in_progress", "completed", "removed"}

VARIABLES
    status,   \* of each task of each project
    deps,     \* the references of each task
    expired,  \* the tasks in progress whose lease has run out
    link,     \* repositories.json of each project
    away,     \* the projects whose checkout is missing
    call,     \* what each worker is doing
    seen      \* history: the tasks completed at some moment of its call

data == <<status, deps, expired, link, away>>
vars == <<data, call, seen>>

-----------------------------------------------------------------------------
(* One store.                                                              *)

Present(r) == {i \in TaskId : status[r][i] \notin {"none", "removed"}}

Completed == {t \in Repo \X TaskId : status[t[1]][t[2]] = "completed"}

Local(refs) == {u[2] : u \in {w \in refs : w[1] = "local"}}
Linked(refs) == {u \in refs : u[1] # "local"}

\* DAG.DetectCycle on the local edges, those of task i replaced.
ClosesCycle(r, i, refs) ==
    \E S \in SUBSET (Present(r) \cup {i}) :
        /\ S # {}
        /\ \A x \in S : S \cap Local(IF x = i THEN refs ELSE deps[r][x]) # {}

\* CleanExpiredLeases, on the store of r that is about to be read or written.
Reclaimed(r) ==
    [i \in TaskId |-> IF <<r, i>> \in expired THEN "pending" ELSE status[r][i]]

StillExpired(r) == {t \in expired : t[1] # r}

-----------------------------------------------------------------------------
(* The resolver.                                                           *)

Target(links, u) == links[u[1]]

\* Whether the linked store says that the task of u is completed; a store that
\* cannot be loaded, or an alias that is not registered, says no.
Answer(links, u) ==
    LET r == Target(links, u)
    IN  r \in Repo \ away /\ status[r][u[2]] = "completed"

\* Wrong: the answers of a server's earlier call are used again.
FaultyCache(p) == call[p].yes

\* A resolver begins with an empty cache.
Cache(p) == {}

\* Wrong: the linked stores are asked inside the transaction.
FaultyOrder == <<"load", "links", "lock", "ask", "commit">>

\* The stages of a call.
Order == <<"load", "links", "ask", "lock", "commit">>

Stage == {Order[n] : n \in 1..5} \cup {"idle"}

AfterStage(s) == Order[1 + CHOOSE n \in 1..5 : Order[n] = s]

\* A worker holds the lock of its store once it has passed "lock".
Holds(p) ==
    \E n, m \in 1..5 : m < n /\ Order[m] = "lock" /\ call[p].stage = Order[n]

Free(r) == ~\E p \in Worker : Home[p] = r /\ Holds(p)

-----------------------------------------------------------------------------
Call ==
    [stage : Stage,
     kind  : {"claim", "done"},
     id    : TaskId,
     links : [Alias -> Repo \cup {NoRepo}],
     ask   : SUBSET Reference,    \* the references still to be resolved
     yes   : SUBSET Reference]    \* those that were found completed

NoLinks == [a \in Alias |-> NoRepo]

TypeOK ==
    /\ status \in [Repo -> [TaskId -> Status]]
    /\ deps \in [Repo -> [TaskId -> SUBSET Reference]]
    /\ expired \subseteq {t \in Repo \X TaskId : status[t[1]][t[2]] = "in_progress"}
    /\ link \in [Repo -> [Alias -> Repo \cup {NoRepo}]]
    /\ away \subseteq Repo
    /\ call \in [Worker -> Call]
    /\ seen \in [Worker -> SUBSET (Repo \X TaskId)]

Init ==
    /\ status = [r \in Repo |-> [i \in TaskId |-> "none"]]
    /\ deps = [r \in Repo |-> [i \in TaskId |-> {}]]
    /\ expired = {}
    /\ link = [r \in Repo |-> NoLinks]
    /\ away = {}
    /\ call \in [Worker -> {c \in Call :
           c.stage = "idle" /\ c.kind = "claim" /\ c.id = 1
           /\ c.links = NoLinks /\ c.ask = {} /\ c.yes = {}}]
    /\ seen = [p \in Worker |-> {}]

-----------------------------------------------------------------------------
(* Calls that are one transaction on the store of r.                       *)

Write(r, tasks, edges) ==
    /\ Free(r)
    /\ r \notin away
    /\ status' = [status EXCEPT ![r] = tasks]
    /\ deps' = [deps EXCEPT ![r] = edges]
    /\ expired' = StillExpired(r)
    /\ UNCHANGED <<link, away, call>>

\* Whether refs may become the dependencies of task i.
Legal(r, i, refs) ==
    /\ Cardinality(refs) <= MaxDeps
    /\ Local(refs) \subseteq Present(r)
    /\ ~ClosesCycle(r, i, refs)

NextIDs(r) ==
    {i \in TaskId : status[r][i] = "none" /\ \A j \in 1..(i - 1) : status[r][j] # "none"}

Add(r, refs) ==
    \E i \in NextIDs(r) :
        /\ Legal(r, i, refs)
        /\ Write(r, [Reclaimed(r) EXCEPT ![i] = "pending"], [deps[r] EXCEPT ![i] = refs])

\* update --after and --remove-dep
Edit(r, i, refs) ==
    /\ i \in Present(r)
    /\ Legal(r, i, refs)
    /\ Write(r, Reclaimed(r), [deps[r] EXCEPT ![i] = refs])

Remove(r, i) ==
    /\ i \in Present(r)
    /\ Reclaimed(r)[i] # "in_progress"
    /\ \A x \in Present(r) \ {i} : i \notin Local(deps[r][x])
    /\ Write(r, [Reclaimed(r) EXCEPT ![i] = "removed"], [deps[r] EXCEPT ![i] = {}])

\* prune cuts the local edges to what it removes; other stores it cannot see.
Prune(r) ==
    LET gone == {i \in TaskId : status[r][i] = "completed"}
    IN  Write(r, [i \in TaskId |-> IF i \in gone THEN "removed" ELSE Reclaimed(r)[i]],
                 [i \in TaskId |-> IF i \in gone THEN {}
                      ELSE {u \in deps[r][i] : ~(u[1] = "local" /\ u[2] \in gone)}])

\* LoadCurrent of the store of r: by a command there, or by status --all, caps
\* --all, next or what-if of a project that links it.
Load(r) == Write(r, Reclaimed(r), deps[r])

-----------------------------------------------------------------------------
(* The registry of links, leases, and the checkouts.                       *)

\* Wrong: the target is not compared with the project itself.
FaultyLinkable(r, target) == target \notin away

\* link checks that the target has a store and is another project.
Linkable(r, target) == target \notin away /\ target # r

SetLink(r, a, target) ==
    /\ r \notin away
    /\ link' = [link EXCEPT ![r][a] = target]
    /\ UNCHANGED <<status, deps, expired, away, call>>

Link(r, a, target) == Linkable(r, target) /\ SetLink(r, a, target)
Unlink(r, a) == link[r][a] # NoRepo /\ SetLink(r, a, NoRepo)

Expire(r, i) ==
    /\ status[r][i] = "in_progress"
    /\ expired' = expired \cup {<<r, i>>}
    /\ UNCHANGED <<status, deps, link, away, call>>

Move(r) ==
    /\ away' = IF r \in away THEN away \ {r} ELSE away \cup {r}
    /\ \A p \in Worker : Home[p] = r => call[p].stage = "idle"
    /\ UNCHANGED <<status, deps, expired, link, call>>

-----------------------------------------------------------------------------
(* claim and done.                                                         *)

Goto(p, c) == call' = [call EXCEPT ![p] = c]

Begin(p, kind, i) ==
    /\ call[p].stage = "idle"
    /\ Home[p] \notin away
    /\ Goto(p, [call[p] EXCEPT !.stage = Order[1], !.kind = kind, !.id = i,
                               !.ask = {}, !.yes = Cache(p)])
    /\ UNCHANGED data

\* The references snapshotDependencyResolver resolves: those of the claimed task,
\* or of every task for done.
ToAsk(p) ==
    LET r == Home[p]
    IN  UNION {Linked(deps[r][i]) :
            i \in IF call[p].kind = "claim" THEN Present(r) \cap {call[p].id} ELSE Present(r)}

\* The preflight load, which reclaims expired leases.
Preflight(p) ==
    LET r == Home[p]
    IN  /\ call[p].stage = "load"
        /\ Free(r)
        /\ Goto(p, [call[p] EXCEPT !.stage = AfterStage("load"), !.ask = ToAsk(p)])
        /\ status' = [status EXCEPT ![r] = Reclaimed(r)]
        /\ expired' = StillExpired(r)
        /\ UNCHANGED <<deps, link, away>>

ReadLinks(p) ==
    /\ call[p].stage = "links"
    /\ Goto(p, [call[p] EXCEPT !.stage = AfterStage("links"), !.links = link[Home[p]]])
    /\ UNCHANGED data

\* One linked store is loaded, if it can be, and leases that expired there are
\* reclaimed.
Ask(p, u) ==
    LET r == Target(call[p].links, u)
        loaded == r \in Repo \ away
    IN  /\ call[p].stage = "ask"
        /\ u \in call[p].ask \ call[p].yes
        /\ loaded => Free(r)
        /\ Goto(p, [call[p] EXCEPT
               !.ask = @ \ {u},
               !.yes = IF Answer(call[p].links, u) THEN @ \cup {u} ELSE @])
        /\ status' = IF loaded THEN [status EXCEPT ![r] = Reclaimed(r)] ELSE status
        /\ expired' = IF loaded THEN StillExpired(r) ELSE expired
        /\ UNCHANGED <<deps, link, away>>

Asked(p) ==
    /\ call[p].stage = "ask"
    /\ call[p].ask \subseteq call[p].yes
    /\ Goto(p, [call[p] EXCEPT !.stage = AfterStage("ask")])
    /\ UNCHANGED data

Lock(p) ==
    /\ call[p].stage = "lock"
    /\ Free(Home[p])
    /\ Goto(p, [call[p] EXCEPT !.stage = AfterStage("lock")])
    /\ UNCHANGED data

\* claimTask and completeTask.
Accepts(p) ==
    LET r == Home[p]
        i == call[p].id
    IN  /\ Reclaimed(r)[i] \in
               IF call[p].kind = "claim" THEN {"pending"} ELSE {"pending", "in_progress"}
        /\ \A d \in Local(deps[r][i]) : status[r][d] = "completed"
        /\ Linked(deps[r][i]) \subseteq call[p].yes

Outcome(p) ==
    LET r == Home[p]
        new == IF call[p].kind = "claim" THEN "in_progress" ELSE "completed"
    IN  IF Accepts(p) THEN [Reclaimed(r) EXCEPT ![call[p].id] = new] ELSE Reclaimed(r)

Commit(p) ==
    /\ call[p].stage = "commit"
    /\ Goto(p, [call[p] EXCEPT !.stage = "idle"])
    /\ status' = [status EXCEPT ![Home[p]] = Outcome(p)]
    /\ expired' = StillExpired(Home[p])
    /\ UNCHANGED <<deps, link, away>>

\* A process is killed; the kernel drops its lock.
Kill(p) ==
    /\ call[p].stage # "idle"
    /\ Goto(p, [call[p] EXCEPT !.stage = "idle"])
    /\ UNCHANGED data

-----------------------------------------------------------------------------
Proceed(p) ==
    \/ Preflight(p)
    \/ ReadLinks(p)
    \/ \E u \in Reference : Ask(p, u)
    \/ Asked(p)
    \/ Lock(p)
    \/ Commit(p)

WorkerStep(p) ==
    \/ \E kind \in {"claim", "done"}, i \in TaskId : Begin(p, kind, i)
    \/ Proceed(p)
    \/ Kill(p)

StoreCall(r) ==
    \/ \E refs \in SUBSET Reference : Add(r, refs) \/ \E i \in TaskId : Edit(r, i, refs)
    \/ \E i \in TaskId : Remove(r, i)
    \/ Prune(r)
    \/ Load(r)

Around(r) ==
    \/ \E a \in Alias : Unlink(r, a) \/ \E target \in Repo : Link(r, a, target)
    \/ \E i \in TaskId : Expire(r, i)
    \/ r \in Movable /\ Move(r)

Step == (\E p \in Worker : WorkerStep(p)) \/ (\E r \in Repo : StoreCall(r) \/ Around(r))

Remember ==
    seen' = [p \in Worker |->
                IF call'[p].stage = "idle" THEN {}
                ELSE seen[p] \cup Completed \cup Completed']

Next == Step /\ Remember

Spec == Init /\ [][Next]_vars
-----------------------------------------------------------------------------
(* Properties.                                                             *)

(***************************************************************************)
(* Work is claimed or completed on answers that were true: when claim or   *)
(* done changes a task, each linked task it waits for was completed at     *)
(* some moment of that call, however the stores, the links and the         *)
(* dependencies were changed meanwhile.                                    *)
(***************************************************************************)
Commits(p) ==
    /\ call[p].stage = "commit"
    /\ call'[p].stage = "idle"
    /\ status'[Home[p]][call[p].id] \in {"in_progress", "completed"}
    /\ status'[Home[p]][call[p].id] # status[Home[p]][call[p].id]

AnswersWereTrue(p) ==
    Commits(p) => \A u \in Linked(deps[Home[p]][call[p].id]) :
                      <<Target(call[p].links, u), u[2]>> \in seen[p]

CommitsOnTrueAnswers == [][\A p \in Worker : AnswersWereTrue(p)]_vars

(***************************************************************************)
(* "a cycle spanning independent stores can remain unready"                *)
(* (docs/design.md): work that waits for itself for ever does so across    *)
(* projects, never within one, because link refuses the project itself and *)
(* every edit is checked for local cycles.                                 *)
(***************************************************************************)
Unfinished == {t \in Repo \X TaskId : status[t[1]][t[2]] \in {"pending", "in_progress"}}

WaitsFor(t, x) ==
    \E u \in deps[t[1]][t[2]] :
        /\ u[2] = x[2]
        /\ x[1] = IF u[1] = "local" THEN t[1] ELSE Target(link[t[1]], u)

WedgesSpanProjects ==
    \A S \in (SUBSET Unfinished) \ {{}} :
        (\A t \in S : \E x \in S : WaitsFor(t, x)) => Cardinality({t[1] : t \in S}) > 1

(***************************************************************************)
(* "Lock propagation" (docs/concurrency-and-locking.md): a call of one     *)
(* project locks the stores of others.  The linked stores are asked before *)
(* the lock of the own store is taken, so calls of projects that depend on *)
(* each other never wait in a circle for each other's locks.               *)
(***************************************************************************)
Wants(p) ==
    CASE call[p].stage \in {"load", "lock"} -> {Home[p]}
      [] call[p].stage = "ask" ->
             {Target(call[p].links, u) : u \in call[p].ask \ call[p].yes} \ away
      [] OTHER -> {}

NobodyWaitsInACircle ==
    \A S \in (SUBSET Worker) \ {{}} :
        \E p \in S : \A q \in S : Holds(q) => Home[q] \notin Wants(p)

=============================================================================
