# terminal-todo in TLA+

terminal-todo coordinates agents that share a task graph in one file,
`.terminal-todo/tasks.bin`. There is no daemon: every CLI command and every
JSON-RPC or MCP call is a transaction on that file under an advisory lock. The
modules here model what makes that safe: the operations on the graph and its
leases, the transaction around them, the file protocol below it, and what lives
around it: the agents that ask for work and retry, the registry they are listed
in, the projects that wait for each other, the servers, the event log, and the
answers that others act on.

## 1. The system

| Part | State | Operations | Modules |
| --- | --- | --- | --- |
| Store value (`store/store.go`) | tasks, `NextID`, events, `Acquisitions` | `AddTask`, `RemoveTask`, `CleanExpiredLeases`, `AddEvent` | TaskStore |
| Coordination (`internal/cli/coordination_ops.go`, `lease.go`, `handoff.go`) | none of its own | claim, done, release, block, unblock, update, decompose, rm, prune, heartbeat, handoff | TaskStore, Board |
| Allocation (`allocation.go`) | receipts in the store | acquire: rank, filter, load limit, replay; why nothing was found | TaskStore, Board, Worker, Views |
| Transaction (`store.Update`, `store.LoadCurrent`) | lock and file | reclaim, mutate, commit | Board (one step), StoreFile (step by step) |
| File protocol (`writeStore`, `lock/`, `fsutil/`, `init`) | `tasks.bin`, its lock sidecar, temporary files | lock, read, write, fsync, rename, fsync of the directory | StoreFile, AtomicStore |
| Dependency graph (`dag/dag.go`) | none | `DetectCycle`, readiness, blocked tasks | TaskStore, CycleSearch, Views |
| Events, retention (`cmd_events.go`, `cmd_compact.go`, `cmd_backup.go`) | events, receipts, backup files, cursors of consumers | page, compact, backup, restore | Retention |
| Linked repositories (`repository.go`) | `repositories.json`, other stores | link, unlink, resolve | Federation, Registry |
| Agent registry, configuration (`agents.go`, `config.go`) | `agents.json`, `config.json`, with a lock each | touch, agent-card, config | Registry, Worker |
| Servers (`serve.go`, `mcp.go`) | `initialized` flag, MCP handshake | read a line, dispatch, answer | Session; the handlers in Board and Views |
| Views (`bootstrap.go`, `cmd_whatif.go`, `cmd_graph.go`, `cmd_doctor.go`, ...) | none | read only | Views |
| Conformance harness, host installer, flag parsing | workspaces, instruction files | run agents, write files | not modelled |

How they meet: a command first reads what it needs outside the store (the
agent's card, the answers of linked repositories), then calls `store.Update`.
`Update` takes the exclusive lock, reads the file, reclaims expired leases, runs
the operation on the value in memory and writes the value back with
`writeStore`. A query calls `LoadCurrent`: a read under the shared lock and, only
if it found an expired lease, a second read, reclaim and write under the
exclusive one. A server does the same for every request, one after the other.

What makes each part correct, and what is hard about it:

- **Leases.** A task in progress has an owner and an expiry; nobody but the
  owner ends it before the expiry; an expired one is not revived by a late
  heartbeat. Hard: agents crash, calls arrive late, and the clock moves inside a
  transaction, because the reclaim pass and the operation each read it.
- **Graph.** No dangling edge, no cycle, nothing unfinished that can never start.
  Hard: five operations change edges, each with a check of its own.
- **Allocation.** Best task first, load limit, one task per request ID. Hard:
  retries after lost answers while the first call still runs, receipts whose task
  is gone, a card that is edited between its reading and the transaction.
- **Failure of a callback.** The in-memory value is dropped, unless the reclaim
  pass freed a lease. Hard: a batch, or an update, may have got half-way.
- **File.** Serializable, durable when acknowledged, never torn. Hard: kills and
  power losses between any two steps, error returns after the rename, `init`.
- **Feed and log.** The last lifecycle event of a task implies its status; a
  consumer with a cursor misses nothing unawares. Hard: compaction and restore
  while it pages.
- **Links.** Work starts or ends on answers that were true. Hard: the linked
  stores are asked before the transaction, and answer under their own locks.
- **Registry.** No edit is lost. Hard: every edit of any field rewrites the file.
- **Session.** Each answer belongs to its request and says what happened. Hard:
  pipelining, notifications, malformed lines, a peer that goes away, restarts.
- **Views.** What an agent is told must agree with what the next call does. Hard:
  each view decides in code of its own what the operations decide in theirs.

## 2. Modules

| Module | What it is |
| --- | --- |
| `TaskStore` | the store value and every operation on it, as pure operators |
| `Board` | agents calling the operations, one action per command |
| `Views` | the read-only answers, as operators on the states of `Board` |
| `BoardProofs` | the theorems about `TaskStore`, `Board` and `Views` |
| `Worker`, `WorkerProofs` | acquire and claim step by step on `TaskStore` and the registry, with retries |
| `Federation`, `FederationProofs` | several stores that wait for each other through links |
| `Retention`, `RetentionProofs` | the event log, receipts, compact, backup, restore |
| `Registry`, `RegistryProofs` | the locked edits of the three JSON files |
| `Session`, `SessionProofs` | the request loop of `todo serve` and `todo mcp` |
| `AtomicStore` | what `store.Update` promises: one durable value, changed by whole operations |
| `StoreFile`, `StoreFileProofs` | the file protocol, one action per system call that matters; implements `AtomicStore` |
| `CycleSearch`, `CycleSearchProofs` | the depth-first search of `dag.DetectCycle`, step by step |
| `MC...` | small instances of each for TLC |

Three layers: `StoreFile` shows that a transaction on the store is one step, and
`Registry` the same for the JSON files. `Board`, `Worker`, `Federation` and
`Retention` take that as given, each with the detail its questions need; `Views`
and `Session` sit on top.

### TaskStore and Board

`TaskStore` has one operator per Go function that changes the store, of the form
`ClaimTask(s, id, a, ttl, resolved, now)`. It returns an `Outcome`: whether the
callback returned nil, and the store it left in memory. `Guarded(guard, before,
after)` is a callback that checks everything before it writes; `CompleteBatch`,
`ReleaseBatch` and `UpdateTask` are the ones that do not. `Committed(s, now,
outcome)` is the rule of `store.Update` for what is written back.

`Board` has the committed store and the wall clock as variables. Each action is
a whole call: `Transact(ClaimTask(Reclaimed, ...), at)` reclaims at `now`, runs
the operation at some later `at`, and commits. Calls that fail are steps too.
`resolved` is what the resolver answers for dependencies on linked repositories:
any set of them, since they change at any time. `NoActor` is a call without
`--as`, which the commands other than claim, acquire, heartbeat and handoff
accept.

Abstracted: titles, tags, lineage (a variable of `Views`), logs, the extra map (whether its size limit
is met is a nondeterministic Boolean, `fits`), the text of errors, priorities
(`0..TopPriority` for 0.0 to 1.0), and the event list, of which each task keeps
its last `Memory` lifecycle events. `updated`, `lease_renewed`, `dep_added` and
`dep_removed` do not change what a watcher believes of the status and are left
out. Batches have at most two IDs. An ID that is not a key of the map is a task
with status "absent". Overflow of expiries cannot happen with accepted TTLs and
is not modelled. The clock never goes back; the code has no defence against one
that does, and none of the documents promises any.

### StoreFile and AtomicStore

`file` is what the name `tasks.bin` refers to for the running processes, `disk`
what it would refer to after a reboot. A file is `cached` until its `Sync`
(`Flush`), and a power loss turns a cached file into a torn one. The rename
changes `file`; only the fsync of the directory brings `disk` up to it, though a
power loss may find either (the kernel may have written the entry on its own).
The contents are the set of operations applied and one lease with a count of its
expiries. `Rename` needs the temporary file to be there: `DoctorFix` may take it
from a writer that was suspended for an hour. Any step can fail (`LockFails`,
`ReadFails`, `MutateFails`, `SaveFails`), and any process can be killed, which
frees its lock because the kernel closes the descriptor. A temporary file left
by a killed process is out of reach of the others (its name is random) and is
dropped at once.

Only the successful attempt at the lock is a step: a failed poll changes nothing.
`AcquireWithTimeout` is always called without a timeout. The lock sidecar is
never replaced, so one lock per store is enough. On Windows `SyncDir` does
nothing: that is the wrong variant `FaultyDirectoryOnDisk`, under which
`AckedIsDurable` fails, as docs/compatibility.md concedes; it is not a
configuration of the model.

`AtomicStore` is the promise: a value to which whole operations are applied one
at a time, where acknowledged operations stay. `StoreFile` implements it with
`value <- file.data`, `acked <- acked`.

### CycleSearch

The search of `DetectCycle` with its explicit sets (`visited`, `onStack`,
`path`). Go iterates maps in any order, so the next root and the next neighbour
are any that are left. `TaskStore` uses the specification of the search, that a
cycle exists; `VerdictIsRight` connects the two.

### Retention

The store again, with tasks reduced to their status and the event log in full.
`Poll` is one page of `events`: the oldest `limit` events after the cursor,
`next_since`, and the retention gap; the cursor is the consumer's own.
`CompactEvents` keeps the newest, `CompactReceipts` computes its cutoff modulo
`Width` (2^64) and spares the receipts of unfinished tasks. `Restore` puts a backup
back with its counters; for a file that does not exist `Load` makes a new store,
and that is what is committed. IDs are then issued again, so events of the model
carry an era that the code does not have.

History is outside the store, where no restore takes it back: every event and grant
there ever was (`issued`, `granted`), the events that led to the present store and
to each backup (`past`, `saved`), what each consumer was sent (`seen`) or told as a
gap (`told`). What a restore may cost a consumer is spelled out in `NothingMissed`
(`Outdated`), what it may cost a retry in `RetriesFindTheirGrant`: nothing while
the grant is part of the present history, and everything once it is not.

### Registry

The files `agents.json`, `repositories.json` and `config.json`, each under a lock
sidecar of its own. `Load` reads the file and runs the callback (`Touched`,
`Carded`, `Linked`, `Unlinked`, `Configured`); `Write`, `Rename` and `SyncDir` are
the steps of the atomic replacement; `Leave` is the deferred release. Readers take no
lock. `EditsAreAtomic` is the abstraction the other modules rely on.

### Worker

`acquire` as a process runs it: `Register` (touchAgent), `Plan` (the card), a
look at the store, the transaction (`TryAcquire`), the next round of `--wait`, the
reply. `claim` likewise. The agent is a separate actor: it may give up on a call
(`GiveUp`) and send it again to another process while the first still runs, or
go on working on what it was told (`belief`). `Fingerprint` is what a
reused request ID is compared by. Tasks have no dependencies here.

### Federation

Of each store the status and edges of its tasks; of a lease only whether it has
run out. A `Worker` runs `claim` or `done` in the order of the code: load the
own store, read the links, ask every linked store (each a load under that
store's lock, which may reclaim), take the own lock, commit. Meanwhile all
stores, links and leases change, and a checkout may be missing (`away`).
`seen` is history: what was completed at some moment of the call.

### Session

One server process and its client. A line is found blank, oversized, invalid,
undecodable, unversioned or a request (`Form`); a request is dispatched by the
table of `serve.go` or, for MCP, through the handshake of `mcp.go`. `initialized`
is the flag that is set when the process starts and by `init`, `exists` whether the
store is there. `Deliver` writes the answer; `LoseAnswer` is a peer that has gone,
which ends the process. A call that is refused leaves no trace of its own, or is
committed half-done: `store.Update` writes the store after a failed callback too if its
reclaim pass freed a lease (`CommitPartly`). A server and a client see the same
refusal in both cases, so this can happen to any refused operation. `applied`, `partly`
and `handled` are history.

### Views

Operators on a store: `Diagnoses`, `NextWork`, `WhatIf`, `NewlyReadyAfter`,
`Objectives`, `ObjectiveProgress`, `CapabilityDemand`, `Brief` (bootstrap), both
capability reports, `Problems` and `OrphanedDeps` (doctor). The module runs the
calls of `Board`, with lineage as a variable of its own, and compares each view
with the call it informs.

A diagnosis lists at most `MaxItems` missing capabilities and blockers (20 in the
code) and shortens values of more than 96 bytes, so that they name nothing any more;
it says so with a flag (`truncated`). `Bounded` is that cut. Which items the code keeps is decided by
the order of their strings, which the model does not have: it allows any choice.
`Long` are the values that are shortened; they are not among the items.

## 3. Runs

| Run | Instance | Shows |
| --- | --- | --- |
| `board_lease` | 2 tasks, 2 agents, 1 linked task, 1 request ID, clock to 3, TTL 0 or 2 ms | `LeaseShape`, `FeedTellsStatus`, `HoldersKeepLeases`, `NoRevival`, `WorkStartsReady` |
| `views_plan` | 3 tasks, 1 agent and anonymous callers, decompose into at most 2 | `DoctorFindsNothing`, `CompletedIsFinal`, `ProgressIsHonest`, `SubtasksAreCounted`, `UnblockedIsNews`, `WhatIfComesTrue`, `DiagnosisHelps` |
| `views_worker` | 2 tasks, a skilled and an unskilled agent, 1 request ID, 2 priorities, 2 capabilities, one of them too long to list, load limit 1 | `ViewsForecastCalls`, `ReceiptsBacked`, `AcquireTakesBest`, `DiagnosisHelps` |
| `file_atomic` | 2 processes on an existing store, 2 updates each, any number of queries and of `init`, 1 power loss | `NeverTorn`, `NoLostUpdate`, `AckedIsDurable`, `LockIsReleased`, `ImplementsAtomicStore` |
| `cycle_search` | all 512 graphs over 3 tasks | `VerdictIsRight`, `Terminates` |
| `retention_log` | 1 task, 1 request ID, 4 events, 1 consumer with pages of 1 or 2, 1 backup file, 1 restore | `NothingMissed`, `RetriesFindTheirGrant` |
| `session` | a server of either kind, its client, 2 or 3 frames, restarts | `AnswersMatch`, `AnswersTellTheTruth`, `HandshakeFirst`, `RequestsAreAnswered` |
| `registry_edits` | 2 processes, 2 edits each, 1 agent, 1 alias, 1 config key, 2 clock values | `EditsAreAtomic`, `FieldsHaveAuthors`, `LocksAreReleased` |
| `worker_calls` | 2 tasks, 2 agents, 2 processes, 2 calls, 1 request ID, limit 0 or 1, clock to 3 | `OneTaskPerRequest`, `BelievedLeasesAreHeld`, `OwnersAreRegistered`, `GrantsRespectThePlan` |
| `federation_answers` | 2 projects with a task and a worker each, one may be moved away | `CommitsOnTrueAnswers`, `NobodyWaitsInACircle`, `WedgesSpanProjects` |
| `board_failed_batch` | 2 tasks, 2 agents | violated: a failed batch leaves its first half (section 6) |
| `file_init` | 2 processes, both may run `init`, no store at first | violated: an `init` that looked before another process created the store empties it (section 6) |

Why the bounds are enough for what they ask:

- Two agents and two tasks are what a stolen lease, a wrong load count or a
  priority inversion needs; nothing in the code looks at more than one other
  owner. Three clock values with a TTL of 2 let a lease be alive, run out between
  the two clock reads, and be taken over and run out again; a TTL of 0 is what
  `ttl.Milliseconds()` makes of a duration below a millisecond.
- Three tasks give every shape of short cycle, a chain, two prerequisites of one
  task, and a decompose of one into two. `MaxEdits = 1` still reaches every graph,
  in several updates; the proofs cover any number.
- `Memory = 1` suffices for the last event.
- Two processes with two updates each let one overwrite the other's work and find
  out later; three and more are covered by the proofs. One power loss at every
  point covers each step; the state after a reboot is again a state with an
  existing store. `init` on an existing store must change nothing: that is why it
  is in `file_atomic`; on an absent one it is `file_init`.
- Four events are two pages of two, or a page, a compaction in the middle, and a
  page after it. One backup and one restore, of it or of a file that is not there, let a
  cursor be ahead of the log and of other events with its ID.
  `Width = 8` exceeds the clock, so that the cutoff wraps only where the code's
  does: for a duration longer than the clock, which the run leaves out.
- A diagnosis lists one item in both runs about views (`MaxItems = 1`). Two missing
  capabilities are more than that (`views_worker`), and so are two blockers of a third task
  (`views_plan`); one capability cannot be spelled out. Linked blockers are left to
  the proof, which is for lists of any length.
- Three frames are `initialize`, `notifications/initialized` and a tool call;
  native sessions need two, for one answer to be given to the other. `MaxPipe = 2`
  is two pipelined requests.
- One request ID is enough for it to be retried by its agent and reused by
  another; two calls, for the retry to overtake the first.
- One task per project suffices for two projects that wait for each other, and for
  `done` to ask while the other store prunes or reopens its task.
- Task IDs, events, the clock, retries, children, edits and calls are capped by
  guards (`MaxTasks`, `MaxEvents`, `MaxTime`, `MaxStamp`, `RetryCap`,
  `MaxChildren`, `MaxEdits`, `MaxOps`, `MaxCalls`, `MaxFrames`, `MaxRestores`,
  `MaxLosses`); the code has no such caps.

Symmetry: agents in `board_lease`; agents and processes in `worker_calls`. Nothing
orders them, and no liveness property is checked in those runs. Deadlock is checked
but in `cycle_search`, where the search really stops, and in `registry_edits`,
`retention_log` and `worker_calls`, where everything may come to rest when the
bounds are used up.

Fairness, and why the code justifies it. All of it is weak, and all of it is of a
process that is inside a call or a loop:

- `StoreFile`: `Work(p)`, a process inside a call is scheduled until the call is
  over. `Registry`: `Proceed(p)`, the same. A kill discharges the properties as
  well, since the lock goes with the process.
- `CycleSearch`: the whole loop, which is one goroutine.
- `Session`: `Serve(s)`, the loop reads what is in its pipe and writes what it has
  dispatched. Nothing is assumed of clients.

Nothing is assumed of new calls, of the environment, or of who gets a lock:
contenders poll, a writer may starve behind readers, and no property says
otherwise.

The type invariant of each module (`TypeOK`, `ViewsTypeOK`) is stated in it and
part of the inductive invariant below that is about it, so that it is proved and
needs no run. Likewise `GraphIntact`, `Acyclic`, `ExpiredOnce` and
`RegistrationIsForGood` are theorems; in the runs the same mistakes are caught by
`DoctorFindsNothing`, `ImplementsAtomicStore` and `FieldsHaveAuthors`.

Operators named `Faulty...` are wrong variants of the operator below them. No
specification uses them: they document which mistake each property would catch.

## 4. Proofs

Every safety property that a passing run checks is also a theorem, for every value
of the constants: state invariants, action properties and the refinement. What is
left to TLC is at the end of this section.

`BoardProofs` has three parts: states, steps, and views.

**States.** For any number of tasks, agents, linked tasks, request IDs and clock
values, and any TTLs, `TypeOK`, `LeaseShape`, `GraphIntact` and `Acyclic`
are invariants of `Board`. The assumptions are those on the constants
in `TaskStore` and `Board`: counts are naturals, and the names of agents, linked
tasks and the absent receipt do not collide with other values.

The inductive invariant is `IInv`: the clock is in range and the store is
`Sound`, that is, well typed, with whole leases (`LeaseWhole`), an intact graph
(`Rooted`) and no cycle (`NoCycle`). The four belong together. Typing alone does
not keep acyclicity: a task added under `NextID` closes no cycle only because no
edge points to that ID yet, which is `Rooted`; whole leases need the clock to be
positive, since an expiry of 0 means none. `Committed` may write back the store of
a failed callback, so it is not enough that successful operations preserve soundness: each lemma says that
the *outcome* of an operation is sound whether it succeeded or not. That is how
the proof answers the hazard at `store.go:404`: a half-done batch breaks the
documented atomicity, and never the invariants.

There is one lemma per operation (sound in, sound out), one for the reclaim
pass, one for `Committed`, and the step lemma goes through the actions of
`Next`. The graph part rests on `DetectCycle` being the absence of a nonempty set
in which every member has a prerequisite: removing edges, adding a fresh task and
replacing the edges of a checked task keep it. That `acquire` picks a task
(`CHOOSE`) needs the existence of a least ready task, `BestExists`, by
well-founded induction on finite sets of IDs.

**Steps.** `Effect(s, u, b, t)` says what a call of `b` that ends at time `t` may make
of the store `s`: completion and IDs are final (`Lasting`), a lease of somebody
else that runs beyond `t` is left alone (`Spared`), what starts or completes has its
prerequisites completed, and a grant took the first ready task (`BestGranted`).
Each operation has a lemma that its outcome is such a `u`, whether the callback
succeeded or not. `EffectFromStore` carries the relation from the reclaimed store,
on which the callback runs, to the committed one that the properties compare with;
`StepEffect` goes through `Next`. `CompletedIsFinal`, `WorkStartsReady`, `AcquireTakesBest`
and `HoldersKeepLeases` are read off it; the last excludes calls of the holder
only, so `CallEffect` is stated per caller. `NoRevival` is about one operation and
needs only what `RenewLease` guards. Three clauses of `Effect` are
invariants that need it: receipts are of tasks that are there, an absent task has
no edges, and the last event of a feed tells the status (`Faith`). They give
`ReceiptsBacked` and, if `Memory > 0`, `FeedTellsStatus`. That hypothesis says that the
model remembers an event at all: with `Memory = 0`, which the runs about views use
to save states, there is nothing to believe.

**Views.** Every step of `ViewsSpec` is a step of `Board` as far as the store goes
(`ViewsStepsAreCalls`), so the invariants carry over.

- `DoctorStaysSilent` takes doctor's findings one by one; each contradicts a part of
  `Sound`. What doctor checks in its own code is what `Board` guarantees.
- `UnblockedListIsNews` and `WhatIfIsRight` compare the store after a batch of
  completions (`BatchCompletes`) with the simulated one.
- `DiagnosisIsRight` goes through the reasons. The one that is not immediate is
  `dependencies_incomplete`: that completing the named blockers makes a task
  ready needs a pending task no other pending task waits for (`SomethingIsLast`), which
  exists because the graph has no cycle. It holds for lists of any length and any cut of
  them: a list names values of its set, and all of them unless it says that it is
  truncated (`BoundedLists`). What is promised of a truncated one is that the next
  diagnosis, once the worker has dealt with the values listed, gives a reason to go on and
  names others.
  `ForecastsAreRight` does the same for next,
  the session brief, caps and dependents.
- `ProgressStaysHonest` and `SubtasksStayCounted` are about what is reached along
  edges. `Reached` is a recursive function; `ReachedIsLeast` shows that it is
  the least set with the root that is closed under the edges. Its lemmas go by
  induction over a set of numbers (`CountingUp`), since the library's induction
  theorems cannot be used: the function exists, its stages stay
  inside every closed set, and a stage that is not closed has more than `n` members, so
  that the last one must be closed. 100 percent then means that the whole closure
  is completed, and a prerequisite of it would be in it (`Rooted`).
- `SubtasksStayCounted` needs a second relation between stores, `EdgesKept`: an edge
  between two tasks that stay is kept. Every operation but an update that drops
  an edge satisfies it. The invariant `Counted` adds that a lineage is always
  below `nextID` and is none where there is no task: IDs are not reused, so a
  subtask cannot become the child of a stranger.

`StoreFileProofs` proves, for any set of processes and any number of calls and
power losses, `TypeOK`, `NeverTorn` and `ExpiredOnce` of `StoreFile`, and, where
nobody runs `init` (`Initializers = {}`), `NoLostUpdate`, `AckedIsDurable` and
`ImplementsAtomicStore`. That hypothesis is needed: in `file_init` an
`init` that looked too early empties the store. The argument has three layers, each
inductive given the ones before it.

- `FileInv` is the protocol. The lock is exclusive (`Exclusion`), every stage of
  `writeStore` is under the exclusive lock and a temporary file is flushed before
  it is renamed (`Discipline`), and each store, on disk or in memory, has at most
  one expiry (`Leases`).
- `DataInv` is what a process carries from its read to its report (`Carries`):
  what it is about to write contains all that the file has; once it is in
  `leaving` with a good verdict, its operation is in the file and on stable
  storage. A rename keeps what the others carry, because `Discipline` and
  `Exclusion` leave nobody else between a read and a rename.
- `StepInv` makes each rename one transaction. What is about to replace the file
  is the file with one operation more, after a reclaim or not, or the file after
  a reclaim (`Added`, `Expired`), and stable storage lags behind by whole
  transactions (`Lag`). `AtomicStep` then maps `Rename` to `Apply` or `Expire`,
  `Leave` to `Ack` or a stutter, `PowerLoss` to `Revert`, and all else to a
  stutter.

`RetentionProofs` proves `NothingMissed` and `RetriesFindTheirGrant` for any number of
consumers, page limits, compactions, backups and restores, those of a missing file
included. The invariant has four parts besides the types. What is left of a log is what came
last in its history, for the store and for what each backup would restore (`Stores`).
Histories are branches of one tree: two that share an event share all before it
(`Branches`, from `Agree`). An event of the present era is in the present history, so
that the next one is new (`Known`). A cursor is 0 or the ID of an event that was sent
(`Placed`), and for *every* history, not only the present one, a consumer has dealt with the events up
to its cursor or has seen a later one of another history (`Followed`, from `Dealt`): this is
what a restore needs, since it makes any backup's history the present one. Two lemmas carry
the step of a page: it is downward closed, and what compaction keeps is upward
closed. `GInv` gives `RetriesFindTheirGrant`: a grant in the history of the store, or of a
backup, has its receipt there while its work is unfinished.

`RegistryProofs` proves, for any number of processes, `EditsAreAtomic`,
`FieldsHaveAuthors` and `RegistrationIsForGood`. The invariant: whoever is inside an
edit holds the lock of its file (`Busy`, `Locked`), and what it is about to rename
is its callback applied to the file as it is now (`Drafted`). Rename is the only step
that changes a file, so the three action properties follow from `Drafted`.

`FederationProofs` proves `CommitsOnTrueAnswers` for any number of projects,
aliases, tasks and workers. The invariant (`Answered`) says that what the resolver
has found completed was completed at some moment of this call under the links the
call has read; it holds because the resolver starts empty in every call, which is
the wrong variant `FaultyCache`. `NobodyWaitsInACircle` follows from the order of
the calls alone: a call holds its store's lock only in its last step, and there it
wants no other (`HoldsToCommit`). `WedgesSpanProjects` needs that no project has a cycle
of its own and none links itself (`Untangled`), which every edit keeps; a set that
waits for itself must then have tasks of two projects. It compares the size of
sets of projects, so the module assumes that there are finitely many.

`SessionProofs` proves `AnswersMatch`, `AnswersTellTheTruth` and `HandshakeFirst` for any
number of servers, frames and pipelined lines. Frames are numbered as they are
sent, and the invariant keeps each number in one place (`Numbered`): in a pipe, or
among what a server has handled or answered, and a server reads and answers in
the order sent (`Ordered`). Without it an answer could be taken for that of a later
request, or an operation be found applied before its frame was read. What changed
the project is `applied` or `partly` (`Changed`), and `Effect` says which answer goes
with which: a committed operation is reported as done or as a storage error, a
half-done one as refused.
`Handshaken` says that the two flags of the process at hand tell what it has
handled, which `HandshakeFirst` needs across restarts.

`WorkerProofs` proves `OneTaskPerRequest`, `BelievedLeasesAreHeld`,
`OwnersAreRegistered` and `GrantsRespectThePlan` for any number of agents,
processes, calls and request IDs. `BelievedLeasesAreHeld` is not inductive: a reply
that is still on its way becomes a belief, and a receipt becomes a reply when a retry is replayed.
So the invariant asks the same of both (`Believable`), each until the lease runs
out or the agent has ended the work itself. `Moves(s, u, a, E)` is what a
transaction of agent `a` may do to the work of others; each operation is shown
to be such a move. `ByReceipt` (a request ID is answered by its receipt, and by
nothing before there is one) gives `OneTaskPerRequest`; that a process at work serves
a registered agent (`Serving`, `Believers`) gives `OwnersAreRegistered`.

`CycleSearchProofs` proves `VerdictIsRight` for every graph over any set of nodes, finite
or not, and any order of iteration. The invariant: the stack is the path
without repetition (`Stacked`), each node of it is a neighbour of the one below,
which has otherwise looked only at nodes that were left (`Walked`), and the nodes that were
left have no way out and no set of them in which each has a prerequisite
(`Settled`). The last clause makes the induction over the graph unnecessary: when a node is
left, all its neighbours are, and no such set can contain it.

The theorems assume only the named assumptions on the constants and two
hypotheses of their own: `Initializers = {}` for those about the contents of the
store file (in `file_atomic` processes do run `init`, on a store that exists)
and `Memory > 0` for the feed.

Model-checked only:

- Liveness (`LockIsReleased`, `LocksAreReleased`, `Terminates`,
  `RequestsAreAnswered`): the proof system has no support for fairness.
- The two violations of section 6, which are counterexamples.

Left to prove: that the models agree with each other where one takes the
result of another for granted. `TaskStore.DetectCycle` is the specification
`CycleSearch` meets, `Retention` and `Federation` restate operations of `TaskStore`
for fewer fields, and `Worker` calls those operations from steps of its own;
that they are calls of `Board` up to these abstractions is not a theorem yet.

## 5. Not modelled, and why

- Schema migrations of the store: they run once, sequentially, on data of older
  versions. Logs, tags and time stamps other than the lease: no decision reads them.
- `log`, `search`, `cat` and `export`: they append or print text. `watch` loads the
  store for a dashboard and prints it; it reads no events and keeps no cursor.
- In `Worker` nobody removes, prunes or compacts: after that a replay allocates anew,
  as docs/compatibility.md:133-138 says. `restore` is an action of `Retention`
  only: `Board`'s properties about IDs and completed work hold between restores.
- Parsing of flags, URIs and limits on input: pure input handling.
- The conformance harness (`conformance/`, `cmd_conformance*.go`): it drives
  external agents against a copy of the system and scores the transcripts; the
  concurrency in it is that of the agents.
- The installer of host integrations: it writes files one after the other, without
  state of its own.
- Schemas of MCP tools and the compact summaries of results: data.
- Windows, where `SyncDir` does nothing and the lock is of another kind.
- That `acquire --wait` returns by its deadline: the loop and its deadline are in
  `Worker`, whose run checks safety only. A clock that goes back: the code has no
  defence against one, and no document promises any.
- That a writer gets the lock in the end: the code does not provide it.

## 6. Where the code and its documents differ

Shown by a run:

- `board_failed_batch`. A failed mutation can commit part of its work
  (`store.go:403-409`), when an expired lease was reclaimed in the same transaction.
  `store/fault_test.go:154` says it must commit nothing; the test has no expired
  lease.
- `file_init`. `init` checks for `tasks.bin` outside the lock (`cmd_init.go:14`,
  `serve.go:708`) and then saves an empty store: one that looked before another process
  created the store erases the tasks added since; README.md:590 promises no lost
  updates. All other operations keep that promise
  (`file_atomic`).

Met while modelling; the models follow the code:

- A lease that expires between the reclaim pass and `claimTask` is handed over
  without a `lease_expired` event (`coordination_ops.go:53`);
  docs/security-and-data.md:165 says expired leases are recorded as events.
- `RemoveTask`, and so prune, deletes the receipts of its tasks (`store.go:257`), as
  docs/compatibility.md:133 explains; docs/security-and-data.md:104 says prune does not.
- The cutoff of `compact --receipts-before` is unsigned (`cmd_compact.go:92`): a
  duration longer than the time since 1970 wraps it, and every receipt of finished
  work counts as old, however recent; `cli_registry.go:444` says "Drop receipts older
  than this".
- `restore` replaces the event counter with the rest (`cmd_backup.go:52`), so event
  IDs are issued again; docs/agent-protocol.md:466 and docs/compatibility.md:84 say that
  they are never reused. A consumer can notice the rollback only while
  `latest_event_id` is below its cursor; `NothingMissed` says what it can miss
  otherwise (`Outdated`).
- `restore` of a file that does not exist commits an empty store: `store.Load` returns a
  new one for it (`store.go:419-423`). A restore to before a grant takes its
  receipt with it, and a retry of the acquire allocates anew.
- A call of a server that is refused may have taken effect in part, for the reason that
  `board_failed_batch` shows; the client is told of the refusal only.
- A server looks for the store once (`serve.go:531`). One that was started before
  another process ran `init` answers `NOT_INITIALIZED`, which
  docs/agent-protocol.md:610 explains as "No `.terminal-todo/` found".
- The card is read before the transaction of acquire (`coordination_ops.go:324`);
  docs/design.md:84-90 lists the capability filter and load limit as parts of one
  exclusive transaction. `GrantsRespectThePlan` holds for the limit that was
  read.
- A retry of acquire replays its grant even when the lease has run out and the task
  has gone to somebody else (`allocation.go:318`); "agent retries are safe"
  (README.md:80) is true of the number of tasks, not of the lease. `Worker`
  counts as believed only leases that the reply says are still running.
- `todo caps --as X` leaves out the tasks of X, as its help says
  (docs/agent-protocol.md:703), while `todo.caps` with an actor counts only the tasks of that
  actor (`serve.go:2392`).
- prune cleans local edges only (`coordination_ops.go:568`): a task of another
  project that waits for a pruned one is never ready again. The comment at 531-533
  says that the absence means nothing there; README.md:374 promises readiness once
  the linked task is complete.
