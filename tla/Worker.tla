------------------------------- MODULE Worker -------------------------------
(***************************************************************************)
(* Agents that ask for work: the calls acquire (once or with --wait) and   *)
(* claim as the processes that serve them run them, step by step, on the   *)
(* agent registry and the store of TaskStore.  A call registers the agent, *)
(* reads its card into a plan, reads the store, and only then opens the    *)
(* transaction; replies get lost, agents give up on a call and retry it    *)
(* while the first one still runs, processes are killed, cards are edited. *)
(*                                                                         *)
(* An edit of agents.json is one step here: Registry shows why it may be.  *)
(* Tasks have no dependencies here; Board has them.                        *)
(***************************************************************************)
EXTENDS TaskStore

CONSTANTS
    Proc,      \* CLI processes, or requests inside a server
    NoProc,    \* the agent waits for no call
    NoId,      \* a call names no task, or has no request ID
    Limits,    \* values of max_load, 0 for no limit
    Lease,     \* the default TTL
    Waits,     \* values of --wait, 0 for none
    MaxTime,   \* bound on the clock
    MaxCalls   \* bound: calls of acquire and claim

ASSUME WorkerAssumption ==
    /\ NoProc \notin Proc /\ NoId \notin TaskId \cup RequestId
    /\ 0 \in Limits /\ Limits \subseteq Nat /\ Waits \subseteq Nat
    /\ Lease \in Nat /\ MaxTime \in Nat \ {0} /\ MaxCalls \in Nat
    /\ Remote = {}

Card == [known : BOOLEAN, caps : SUBSET Capability, load : Limits]

\* --capabilities was not given: the registered ones are used.
Registered == [explicit |-> FALSE, caps |-> {}]
Mode == {Registered} \cup [explicit : {TRUE}, caps : SUBSET Capability]

\* acquireFingerprint: who asks, and for which capabilities; neither the card
\* nor the wait is part of it.
Fingerprint == [actor : Actor, mode : Mode]

Granted == [print : Fingerprint, id : TaskId, lease : Nat]

ASSUME GrantedAssumption == NoReceipt \notin Granted

Call ==
    [kind : {"none", "acquire", "claim"}, actor : Actor \cup {NoActor},
     rid : RequestId \cup {NoId},
     mode : Mode, id : TaskId \cup {NoId}, deadline : 0..MaxTime,
     caps : SUBSET Capability, load : Limits, lease : Nat]

VARIABLES
    store,     \* the committed contents of tasks.bin
    card,      \* the committed contents of agents.json
    now,       \* the clock
    pc,        \* where each process is
    call,      \* the call it serves, and later its plan and its answer
    awaits,    \* the process whose reply each agent waits for
    belief,    \* the leases each agent was told of and has not given up
    answered,  \* the request IDs whose reply was delivered
    answers,   \* the tasks ever granted or replayed under each request ID
    ended,     \* the tasks whose work each agent ended itself
    calls      \* calls begun

told == <<belief, answered, answers, ended>>
vars == <<store, card, now, pc, call, awaits, told, calls>>

Stage == {"idle", "registering", "planning", "reading", "trying", "replying", "failing"}

Idle(a) ==
    [kind |-> "none", actor |-> a, rid |-> NoId,
     mode |-> Registered, id |-> NoId, deadline |-> 0, caps |-> {}, load |-> 0,
     lease |-> 0]

NoCall == Idle(NoActor)

TypeOK ==
    /\ store.task \in [TaskId -> Task]
    /\ store.nextID \in 1..(MaxTasks + 1)
    /\ store.receipt \in [RequestId -> Granted \cup {NoReceipt}]
    /\ card \in [Actor -> Card]
    /\ now \in 1..MaxTime
    /\ pc \in [Proc -> Stage]
    /\ call \in [Proc -> Call]
    /\ awaits \in [Actor -> Proc \cup {NoProc}]
    /\ belief \in [Actor -> SUBSET [id : TaskId, lease : Nat]]
    /\ answered \subseteq RequestId
    /\ answers \in [RequestId -> SUBSET TaskId]
    /\ ended \in [Actor -> SUBSET TaskId]
    /\ calls \in 0..MaxCalls

Init ==
    /\ store = NewTaskStore
    /\ card = [a \in Actor |-> [known |-> FALSE, caps |-> {}, load |-> 0]]
    /\ now = 1
    /\ pc = [p \in Proc |-> "idle"]
    /\ call = [p \in Proc |-> NoCall]
    /\ awaits = [a \in Actor |-> NoProc]
    /\ belief = [a \in Actor |-> {}]
    /\ answered = {}
    /\ answers = [r \in RequestId |-> {}]
    /\ ended = [a \in Actor |-> {}]
    /\ calls = 0

Reclaimed == CleanExpiredLeases(store, now)

-----------------------------------------------------------------------------
(* The agent, and the process that serves its call.                        *)

Goto(p, stage) == pc' = [pc EXCEPT ![p] = stage]

\* Wrong: the agent is not registered.
FaultyFirstStage == "planning"

FirstStage == "registering"

Begin(p, a, c) ==
    /\ pc[p] = "idle" /\ awaits[a] = NoProc /\ calls < MaxCalls
    /\ calls' = calls + 1
    /\ call' = [call EXCEPT ![p] = c]
    /\ awaits' = [awaits EXCEPT ![a] = p]
    /\ Goto(p, FirstStage)
    /\ UNCHANGED <<store, card, now, told>>

\* A request ID is used for one allocation: it is retried until an answer
\* arrives and then not used again.
BeginAcquire(p, a, rid, mode, wait) ==
    /\ rid \notin answered
    /\ Begin(p, a, [Idle(a) EXCEPT
           !.kind = "acquire", !.rid = rid, !.mode = mode,
           !.deadline = IF wait = 0 THEN 0
                        ELSE IF now + wait <= MaxTime THEN now + wait ELSE MaxTime])

BeginClaim(p, a, id) == Begin(p, a, [Idle(a) EXCEPT !.kind = "claim", !.id = id])

\* touchAgent.
Register(p) ==
    /\ pc[p] = "registering"
    /\ card' = [card EXCEPT ![call[p].actor].known = TRUE]
    /\ Goto(p, IF call[p].kind = "acquire" THEN "planning" ELSE "reading")
    /\ UNCHANGED <<store, now, call, awaits, told, calls>>

\* newAcquirePlan and agentAllocationProfile: an agent without a card has no
\* capabilities and no limit.  The plan is not read again while --wait retries.
Plan(p) ==
    /\ pc[p] = "planning"
    /\ LET c == call[p] IN
       call' = [call EXCEPT
           ![p].caps = IF c.mode.explicit THEN c.mode.caps ELSE card[c.actor].caps,
           ![p].load = card[c.actor].load]
    /\ Goto(p, "reading")
    /\ UNCHANGED <<store, card, now, awaits, told, calls>>

\* The preflight read of the store: LoadCurrent reclaims what has expired.
Preflight(p) ==
    /\ pc[p] = "reading"
    /\ store' = Reclaimed
    /\ Goto(p, "trying")
    /\ UNCHANGED <<card, now, call, awaits, told, calls>>

\* Wrong: the receipt is looked for but never stored.
FaultyRecorded(s, rid, receipt) == s

Recorded(s, rid, receipt) == [s EXCEPT !.receipt[rid] = receipt]

\* Wrong: the limit is not looked at in the transaction.
FaultyFull(s, c) == FALSE

Full(s, c) == AtCapacity(s, c.actor, c.load)

\* acquireFromStore: `got` is what a replay or a grant returns.
Allocate(s, c) ==
    LET print == [actor |-> c.actor, mode |-> c.mode]
        old == s.receipt[c.rid]
        ready == ReadyTasks(s, c.caps, {})
        first == CHOOSE x \in ready : \A y \in ready \ {x} : RankedBefore(s, x, y)
        got == [print |-> print, id |-> first, lease |-> now + Lease]
        leased == SetTask(s, first, Leased(s.task[first], c.actor, now + Lease))
    IN  IF old # NoReceipt
        THEN [reason |-> IF old.print = print THEN "ok" ELSE "conflict",
              store |-> s, got |-> old]
        ELSE IF Full(s, c) THEN [reason |-> "at capacity", store |-> s, got |-> old]
        ELSE IF ready = {} THEN [reason |-> "no work", store |-> s, got |-> old]
        ELSE [reason |-> "ok", store |-> Recorded(leased, c.rid, got), got |-> got]

\* Only a lack of work is waited for.
KeepsWaiting(c) == now < c.deadline

\* Wrong: a replay is reported with a fresh expiry.
FaultyReported(got) == now + Lease

Reported(got) == got.lease

\* One transaction of acquire.  After a sleep --wait starts over with the
\* preflight read.
TryAcquire(p) ==
    /\ pc[p] = "trying" /\ call[p].kind = "acquire"
    /\ LET c == call[p]
           try == Allocate(Reclaimed, c)
       IN  /\ store' = Committed(store, now, Outcome(try.reason = "ok", try.store))
           /\ \/ /\ try.reason = "ok" /\ Goto(p, "replying")
                 /\ call' = [call EXCEPT ![p].id = try.got.id,
                                         ![p].lease = Reported(try.got)]
                 /\ answers' = [answers EXCEPT ![c.rid] = @ \cup {try.got.id}]
              \/ /\ try.reason = "no work" /\ KeepsWaiting(c) /\ Goto(p, "reading")
                 /\ UNCHANGED <<call, answers>>
              \/ /\ try.reason # "ok"
                 /\ try.reason = "no work" => ~KeepsWaiting(c)
                 /\ Goto(p, "failing")
                 /\ UNCHANGED <<call, answers>>
    /\ UNCHANGED <<card, now, awaits, belief, answered, ended, calls>>

TryClaim(p) ==
    /\ pc[p] = "trying" /\ call[p].kind = "claim"
    /\ LET c == call[p]
           try == ClaimTask(Reclaimed, c.id, c.actor, Lease, {}, now)
       IN  /\ store' = Committed(store, now, try)
           /\ IF try.ok
              THEN Goto(p, "replying") /\ call' = [call EXCEPT ![p].lease = now + Lease]
              ELSE Goto(p, "failing") /\ UNCHANGED call
    /\ UNCHANGED <<card, now, awaits, told, calls>>

\* The agent's claims with what it was told of a task in place of what it
\* believed of it.
Told(B, id, lease) == {b \in B : b.id # id} \cup {[id |-> id, lease |-> lease]}

\* The process ends; whoever still waits for it gets its reply.
Reply(p) ==
    /\ pc[p] \in {"replying", "failing"}
    /\ LET c == call[p]
           heard == awaits[c.actor] = p
           good == pc[p] = "replying"
       IN  /\ belief' = IF heard /\ good
                        THEN [belief EXCEPT ![c.actor] = Told(@, c.id, c.lease)]
                        ELSE belief
           /\ answered' = IF heard /\ good /\ c.kind = "acquire"
                          THEN answered \cup {c.rid} ELSE answered
           /\ awaits' = [awaits EXCEPT ![c.actor] = IF @ = p THEN NoProc ELSE @]
    /\ call' = [call EXCEPT ![p] = NoCall]
    /\ Goto(p, "idle")
    /\ UNCHANGED <<store, card, now, answers, ended, calls>>

\* The agent gives up on a call that may still take effect.
GiveUp(a) ==
    /\ awaits[a] # NoProc
    /\ awaits' = [awaits EXCEPT ![a] = NoProc]
    /\ UNCHANGED <<store, card, now, pc, call, told, calls>>

Kill(p) ==
    /\ pc[p] # "idle"
    /\ awaits' = [a \in Actor |-> IF awaits[a] = p THEN NoProc ELSE awaits[a]]
    /\ call' = [call EXCEPT ![p] = NoCall]
    /\ Goto(p, "idle")
    /\ UNCHANGED <<store, card, now, told, calls>>

-----------------------------------------------------------------------------
(* What goes on around the calls, a transaction at a time.                 *)

\* An agent ends the work it believes it holds, and forgets it either way.
Finish(a, b, outcome) ==
    /\ awaits[a] = NoProc /\ b \in belief[a]
    /\ store' = Committed(store, now, outcome)
    /\ belief' = [belief EXCEPT ![a] = @ \ {b}]
    /\ ended' = [ended EXCEPT ![a] = @ \cup {b.id}]
    /\ UNCHANGED <<card, now, pc, call, awaits, answered, answers, calls>>

Done(a, b) == Finish(a, b, CompleteTask(Reclaimed, b.id, a, {}))

Release(a, b) == Finish(a, b, ReleaseTask(Reclaimed, b.id, a, NoFailure))

Heartbeat(a, b) ==
    /\ awaits[a] = NoProc /\ b \in belief[a]
    /\ LET outcome == RenewLease(Reclaimed, b.id, a, Lease, now) IN
       /\ store' = Committed(store, now, outcome)
       /\ belief' = [belief EXCEPT ![a] =
                       IF outcome.ok THEN Told(@, b.id, now + Lease) ELSE @ \ {b}]
    /\ UNCHANGED <<card, now, pc, call, awaits, answered, answers, ended, calls>>

Add(caps) ==
    /\ store.nextID <= MaxTasks
    /\ store' = CreateTask(Reclaimed, {}, caps, 0).store
    /\ UNCHANGED <<card, now, pc, call, awaits, told, calls>>

\* agent-card: the operator edits capabilities and limit.
SetCard(a, caps, load) ==
    /\ card' = [card EXCEPT ![a] = [known |-> TRUE, caps |-> caps, load |-> load]]
    /\ UNCHANGED <<store, now, pc, call, awaits, told, calls>>

Tick ==
    /\ now < MaxTime /\ now' = now + 1
    /\ UNCHANGED <<store, card, pc, call, awaits, told, calls>>

-----------------------------------------------------------------------------

Proceed(p) ==
    \/ Register(p) \/ Plan(p) \/ Preflight(p)
    \/ TryAcquire(p) \/ TryClaim(p) \/ Reply(p)

Ask(p, a) ==
    \/ \E rid \in RequestId, mode \in Mode, wait \in Waits :
           BeginAcquire(p, a, rid, mode, wait)
    \/ \E id \in Present(store) : BeginClaim(p, a, id)

Around ==
    \/ \E a \in Actor : \/ \E b \in belief[a] : Done(a, b) \/ Release(a, b) \/ Heartbeat(a, b)
                        \/ \E C \in SUBSET Capability, l \in Limits : SetCard(a, C, l)
                        \/ GiveUp(a)
    \/ \E C \in SUBSET Capability : Add(C)

Next ==
    \/ \E p \in Proc : (\E a \in Actor : Ask(p, a)) \/ Proceed(p) \/ Kill(p)
    \/ Around
    \/ Tick

Spec == Init /\ [][Next]_vars

-----------------------------------------------------------------------------

(* "Durable request IDs make acquire idempotent" (README.md:80): whatever  *)
(* is lost, retried or run twice at once, all answers under one request ID *)
(* name one task.                                                          *)
OneTaskPerRequest == \A r \in RequestId : Cardinality(answers[r]) <= 1

Holds(a, b) ==
    /\ store.task[b.id].status = "in_progress"
    /\ store.task[b.id].owner = a
    /\ store.task[b.id].lease >= b.lease

(* An agent that was told of a lease holds the task for as long as it was  *)
(* told, unless it ended its work on that task itself: late transactions   *)
(* of calls it gave up on, replays and other agents do not take it away.   *)
BelievedLeasesAreHeld ==
    \A a \in Actor : \A b \in belief[a] :
        b.lease > now /\ b.id \notin ended[a] => Holds(a, b)

(* Whoever owns work is in agents.json: claim and acquire register the     *)
(* agent before the transaction ("Registration is also automatic on first  *)
(* claim", docs/agent-protocol.md:689).                                    *)
OwnersAreRegistered ==
    \A id \in TaskId :
        store.task[id].owner # NoActor => card[store.task[id].owner].known

(* A grant that acquire made to a limited call leaves the agent with at    *)
(* most its limit: two calls of one agent cannot both pass the check.      *)
GrantsRespectThePlan ==
    [][\A p \in Proc :
          (call[p].kind = "acquire" /\ store'.receipt # store.receipt
           /\ pc[p] = "trying" /\ pc'[p] = "replying" /\ call[p].load # 0)
          => Cardinality(Owned(store', call[p].actor)) <= call[p].load]_vars

=============================================================================
