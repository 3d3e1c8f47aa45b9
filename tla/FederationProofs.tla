-------------------------- MODULE FederationProofs --------------------------
(***************************************************************************)
(* Theorems about Federation for any number of projects, aliases, workers  *)
(* and tasks.  One invariant relates what a resolver has answered to the   *)
(* history of the call it answers for, another says that no project links  *)
(* itself or has a cycle of its own.                                       *)
(***************************************************************************)
EXTENDS Federation, FiniteSetTheorems, TLAPS

\* The stores, what the steps of TypeOK change together.
StoresOK ==
    /\ status \in [Repo -> [TaskId -> Status]]
    /\ deps \in [Repo -> [TaskId -> SUBSET Reference]]
    /\ expired \subseteq {t \in Repo \X TaskId : status[t[1]][t[2]] = "in_progress"}

LinksOK == link \in [Repo -> [Alias -> Repo \cup {NoRepo}]] /\ away \subseteq Repo

\* What the resolver of p found completed was completed during the call of p, and
\* nothing is found before the links are read.
Answered(p) ==
    /\ call[p].stage \in {"load", "links"} => call[p].yes = {}
    /\ call[p].stage # "idle" =>
           \A u \in call[p].yes : <<Target(call[p].links, u), u[2]>> \in seen[p]

IInv == TypeOK /\ \A p \in Worker : Answered(p)

-----------------------------------------------------------------------------
\* The stages follow each other.
LEMMA Stages ==
    /\ Order[1] = "load"
    /\ AfterStage("load") = "links" /\ AfterStage("links") = "ask"
    /\ AfterStage("ask") = "lock" /\ AfterStage("lock") = "commit"
    /\ Stage = {"load", "links", "ask", "lock", "commit", "idle"}
<1>1. \A n \in 1..5 : n = 1 \/ n = 2 \/ n = 3 \/ n = 4 \/ n = 5
  OBVIOUS
<1>2. /\ Order[1] = "load" /\ Order[2] = "links" /\ Order[3] = "ask"
      /\ Order[4] = "lock" /\ Order[5] = "commit"
  BY DEF Order
<1>3. (CHOOSE n \in 1..5 : Order[n] = "load") = 1
  BY <1>1, <1>2
<1>4. (CHOOSE n \in 1..5 : Order[n] = "links") = 2
  BY <1>1, <1>2
<1>5. (CHOOSE n \in 1..5 : Order[n] = "ask") = 3
  BY <1>1, <1>2
<1>6. (CHOOSE n \in 1..5 : Order[n] = "lock") = 4
  BY <1>1, <1>2
<1>7. Stage = {"load", "links", "ask", "lock", "commit", "idle"}
  BY <1>1, <1>2 DEF Stage
<1> QED
  BY <1>2, <1>3, <1>4, <1>5, <1>6, <1>7 DEF AfterStage

-----------------------------------------------------------------------------
(* Types.                                                                  *)

LEMMA ReclaimedType ==
    ASSUME TypeOK, NEW r \in Repo
    PROVE  Reclaimed(r) \in [TaskId -> Status]
  BY DEF TypeOK, Reclaimed, Status

\* A store that is loaded or written with its expired leases reclaimed.
LEMMA StoreType ==
    ASSUME TypeOK, NEW r \in Repo, NEW tasks \in [TaskId -> Status],
           status' = [status EXCEPT ![r] = tasks],
           expired' = StillExpired(r),
           deps' \in [Repo -> [TaskId -> SUBSET Reference]]
    PROVE  StoresOK'
<1>1. status' \in [Repo -> [TaskId -> Status]]
  BY DEF TypeOK
<1>2. ASSUME NEW t \in expired'
      PROVE  t \in Repo \X TaskId /\ status'[t[1]][t[2]] = "in_progress"
  <2>1. t \in expired /\ t[1] # r
    BY <1>2 DEF StillExpired
  <2>2. t \in Repo \X TaskId /\ status[t[1]][t[2]] = "in_progress"
    BY <2>1 DEF TypeOK
  <2>3. t[1] \in Repo
    BY <2>2
  <2>4. status'[t[1]] = status[t[1]]
    BY <2>1, <2>3 DEF TypeOK
  <2> QED
    BY <2>2, <2>4
<1> QED
  BY <1>1, <1>2 DEF StoresOK

\* Recomposing TypeOK.
LEMMA PartsType ==
    ASSUME StoresOK', LinksOK', call' \in [Worker -> Call],
           seen' \in [Worker -> SUBSET (Repo \X TaskId)]
    PROVE  TypeOK'
  BY DEF StoresOK, LinksOK, TypeOK

LEMMA HistoryType ==
    ASSUME TypeOK, Remember
    PROVE  seen' \in [Worker -> SUBSET (Repo \X TaskId)]
<1>1. Completed \subseteq Repo \X TaskId /\ Completed' \subseteq Repo \X TaskId
  BY DEF Completed
<1> QED
  BY <1>1 DEF TypeOK, Remember

LEMMA WriteType ==
    ASSUME TypeOK, NEW r \in Repo, NEW tasks \in [TaskId -> Status],
           NEW edges \in [TaskId -> SUBSET Reference], Write(r, tasks, edges), Remember
    PROVE  TypeOK'
<1>1. deps' \in [Repo -> [TaskId -> SUBSET Reference]]
  BY DEF Write, TypeOK
<1>2. StoresOK'
  BY <1>1, StoreType DEF Write
<1>3. LinksOK' /\ call' \in [Worker -> Call]
  BY DEF Write, TypeOK, LinksOK
<1> QED
  BY <1>2, <1>3, HistoryType, PartsType

LEMMA StoreCallType ==
    ASSUME TypeOK, NEW r \in Repo, StoreCall(r), Remember
    PROVE  TypeOK'
<1>0. Reclaimed(r) \in [TaskId -> Status] /\ deps[r] \in [TaskId -> SUBSET Reference]
  BY ReclaimedType DEF TypeOK
<1>00. "pending" \in Status /\ "removed" \in Status
  BY DEF Status
<1>1. ASSUME NEW refs \in SUBSET Reference, Add(r, refs) PROVE TypeOK'
  <2>1. PICK i \in NextIDs(r) :
          Write(r, [Reclaimed(r) EXCEPT ![i] = "pending"], [deps[r] EXCEPT ![i] = refs])
    BY <1>1 DEF Add
  <2>2. /\ [Reclaimed(r) EXCEPT ![i] = "pending"] \in [TaskId -> Status]
        /\ [deps[r] EXCEPT ![i] = refs] \in [TaskId -> SUBSET Reference]
    BY <1>0, <1>00
  <2> QED
    BY <2>1, <2>2, WriteType
<1>2. ASSUME NEW i \in TaskId, NEW refs \in SUBSET Reference, Edit(r, i, refs) PROVE TypeOK'
  <2>1. [deps[r] EXCEPT ![i] = refs] \in [TaskId -> SUBSET Reference]
    BY <1>0
  <2> QED
    BY <1>0, <1>2, <2>1, WriteType DEF Edit
<1>3. ASSUME NEW i \in TaskId, Remove(r, i) PROVE TypeOK'
  <2>1. /\ [Reclaimed(r) EXCEPT ![i] = "removed"] \in [TaskId -> Status]
        /\ [deps[r] EXCEPT ![i] = {}] \in [TaskId -> SUBSET Reference]
    BY <1>0, <1>00
  <2> QED
    BY <1>3, <2>1, WriteType DEF Remove
<1>4. ASSUME Prune(r) PROVE TypeOK'
  <2> DEFINE gone == {i \in TaskId : status[r][i] = "completed"}
             tasks == [i \in TaskId |-> IF i \in gone THEN "removed" ELSE Reclaimed(r)[i]]
             edges == [i \in TaskId |-> IF i \in gone THEN {}
                          ELSE {u \in deps[r][i] : ~(u[1] = "local" /\ u[2] \in gone)}]
  <2>1. tasks \in [TaskId -> Status]
    BY <1>0, <1>00
  <2>2. edges \in [TaskId -> SUBSET Reference]
    BY <1>0
  <2>3. Write(r, tasks, edges)
    BY <1>4 DEF Prune
  <2> QED
    BY <2>1, <2>2, <2>3, WriteType
<1>5. ASSUME Load(r) PROVE TypeOK'
  BY <1>0, <1>5, WriteType DEF Load
<1> QED
  BY <1>1, <1>2, <1>3, <1>4, <1>5 DEF StoreCall

LEMMA AroundType ==
    ASSUME TypeOK, NEW r \in Repo, Around(r), Remember
    PROVE  TypeOK'
<1>1. ASSUME NEW a \in Alias, NEW target \in Repo \cup {NoRepo}, SetLink(r, a, target)
      PROVE  TypeOK'
  <2>1. link' \in [Repo -> [Alias -> Repo \cup {NoRepo}]]
    BY <1>1 DEF SetLink, TypeOK
  <2>2. StoresOK' /\ LinksOK' /\ call' \in [Worker -> Call]
    BY <1>1, <2>1 DEF SetLink, TypeOK, StoresOK, LinksOK
  <2> QED
    BY <2>2, HistoryType, PartsType
<1>2. ASSUME NEW i \in TaskId, Expire(r, i) PROVE TypeOK'
  <2>1. StoresOK' /\ LinksOK' /\ call' \in [Worker -> Call]
    BY <1>2 DEF Expire, TypeOK, StoresOK, LinksOK
  <2> QED
    BY <2>1, HistoryType, PartsType
<1>3. ASSUME Move(r) PROVE TypeOK'
  <2>1. StoresOK' /\ LinksOK' /\ call' \in [Worker -> Call]
    BY <1>3 DEF Move, TypeOK, StoresOK, LinksOK
  <2> QED
    BY <2>1, HistoryType, PartsType
<1> QED
  BY <1>1, <1>2, <1>3 DEF Around, Link, Unlink

\* A step of a worker: its call record is one, and so are the stores.
LEMMA GotoType ==
    ASSUME TypeOK, NEW p \in Worker, NEW c \in Call, Goto(p, c), StoresOK', LinksOK',
           Remember
    PROVE  TypeOK' /\ call'[p] = c /\ \A q \in Worker \ {p} : call'[q] = call[q]
<1>1. call' \in [Worker -> Call] /\ call'[p] = c /\ \A q \in Worker \ {p} : call'[q] = call[q]
  BY DEF Goto, TypeOK
<1> QED
  BY <1>1, HistoryType, PartsType

LEMMA SameData ==
    ASSUME TypeOK, UNCHANGED data
    PROVE  StoresOK' /\ LinksOK'
  BY DEF TypeOK, data, StoresOK, LinksOK

-----------------------------------------------------------------------------
(* What a resolver answered.                                               *)

\* The answers of the other workers stay true: a history only grows.
LEMMA OthersAnswered ==
    ASSUME IInv, NEW p \in Worker, call'[p] = call[p], Remember
    PROVE  Answered(p)'
<1>1. call[p].stage # "idle" => seen[p] \subseteq seen'[p]
  BY DEF Remember
<1> QED
  BY <1>1 DEF IInv, Answered

\* A step of p that takes up no answer keeps the links or drops the answers.
LEMMA SameAnswers ==
    ASSUME IInv, NEW p \in Worker, NEW c \in Call, Goto(p, c), StoresOK', LinksOK', Remember,
           c.stage # "idle" =>
               \/ c.yes = {}
               \/ /\ call[p].stage \notin {"idle", "load", "links"}
                  /\ c.stage \notin {"load", "links"}
                  /\ c.yes = call[p].yes /\ c.links = call[p].links,
           c.stage = "idle" => c.yes = {} \/ c.stage \notin {"load", "links"}
    PROVE  IInv'
<1>1. TypeOK' /\ call'[p] = c /\ \A q \in Worker \ {p} : call'[q] = call[q]
  BY GotoType DEF IInv
<1>2. c.stage # "idle" /\ call[p].stage # "idle" => seen[p] \subseteq seen'[p]
  BY <1>1 DEF Remember
<1>3. Answered(p)'
  BY <1>1, <1>2 DEF IInv, Answered
<1>4. \A q \in Worker \ {p} : Answered(q)'
  BY <1>1, OthersAnswered
<1> QED
  BY <1>1, <1>3, <1>4 DEF IInv

LEMMA BeginKeeps ==
    ASSUME IInv, NEW p \in Worker, NEW kind \in {"claim", "done"}, NEW i \in TaskId,
           Begin(p, kind, i), Remember
    PROVE  IInv'
<1> DEFINE c == [call[p] EXCEPT !.stage = Order[1], !.kind = kind, !.id = i,
                                !.ask = {}, !.yes = Cache(p)]
<1>0. call[p] \in Call
  BY DEF IInv, TypeOK
<1>1. c \in Call /\ c.yes = {} /\ c.stage = "load"
  BY <1>0, Stages DEF Call, Cache
<1>2. Goto(p, c) /\ StoresOK' /\ LinksOK'
  BY SameData DEF Begin, IInv
<1> HIDE DEF c
<1> QED
  BY <1>1, <1>2, SameAnswers

LEMMA PreflightKeeps ==
    ASSUME IInv, NEW p \in Worker, Preflight(p), Remember
    PROVE  IInv'
<1> DEFINE c == [call[p] EXCEPT !.stage = AfterStage("load"), !.ask = ToAsk(p)]
<1>0. Home[p] \in Repo
  BY FederationAssumption
<1>1. ToAsk(p) \subseteq Reference
  BY <1>0 DEF ToAsk, Linked, Present, IInv, TypeOK
<1>2. call[p].stage = "load" /\ call[p].yes = {}
  BY DEF Preflight, IInv, Answered
<1>6. call[p] \in Call
  BY DEF IInv, TypeOK
<1>3. c \in Call /\ c.yes = {}
  BY <1>1, <1>2, <1>6, Stages DEF Call
<1>4. StoresOK'
  BY <1>0, ReclaimedType, StoreType DEF Preflight, IInv, TypeOK
<1>5. Goto(p, c) /\ LinksOK'
  BY DEF Preflight, IInv, TypeOK, LinksOK
<1> HIDE DEF c
<1> QED
  BY <1>3, <1>4, <1>5, SameAnswers

LEMMA ReadLinksKeeps ==
    ASSUME IInv, NEW p \in Worker, ReadLinks(p), Remember
    PROVE  IInv'
<1> DEFINE c == [call[p] EXCEPT !.stage = AfterStage("links"), !.links = link[Home[p]]]
<1>1. link[Home[p]] \in [Alias -> Repo \cup {NoRepo}]
  BY FederationAssumption DEF IInv, TypeOK
<1>2. call[p].stage = "links" /\ call[p].yes = {}
  BY DEF ReadLinks, IInv, Answered
<1>3. c \in Call /\ c.yes = {}
  BY <1>1, <1>2, Stages DEF IInv, TypeOK, Call
<1>4. Goto(p, c) /\ StoresOK' /\ LinksOK'
  BY SameData DEF ReadLinks, IInv
<1> HIDE DEF c
<1> QED
  BY <1>3, <1>4, SameAnswers

\* A linked store that says yes has completed the task now.
LEMMA AskKeeps ==
    ASSUME IInv, NEW p \in Worker, NEW u \in Reference, Ask(p, u), Remember
    PROVE  IInv'
<1> DEFINE r == Target(call[p].links, u)
           yes == IF Answer(call[p].links, u) THEN call[p].yes \cup {u} ELSE call[p].yes
           c == [call[p] EXCEPT !.ask = @ \ {u}, !.yes = yes]
<1>1. call[p] \in Call /\ call[p].stage = "ask"
  BY DEF Ask, IInv, TypeOK
<1>2. yes \subseteq Reference
  BY <1>1 DEF Call
<1>3. c \in Call /\ c.yes = yes /\ c.stage = "ask" /\ c.links = call[p].links
  BY <1>1, <1>2 DEF Call
<1>4. Goto(p, c)
  BY DEF Ask
<1>5. StoresOK'
  <2>1. CASE r \in Repo \ away
    <3>1. status' = [status EXCEPT ![r] = Reclaimed(r)] /\ expired' = StillExpired(r)
      BY <2>1 DEF Ask
    <3>2. deps' \in [Repo -> [TaskId -> SUBSET Reference]]
      BY DEF Ask, IInv, TypeOK
    <3> HIDE DEF r
    <3> QED
      BY <2>1, <3>1, <3>2, ReclaimedType, StoreType DEF IInv
  <2>2. CASE r \notin Repo \ away
    BY <2>2 DEF Ask, IInv, TypeOK, StoresOK
  <2> QED
    BY <2>1, <2>2
<1>6. LinksOK'
  BY DEF Ask, IInv, TypeOK, LinksOK
<1>7. Answer(call[p].links, u) => <<r, u[2]>> \in Completed
  BY DEF Answer, Completed, Reference
<1> HIDE DEF c, yes, r
<1>8. TypeOK' /\ call'[p] = c /\ \A q \in Worker \ {p} : call'[q] = call[q]
  BY <1>3, <1>4, <1>5, <1>6, GotoType DEF IInv
<1>9. seen[p] \cup Completed \subseteq seen'[p]
  BY <1>3, <1>8 DEF Remember
<1>10. Answered(p)'
  <2> SUFFICES ASSUME NEW w \in yes
               PROVE  <<Target(call[p].links, w), w[2]>> \in seen'[p]
    BY <1>3, <1>8 DEF Answered
  <2>1. CASE w \in call[p].yes
    BY <1>1, <1>9, <2>1 DEF IInv, Answered
  <2>2. CASE w \notin call[p].yes
    BY <1>7, <1>9, <2>2 DEF yes, r
  <2> QED
    BY <2>1, <2>2
<1>11. \A q \in Worker \ {p} : Answered(q)'
  BY <1>8, OthersAnswered
<1> QED
  BY <1>8, <1>10, <1>11 DEF IInv

LEMMA AskedKeeps ==
    ASSUME IInv, NEW p \in Worker, Asked(p), Remember
    PROVE  IInv'
<1> DEFINE c == [call[p] EXCEPT !.stage = AfterStage("ask")]
<1>1. c \in Call /\ c.stage = "lock" /\ c.yes = call[p].yes /\ c.links = call[p].links
  BY Stages DEF IInv, TypeOK, Call
<1>2. Goto(p, c) /\ call[p].stage = "ask" /\ StoresOK' /\ LinksOK'
  BY SameData DEF Asked, IInv
<1> HIDE DEF c
<1> QED
  BY <1>1, <1>2, SameAnswers

LEMMA LockKeeps ==
    ASSUME IInv, NEW p \in Worker, Lock(p), Remember
    PROVE  IInv'
<1> DEFINE c == [call[p] EXCEPT !.stage = AfterStage("lock")]
<1>1. c \in Call /\ c.stage = "commit" /\ c.yes = call[p].yes /\ c.links = call[p].links
  BY Stages DEF IInv, TypeOK, Call
<1>2. Goto(p, c) /\ call[p].stage = "lock" /\ StoresOK' /\ LinksOK'
  BY SameData DEF Lock, IInv
<1> HIDE DEF c
<1> QED
  BY <1>1, <1>2, SameAnswers

LEMMA CommitKeeps ==
    ASSUME IInv, NEW p \in Worker, Commit(p), Remember
    PROVE  IInv'
<1> DEFINE c == [call[p] EXCEPT !.stage = "idle"]
<1>1. c \in Call /\ c.stage = "idle"
  BY Stages DEF IInv, TypeOK, Call
<1>2. Home[p] \in Repo /\ Reclaimed(Home[p]) \in [TaskId -> Status]
  BY FederationAssumption, ReclaimedType DEF IInv
<1>3. Outcome(p) \in [TaskId -> Status]
  BY <1>2 DEF Outcome, Status
<1>4. StoresOK'
  BY <1>2, <1>3, StoreType DEF Commit, IInv, TypeOK
<1>5. Goto(p, c) /\ LinksOK'
  BY DEF Commit, IInv, TypeOK, LinksOK
<1> HIDE DEF c
<1> QED
  BY <1>1, <1>4, <1>5, SameAnswers

LEMMA KillKeeps ==
    ASSUME IInv, NEW p \in Worker, Kill(p), Remember
    PROVE  IInv'
<1> DEFINE c == [call[p] EXCEPT !.stage = "idle"]
<1>1. c \in Call /\ c.stage = "idle"
  BY Stages DEF IInv, TypeOK, Call
<1>2. Goto(p, c) /\ StoresOK' /\ LinksOK'
  BY SameData DEF Kill, IInv
<1> HIDE DEF c
<1> QED
  BY <1>1, <1>2, SameAnswers

\* Calls of others change no call record.
LEMMA AroundKeeps ==
    ASSUME IInv, NEW r \in Repo, StoreCall(r) \/ Around(r), Remember
    PROVE  IInv'
<1>1. TypeOK'
  BY StoreCallType, AroundType DEF IInv
<1>2. UNCHANGED call
  BY DEF StoreCall, Around, Add, Edit, Remove, Prune, Load, Write, Link, Unlink, SetLink,
         Expire, Move
<1>3. \A p \in Worker : Answered(p)'
  BY <1>2, OthersAnswered
<1> QED
  BY <1>1, <1>3 DEF IInv

-----------------------------------------------------------------------------
LEMMA InitAnswered == Init => IInv
<1> SUFFICES ASSUME Init PROVE IInv
  OBVIOUS
<1>1. \A p \in Worker : call[p] \in Call /\ call[p].stage = "idle" /\ call[p].yes = {}
  BY DEF Init
<1>2. StoresOK /\ LinksOK
  BY DEF Init, StoresOK, LinksOK, NoLinks, Status
<1>3. call \in [Worker -> Call] /\ seen \in [Worker -> SUBSET (Repo \X TaskId)]
  BY <1>1 DEF Init
<1>4. TypeOK
  BY <1>2, <1>3 DEF StoresOK, LinksOK, TypeOK
<1> QED
  BY <1>1, <1>4 DEF IInv, Answered

LEMMA StepAnswered == IInv /\ [Next]_vars => IInv'
<1> SUFFICES ASSUME IInv, [Next]_vars PROVE IInv'
  OBVIOUS
<1>1. CASE UNCHANGED vars
  <2>1. TypeOK'
    BY <1>1 DEF vars, data, IInv, TypeOK
  <2>2. \A p \in Worker : Answered(p)'
    BY <1>1 DEF vars, data, IInv, Answered, Target
  <2> QED
    BY <2>1, <2>2 DEF IInv
<1>2. ASSUME NEW p \in Worker, WorkerStep(p), Remember PROVE IInv'
  <2>1. ASSUME Proceed(p) PROVE IInv'
    BY <1>2, <2>1, PreflightKeeps, ReadLinksKeeps, AskKeeps, AskedKeeps, LockKeeps,
       CommitKeeps DEF Proceed
  <2> QED
    BY <1>2, <2>1, BeginKeeps, KillKeeps DEF WorkerStep
<1>3. ASSUME NEW r \in Repo, StoreCall(r) \/ Around(r), Remember PROVE IInv'
  BY <1>3, AroundKeeps
<1> QED
  BY <1>1, <1>2, <1>3 DEF Next, Step

LEMMA Invariance == Spec => []IInv
  BY InitAnswered, StepAnswered, PTL DEF Spec

(***************************************************************************)
(* The stores, links and calls of every federation keep their types; a     *)
(* lease that has run out is that of a task in progress.                   *)
(***************************************************************************)
THEOREM FederationTypeCorrect == Spec => []TypeOK
<1>1. IInv => TypeOK
  BY DEF IInv
<1> QED
  BY <1>1, Invariance, PTL

(***************************************************************************)
(* For any number of projects and workers, claim and done change a task    *)
(* only on answers of linked stores that were true during the call.  A     *)
(* commit needs every linked reference of the task among the answers, and  *)
(* the invariant says that each of them was true.                          *)
(***************************************************************************)
THEOREM CommitsAreJustified == Spec => CommitsOnTrueAnswers
<1>1. ASSUME IInv, [Next]_vars, NEW p \in Worker, Commits(p)
      PROVE  AnswersWereTrue(p)
  <2>0. Home[p] \in Repo /\ call[p] \in Call
    BY <1>1, FederationAssumption DEF IInv, TypeOK
  <2>1. Accepts(p)
    <3>1. call'[p] # call[p]
      BY <1>1 DEF Commits
    <3>7. call \in [Worker -> Call]
      BY <1>1 DEF IInv, TypeOK
    <3>2. \A q \in Worker : \A c : Goto(q, c) => p = q \/ call'[p] = call[p]
      <4>1. ASSUME NEW q \in Worker, NEW c, Goto(q, c), p # q PROVE call'[p] = call[p]
        BY <3>7, <4>1, Zenon DEF Goto
      <4> QED
        BY <4>1, Zenon
    <3>3. Commit(p) \/ Kill(p)
      <4>1. ASSUME NEW r \in Repo, StoreCall(r) \/ Around(r) PROVE FALSE
        BY <4>1, <3>1 DEF StoreCall, Around, Add, Edit, Remove, Prune, Load, Write, Link,
             Unlink, SetLink, Expire, Move
      <4>2. ~UNCHANGED vars
        BY <3>1 DEF vars
      <4>5. Step
        BY <1>1, <4>2 DEF Next
      <4>3. PICK q \in Worker : WorkerStep(q)
        BY <4>1, <4>5, Zenon DEF Step
      <4>4. q = p
        BY <3>1, <3>2, <4>3 DEF WorkerStep, Proceed, Begin, Preflight, ReadLinks, Ask, Asked,
             Lock, Commit, Kill
      <4> QED
        BY <1>1, <4>3, <4>4 DEF Commits, WorkerStep, Proceed, Begin, Preflight, ReadLinks, Ask,
             Asked, Lock
    <3>4. ~Kill(p)
      BY <1>1 DEF Commits, Kill, data
    <3>5. status'[Home[p]] = Outcome(p)
      BY <1>1, <2>0, <3>3, <3>4 DEF Commit, IInv, TypeOK
    <3>6. ASSUME ~Accepts(p) PROVE FALSE
      <4>1. status'[Home[p]][call[p].id] = Reclaimed(Home[p])[call[p].id]
        BY <3>5, <3>6 DEF Outcome
      <4>2. \/ Reclaimed(Home[p])[call[p].id] = status[Home[p]][call[p].id]
            \/ Reclaimed(Home[p])[call[p].id] = "pending"
        BY <2>0 DEF Reclaimed, Call
      <4> QED
        BY <1>1, <4>1, <4>2 DEF Commits
    <3> QED
      BY <3>6
  <2>2. call[p].stage = "commit"
    BY <1>1 DEF Commits
  <2> QED
    BY <1>1, <2>1, <2>2 DEF AnswersWereTrue, Accepts, IInv, Answered
<1>2. IInv /\ [Next]_vars => [\A p \in Worker : AnswersWereTrue(p)]_vars
  BY <1>1 DEF AnswersWereTrue
<1> QED
  BY <1>2, Invariance, PTL DEF Spec, CommitsOnTrueAnswers

-----------------------------------------------------------------------------
(* Locks.                                                                  *)

LEMMA HoldsToCommit == \A p \in Worker : Holds(p) => call[p].stage = "commit"
<1>1. \A n \in 1..5 : n = 1 \/ n = 2 \/ n = 3 \/ n = 4 \/ n = 5
  OBVIOUS
<1>2. /\ Order[1] = "load" /\ Order[2] = "links" /\ Order[3] = "ask"
      /\ Order[4] = "lock" /\ Order[5] = "commit"
  BY DEF Order
<1>3. \A n, m \in 1..5 : m < n /\ Order[m] = "lock" => n = 5
  BY <1>1, <1>2
<1> QED
  BY <1>2, <1>3 DEF Holds

(***************************************************************************)
(* Whatever projects link each other, and however many processes work in   *)
(* them, the calls cannot wait in a circle for each other's store locks:   *)
(* who holds a lock asks for no other.                                     *)
(***************************************************************************)
THEOREM LocksNeverFormACircle == Spec => []NobodyWaitsInACircle
<1>1. NobodyWaitsInACircle
  <2> SUFFICES ASSUME NEW S \in (SUBSET Worker) \ {{}}
               PROVE  \E p \in S : \A q \in S : Holds(q) => Home[q] \notin Wants(p)
    BY DEF NobodyWaitsInACircle
  <2>1. CASE \E p \in S : Holds(p)
    <3>1. PICK p \in S : Holds(p)
      BY <2>1
    <3>2. Wants(p) = {}
      BY <3>1, HoldsToCommit DEF Wants
    <3> QED
      BY <3>1, <3>2
  <2>2. CASE ~\E p \in S : Holds(p)
    BY <2>2
  <2> QED
    BY <2>1, <2>2
<1> QED
  BY <1>1, PTL

-----------------------------------------------------------------------------
(* Cycles.                                                                 *)

\* A set of tasks of project r each of which waits for another of them.
Tangled(r) ==
    \E I \in SUBSET Present(r) :
        I # {} /\ \A x \in I : I \cap Local(deps[r][x]) # {}

\* No project has a cycle of its own, and none links itself.
Untangled ==
    /\ \A r \in Repo : ~Tangled(r)
    /\ \A r \in Repo, a \in Alias : link[r][a] # r

LEMMA LocalGrows ==
    ASSUME NEW A, NEW B, A \subseteq B
    PROVE  Local(A) \subseteq Local(B)
BY DEF Local

\* Fewer tasks or fewer edges make no cycle.
LEMMA FewerEdges ==
    ASSUME NEW r \in Repo, ~Tangled(r), Present(r)' \subseteq Present(r),
           \A x \in Present(r)' : deps'[r][x] \subseteq deps[r][x]
    PROVE  ~Tangled(r)'
<1> SUFFICES ASSUME NEW I \in SUBSET Present(r)', I # {},
                    \A x \in I : I \cap Local(deps'[r][x]) # {}
             PROVE  FALSE
  BY DEF Tangled
<1>1. \A x \in I : I \cap Local(deps[r][x]) # {}
  <2> TAKE x \in I
  <2>1. Local(deps'[r][x]) \subseteq Local(deps[r][x])
    BY LocalGrows
  <2> QED
    BY <2>1
<1> QED
  BY <1>1 DEF Tangled

\* Reclaiming a lease leaves the task where it is.
LEMMA ReclaimedPresent ==
    ASSUME TypeOK, NEW r \in Repo, NEW i \in TaskId
    PROVE  Reclaimed(r)[i] \in {"none", "removed"} <=> status[r][i] \in {"none", "removed"}
<1>1. <<r, i>> \in expired => status[r][i] = "in_progress"
  BY DEF TypeOK
<1> QED
  BY <1>1 DEF Reclaimed

\* The store of r is written; those of the other projects stay.
LEMMA OneStore ==
    ASSUME TypeOK, Untangled, NEW r \in Repo, NEW tasks, NEW edges,
           status' = [status EXCEPT ![r] = tasks], deps' = [deps EXCEPT ![r] = edges],
           ~Tangled(r)', link' = link
    PROVE  Untangled'
<1>1. \A q \in Repo \ {r} : status'[q] = status[q] /\ deps'[q] = deps[q]
  BY DEF TypeOK
<1>2. \A q \in Repo \ {r} : ~Tangled(q)'
  BY <1>1 DEF Untangled, Tangled, Present
<1> QED
  BY <1>2 DEF Untangled

\* A store written with no further task and no further edge.
LEMMA ShrunkStore ==
    ASSUME TypeOK, Untangled, NEW r \in Repo, NEW tasks \in [TaskId -> Status],
           NEW edges \in [TaskId -> SUBSET Reference],
           status' = [status EXCEPT ![r] = tasks], deps' = [deps EXCEPT ![r] = edges],
           link' = link,
           \A i \in TaskId : tasks[i] \notin {"none", "removed"} =>
               status[r][i] \notin {"none", "removed"} /\ edges[i] \subseteq deps[r][i]
    PROVE  Untangled'
<1>1. status'[r] = tasks /\ deps'[r] = edges
  BY DEF TypeOK
<1>2. /\ Present(r)' \subseteq Present(r)
      /\ \A x \in Present(r)' : deps'[r][x] \subseteq deps[r][x]
  BY <1>1 DEF Present
<1>3. ~Tangled(r)'
  BY <1>2, FewerEdges DEF Untangled
<1> QED
  BY <1>3, OneStore

\* An edge is written only when it closes no cycle.
LEMMA EditedStore ==
    ASSUME TypeOK, Untangled, NEW r \in Repo, NEW i \in TaskId, NEW refs \in SUBSET Reference,
           Legal(r, i, refs), NEW tasks \in [TaskId -> Status],
           status' = [status EXCEPT ![r] = tasks],
           deps' = [deps EXCEPT ![r] = [deps[r] EXCEPT ![i] = refs]], link' = link,
           \A j \in TaskId \ {i} : tasks[j] \notin {"none", "removed"} =>
               status[r][j] \notin {"none", "removed"}
    PROVE  Untangled'
<1>1. /\ status'[r] = tasks
      /\ \A x \in TaskId : deps'[r][x] = IF x = i THEN refs ELSE deps[r][x]
  BY DEF TypeOK
<1>2. Present(r)' \subseteq Present(r) \cup {i} /\ Present(r)' \subseteq TaskId
  BY <1>1 DEF Present
<1>3. ASSUME NEW I \in SUBSET Present(r)', I # {},
             \A x \in I : I \cap Local(deps'[r][x]) # {}
      PROVE  FALSE
  <2>1. \A x \in I : I \cap Local(IF x = i THEN refs ELSE deps[r][x]) # {}
    BY <1>1, <1>2, <1>3
  <2>2. I \in SUBSET (Present(r) \cup {i})
    BY <1>2
  <2> QED
    BY <1>3, <2>1, <2>2 DEF Legal, ClosesCycle
<1>4. ~Tangled(r)'
  BY <1>3 DEF Tangled
<1> QED
  BY <1>4, OneStore

LEMMA StoreCallUntangled ==
    ASSUME TypeOK, Untangled, NEW r \in Repo, StoreCall(r)
    PROVE  Untangled'
<1>0. /\ Reclaimed(r) \in [TaskId -> Status] /\ deps[r] \in [TaskId -> SUBSET Reference]
      /\ "pending" \in Status /\ "removed" \in Status
      /\ \A i \in TaskId : Reclaimed(r)[i] \notin {"none", "removed"} =>
             status[r][i] \notin {"none", "removed"}
  BY ReclaimedType, ReclaimedPresent DEF TypeOK, Status
<1>1. ASSUME NEW refs \in SUBSET Reference, Add(r, refs) PROVE Untangled'
  <2>1. PICK i \in NextIDs(r) :
          /\ Legal(r, i, refs)
          /\ Write(r, [Reclaimed(r) EXCEPT ![i] = "pending"], [deps[r] EXCEPT ![i] = refs])
    BY <1>1 DEF Add
  <2>2. i \in TaskId /\ [Reclaimed(r) EXCEPT ![i] = "pending"] \in [TaskId -> Status]
    BY <1>0 DEF NextIDs
  <2> DEFINE tasks == [Reclaimed(r) EXCEPT ![i] = "pending"]
  <2>3. \A j \in TaskId \ {i} : tasks[j] \notin {"none", "removed"} =>
               status[r][j] \notin {"none", "removed"}
    BY <1>0
  <2> HIDE DEF tasks
  <2> QED
    BY <2>1, <2>2, <2>3, EditedStore DEF Write, tasks
<1>2. ASSUME NEW i \in TaskId, NEW refs \in SUBSET Reference, Edit(r, i, refs)
      PROVE  Untangled'
  BY <1>0, <1>2, EditedStore DEF Edit, Write
<1>3. ASSUME NEW i \in TaskId, Remove(r, i) PROVE Untangled'
  <2> DEFINE tasks == [Reclaimed(r) EXCEPT ![i] = "removed"]
             edges == [deps[r] EXCEPT ![i] = {}]
  <2>1. tasks \in [TaskId -> Status] /\ edges \in [TaskId -> SUBSET Reference]
    BY <1>0
  <2>2. \A j \in TaskId : tasks[j] \notin {"none", "removed"} =>
               status[r][j] \notin {"none", "removed"} /\ edges[j] \subseteq deps[r][j]
    BY <1>0
  <2>3. Write(r, tasks, edges)
    BY <1>3 DEF Remove
  <2> HIDE DEF tasks, edges
  <2> QED
    BY <2>1, <2>2, <2>3, ShrunkStore DEF Write
<1>4. ASSUME Prune(r) PROVE Untangled'
  <2> DEFINE gone == {i \in TaskId : status[r][i] = "completed"}
             tasks == [i \in TaskId |-> IF i \in gone THEN "removed" ELSE Reclaimed(r)[i]]
             edges == [i \in TaskId |-> IF i \in gone THEN {}
                          ELSE {u \in deps[r][i] : ~(u[1] = "local" /\ u[2] \in gone)}]
  <2>1. tasks \in [TaskId -> Status]
    BY <1>0
  <2>2. edges \in [TaskId -> SUBSET Reference]
    BY <1>0
  <2>3. \A j \in TaskId : tasks[j] \notin {"none", "removed"} =>
               status[r][j] \notin {"none", "removed"} /\ edges[j] \subseteq deps[r][j]
    BY <1>0
  <2>4. Write(r, tasks, edges)
    BY <1>4 DEF Prune
  <2> HIDE DEF tasks, edges
  <2> QED
    BY <2>1, <2>2, <2>3, <2>4, ShrunkStore DEF Write
<1>5. ASSUME Load(r) PROVE Untangled'
  BY <1>0, <1>5, ShrunkStore DEF Load, Write
<1> QED
  BY <1>1, <1>2, <1>3, <1>4, <1>5 DEF StoreCall

LEMMA AroundUntangled ==
    ASSUME TypeOK, Untangled, NEW r \in Repo, Around(r)
    PROVE  Untangled'
<1>1. ASSUME NEW a \in Alias, NEW target \in Repo \cup {NoRepo}, target # r,
             SetLink(r, a, target)
      PROVE  Untangled'
  <2>1. \A q \in Repo, b \in Alias : link'[q][b] # q
    BY <1>1 DEF SetLink, Untangled, TypeOK
  <2>2. \A q \in Repo : ~Tangled(q)'
    BY <1>1 DEF SetLink, Untangled, Tangled, Present
  <2> QED
    BY <2>1, <2>2 DEF Untangled
<1>2. ASSUME NEW a \in Alias, Unlink(r, a) PROVE Untangled'
  BY <1>1, <1>2, FederationAssumption DEF Unlink
<1>3. ASSUME NEW a \in Alias, NEW target \in Repo, Link(r, a, target) PROVE Untangled'
  BY <1>1, <1>3 DEF Link, Linkable
<1>4. ASSUME UNCHANGED <<status, deps, link>> PROVE Untangled'
  BY <1>4 DEF Untangled, Tangled, Present
<1> QED
  BY <1>2, <1>3, <1>4 DEF Around, Expire, Move

\* What a worker writes is a store with its expired leases reclaimed, and the
\* task of its call claimed or completed.
LEMMA WorkerUntangled ==
    ASSUME TypeOK, Untangled, NEW p \in Worker, WorkerStep(p)
    PROVE  Untangled'
<1>1. ASSUME UNCHANGED <<status, deps, link>> PROVE Untangled'
  BY <1>1 DEF Untangled, Tangled, Present
<1>2. ASSUME NEW r \in Repo, NEW tasks \in [TaskId -> Status],
             status' = [status EXCEPT ![r] = tasks], UNCHANGED <<deps, link>>,
             \A i \in TaskId : tasks[i] \notin {"none", "removed"} =>
                 status[r][i] \notin {"none", "removed"}
      PROVE  Untangled'
  <2>1. deps[r] \in [TaskId -> SUBSET Reference] /\ deps' = [deps EXCEPT ![r] = deps[r]]
    BY <1>2 DEF TypeOK
  <2> QED
    BY <1>2, <2>1, ShrunkStore
<1>3. \A r \in Repo :
         /\ Reclaimed(r) \in [TaskId -> Status]
         /\ \A i \in TaskId : Reclaimed(r)[i] \notin {"none", "removed"} =>
                status[r][i] \notin {"none", "removed"}
  BY ReclaimedType, ReclaimedPresent
<1>4. Home[p] \in Repo
  BY FederationAssumption
<1>5. ASSUME Preflight(p) PROVE Untangled'
  BY <1>2, <1>3, <1>4, <1>5 DEF Preflight
<1>6. ASSUME NEW u \in Reference, Ask(p, u) PROVE Untangled'
  <2>1. CASE Target(call[p].links, u) \in Repo \ away
    BY <1>2, <1>3, <1>6, <2>1 DEF Ask
  <2>2. CASE Target(call[p].links, u) \notin Repo \ away
    BY <1>1, <1>6, <2>2 DEF Ask
  <2> QED
    BY <2>1, <2>2
<1>7. ASSUME Commit(p) PROVE Untangled'
  <2>1. Outcome(p) \in [TaskId -> Status]
    BY <1>3, <1>4 DEF Outcome, Status
  <2>2. Accepts(p) => Reclaimed(Home[p])[call[p].id] \notin {"none", "removed"}
    BY DEF Accepts
  <2>3. \A i \in TaskId : Outcome(p)[i] \notin {"none", "removed"} =>
                status[Home[p]][i] \notin {"none", "removed"}
    BY <1>3, <1>4, <2>2 DEF Outcome
  <2> QED
    BY <1>2, <1>4, <1>7, <2>1, <2>3 DEF Commit
<1> QED
  BY <1>1, <1>5, <1>6, <1>7 DEF WorkerStep, Proceed, Begin, ReadLinks, Asked, Lock, Kill, data

LEMMA StaysUntangled == TypeOK /\ Untangled /\ [Next]_vars => Untangled'
<1> SUFFICES ASSUME TypeOK, Untangled, [Next]_vars PROVE Untangled'
  OBVIOUS
<1>1. CASE UNCHANGED vars
  BY <1>1 DEF vars, data, Untangled, Tangled, Present
<1>2. CASE Next
  BY <1>2, WorkerUntangled, StoreCallUntangled, AroundUntangled DEF Next, Step
<1> QED
  BY <1>1, <1>2

LEMMA InitUntangled == Init => Untangled
<1> SUFFICES ASSUME Init PROVE Untangled
  OBVIOUS
<1>1. \A r \in Repo : Present(r) = {}
  BY DEF Init, Present
<1> QED
  BY <1>1, FederationAssumption DEF Init, Untangled, Tangled, NoLinks

(***************************************************************************)
(* Unfinished work that waits for itself does so across projects, for any  *)
(* number of them: the cycle check of an edit and the refusal to link the  *)
(* project itself leave no circle within one.                              *)
(***************************************************************************)
THEOREM NoProjectWedgesItself == Spec => []WedgesSpanProjects
<1>1. ASSUME TypeOK, Untangled, NEW S \in (SUBSET Unfinished) \ {{}},
             \A t \in S : \E x \in S : WaitsFor(t, x)
      PROVE  Cardinality({t[1] : t \in S}) > 1
  <2> DEFINE P == {t[1] : t \in S}
  <2>1. P \subseteq Repo /\ P # {}
    BY <1>1 DEF Unfinished
  <2>2. ASSUME NEW r \in Repo, P = {r} PROVE FALSE
    <3> DEFINE I == {i \in TaskId : <<r, i>> \in S}
    <3>1. \A t \in S : t = <<r, t[2]>> /\ t[2] \in I /\ t[1] = r
                     /\ status[r][t[2]] \in {"pending", "in_progress"}
      <4> TAKE t \in S
      <4>1. t \in Repo \X TaskId /\ status[t[1]][t[2]] \in {"pending", "in_progress"}
        BY <1>1 DEF Unfinished
      <4>2. t[1] = r
        BY <2>2
      <4> QED
        BY <4>1, <4>2
    <3>2. I # {} /\ I \in SUBSET Present(r)
      <4>1. I # {}
        BY <1>1, <3>1
      <4>2. \A i \in I : status[r][i] \in {"pending", "in_progress"}
        <5> TAKE i \in I
        <5>1. <<r, i>> \in S
          OBVIOUS
        <5>2. <<r, i>>[2] = i
          OBVIOUS
        <5> QED
          BY <3>1, <5>1, <5>2
      <4> QED
        BY <4>1, <4>2 DEF Present
    <3>3. ASSUME NEW i \in I PROVE I \cap Local(deps[r][i]) # {}
      <4>1. PICK x \in S : WaitsFor(<<r, i>>, x)
        BY <1>1
      <4>2. PICK u \in deps[r][i] :
               u[2] = x[2] /\ x[1] = IF u[1] = "local" THEN r ELSE Target(link[r], u)
        BY <4>1 DEF WaitsFor
      <4>3. u \in Reference
        BY <1>1 DEF TypeOK
      <4>4. x[1] = r /\ x[2] \in I
        BY <3>1
      <4>5. u[1] = "local"
        BY <1>1, <4>2, <4>3, <4>4 DEF Reference, Untangled, Target
      <4>6. x[2] \in Local(deps[r][i])
        BY <4>2, <4>5 DEF Local
      <4> QED
        BY <4>4, <4>6
    <3> HIDE DEF I
    <3> QED
      BY <1>1, <3>2, <3>3 DEF Untangled, Tangled
  <2>3. IsFiniteSet(P)
    BY <2>1, FS_Subset, FederationAssumption
  <2> HIDE DEF P
  <2>4. Cardinality(P) \in Nat /\ Cardinality(P) # 0
    BY <2>1, <2>3, FS_CardinalityType, FS_EmptySet
  <2>5. Cardinality(P) # 1
    <3>1. ASSUME Cardinality(P) = 1 PROVE FALSE
      <4>1. PICK r : P = {r}
        BY <2>3, <3>1, FS_Singleton
      <4> QED
        BY <2>1, <2>2, <4>1
    <3> QED
      BY <3>1
  <2> QED
    BY <2>4, <2>5 DEF P
<1>2. TypeOK /\ Untangled => WedgesSpanProjects
  BY <1>1 DEF WedgesSpanProjects
<1>3. IInv => TypeOK
  BY DEF IInv
<1> QED
  BY <1>2, <1>3, Invariance, InitUntangled, StaysUntangled, PTL DEF Spec
=============================================================================
