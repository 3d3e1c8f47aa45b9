--------------------------- MODULE SessionProofs ---------------------------
(***************************************************************************)
(* Theorems about Session for any number of servers, frames and pipe       *)
(* lengths, and any sets of methods, tools and lines.                      *)
(*                                                                         *)
(* Frames are numbered across all servers, and the proofs rest on the      *)
(* number of a frame being in one place: in one pipe, or behind it among   *)
(* the frames handled, answered or applied, whole or in part.              *)
(***************************************************************************)
EXTENDS Session, TLAPS

\* The frames that changed the project.
Changed == applied \cup partly

Unread(s) == {pipe[s][k].n : k \in DOMAIN pipe[s]}

\* The numbers the server is done with.
Spent(s) ==
    {handled[s][k].n : k \in DOMAIN handled[s]} \cup {a.id : a \in Answers(s)}

\* A frame has its own number for an ID, or none.
OwnId(f) == f.id \in {0, f.n}

\* Every number is in one place.
Numbered ==
    /\ Changed \subseteq 0..sent
    /\ \A s \in Server :
        /\ Unread(s) \subseteq 1..sent /\ Spent(s) \subseteq 0..sent
        /\ Unread(s) \cap Changed = {}
        /\ \A k \in DOMAIN pipe[s] : OwnId(pipe[s][k])
        /\ \A k \in DOMAIN handled[s] : OwnId(handled[s][k])
        /\ \A t \in Server : Unread(s) \cap Spent(t) = {}
        /\ \A t \in Server \ {s} : Unread(s) \cap Unread(t) = {}

\* Frames are read in the order sent, and answers follow them.
Ordered ==
    \A s \in Server :
        /\ \A j, k \in DOMAIN pipe[s] : j < k => pipe[s][j].n < pipe[s][k].n
        /\ \A a \in Answers(s), k \in DOMAIN pipe[s] : a.id < pipe[s][k].n
        /\ \A k \in DOMAIN got[s] :
             answer[s] # NoAnswer /\ answer[s].id # 0 => got[s][k].id < answer[s].id

\* The flags of a process tell what it has handled.
Handshaken ==
    \A s \in Server :
        /\ proc[s].seen =>
             \E i \in DOMAIN handled[s] :
                 handled[s][i].method = "initialize" /\ handled[s][i].ok
        /\ proc[s].ready =>
             \E i, j \in DOMAIN handled[s] :
                 /\ i < j
                 /\ handled[s][i].method = "initialize" /\ handled[s][i].ok
                 /\ handled[s][j].method = "notifications/initialized"

IInv ==
    /\ TypeOK /\ Numbered /\ Ordered /\ Handshaken
    /\ AnswersMatch /\ AnswersTellTheTruth /\ HandshakeFirst

-----------------------------------------------------------------------------
(* Types.                                                                  *)

\* A sent frame gets a number of its kind of server.
LEMMA SentFrame ==
    ASSUME TypeOK, NEW s \in Server, NEW f, Send(s, f)
    PROVE  sent + 1 \in Number /\ sent \in Nat
<1>1. kind[s] \in Kind /\ MaxFrames[kind[s]] \in Nat
  BY SessionAssumption DEF TypeOK
<1>2. sent \in Nat
  BY SessionAssumption DEF TypeOK, Number
<1> QED
  BY <1>1, <1>2 DEF Send, Number

LEMMA NumbersAreNatural == Number \subseteq Nat \ {0}
  BY SessionAssumption DEF Number

\* The frames that clients send.
LEMMA FramesSent ==
    ASSUME TypeOK, NEW s \in Server, ClientStep(s)
    PROVE  \/ \E f \in Frame : f.n = sent + 1 /\ OwnId(f) /\ Send(s, f)
           \/ CloseInput(s) \/ CloseOutput(s) \/ Start(s) \/ Kill(s)
<1>1. ASSUME NEW method \in Method, NEW tool \in Method, SendRequest(s, method, tool)
      PROVE  \E f \in Frame : f.n = sent + 1 /\ OwnId(f) /\ Send(s, f)
  <2>1. PICK ok \in BOOLEAN, identified \in BOOLEAN :
          Send(s, Request(method, tool, ok, identified))
    BY <1>1 DEF SendRequest
  <2> DEFINE f == Request(method, tool, ok, identified)
  <2>2. sent + 1 \in Number
    BY <2>1, SentFrame
  <2>3. f \in Frame /\ f.n = sent + 1 /\ OwnId(f)
    BY <2>2 DEF Request, Frame, Form, OwnId
  <2> QED
    BY <2>1, <2>3
<1>2. ASSUME NEW form \in Form, SendOther(s, form)
      PROVE  \E f \in Frame : f.n = sent + 1 /\ OwnId(f) /\ Send(s, f)
  <2> DEFINE f == [Request("ping", "ping", TRUE, form = "unversioned") EXCEPT !.form = form]
  <2>1. sent + 1 \in Number
    BY <1>2, SentFrame DEF SendOther
  <2>2. f \in Frame /\ f.n = sent + 1 /\ OwnId(f)
    BY <2>1 DEF Request, Frame, Form, Method, OwnId
  <2> QED
    BY <1>2, <2>2 DEF SendOther
<1>3. kind[s] \in Kind /\ Asked[kind[s]] \subseteq Method /\ Tool \subseteq Method
      /\ Line[kind[s]] \subseteq Form /\ {"ping", "tools/call"} \subseteq Method
  BY SessionAssumption DEF TypeOK, Method
<1> QED
  BY <1>1, <1>2, <1>3 DEF ClientStep

\* What a server does, by its effect: it takes a frame, or it ends or moves the
\* answer that is pending.
Took(s) ==
    /\ pipe[s] # << >> /\ answer[s] = NoAnswer /\ proc[s].up
    /\ pipe' = [pipe EXCEPT ![s] = Tail(@)]
    /\ UNCHANGED <<kind, sent, ends, got>>

\* A rejected line.
Rejected(s) ==
    /\ Took(s) /\ UNCHANGED <<exists, proc, effects, handled>>
    /\ \E a \in Answer :
        /\ a.id = 0 \/ a.id = Head(pipe[s]).id
        /\ a.code \in {"parse", "invalid_request"}
        /\ answer' = [answer EXCEPT ![s] = a]

\* The frame n takes effect, whole or in part, and is answered with code.
Effect(n, code) ==
    \/ applied' = applied \cup {n} /\ partly' = partly /\ code \in {"ok", "storage_error"}
    \/ applied' = applied /\ partly' = partly \cup {n} /\ code = "refused"

\* A frame dispatched: p is what it leaves of the process.
Handled(s, p, code) ==
    LET f == Head(pipe[s]) IN
    /\ Took(s) /\ exists' \in BOOLEAN
    /\ proc' = [proc EXCEPT ![s] = p]
    /\ answer' = [answer EXCEPT ![s] = Answered(f, code)]
    /\ handled' = [handled EXCEPT ![s] = Append(@, f)]
    /\ \/ UNCHANGED effects
       \/ /\ Effect(f.n, code)
          /\ kind[s] = "mcp" => proc[s].ready
    /\ Calls(s, f) /\ code = "ok" => f.n \in applied'

\* What dispatch may make of the flags of a process.
Flags(s, p) ==
    LET f == Head(pipe[s]) IN
    \/ p = proc[s]
    \/ p = [proc[s] EXCEPT !.initialized = TRUE]
    \/ p = [proc[s] EXCEPT !.seen = TRUE] /\ f.method = "initialize" /\ f.ok
    \/ /\ p = [proc[s] EXCEPT !.ready = TRUE]
       /\ f.method = "notifications/initialized" /\ proc[s].seen

LEMMA NativeHandles ==
    ASSUME TypeOK, NEW s \in Server, Reading(s), UNCHANGED kind, NEW method,
           Native(s, Head(pipe[s]), method), kind[s] = "mcp" => proc[s].ready,
           Calls(s, Head(pipe[s])) => method = "call"
    PROVE  \E p \in Process, code \in Code : Flags(s, p) /\ Handled(s, p, code)
<1> DEFINE f == Head(pipe[s])
<1>0. /\ proc[s] \in Process /\ [proc[s] EXCEPT !.initialized = TRUE] \in Process
      /\ exists \in BOOLEAN
  BY DEF TypeOK, Process
<1>1. ASSUME NEW code \in Code, Plain(s, f, code), code = "ok" => ~Calls(s, f)
      PROVE  \E p \in Process, c \in Code : Flags(s, p) /\ Handled(s, p, c)
  <2>1. Handled(s, proc[s], code)
    BY <1>0, <1>1 DEF Plain, Dispatched, Consume, Handled, Took, Reading, Idle, ends
  <2> QED
    BY <1>0, <2>1 DEF Flags
<1>2. ASSUME NEW code \in {"ok", "storage_error"}, Commit(s, f, code)
      PROVE  \E p \in Process, c \in Code : Flags(s, p) /\ Handled(s, p, c)
  <2>1. Handled(s, proc[s], code)
    BY <1>0, <1>2
       DEF Commit, Dispatched, Consume, Handled, Effect, Took, Reading, Idle, ends
  <2> QED
    BY <1>0, <2>1 DEF Flags, Code
<1>3. ASSUME CommitPartly(s, f)
      PROVE  \E p \in Process, c \in Code : Flags(s, p) /\ Handled(s, p, c)
  <2>1. Handled(s, proc[s], "refused")
    BY <1>0, <1>3
       DEF CommitPartly, Dispatched, Consume, Handled, Effect, Took, Reading, Idle, ends
  <2> QED
    BY <1>0, <2>1 DEF Flags, Code
<1>4. ASSUME HandleInit(s, f), ~Calls(s, f)
      PROVE  \E p \in Process, c \in Code : Flags(s, p) /\ Handled(s, p, c)
  <2>1. Handled(s, [proc[s] EXCEPT !.initialized = TRUE], "ok")
        \/ Handled(s, proc[s], "storage_error")
    BY <1>4 DEF HandleInit, Dispatched, Consume, Handled, Took, Reading, Idle, ends
  <2> QED
    BY <1>0, <2>1 DEF Flags, Code
<1> QED
  BY <1>1, <1>2, <1>3, <1>4 DEF Native, HandleCall, Code

LEMMA ServerSteps ==
    ASSUME TypeOK, NEW s \in Server, Serve(s), UNCHANGED kind
    PROVE  \/ Rejected(s)
           \/ \E p \in Process, code \in Code : Flags(s, p) /\ Handled(s, p, code)
           \/ SkipBlank(s) \/ Overflow(s) \/ Deliver(s) \/ LoseAnswer(s) \/ Exit(s)
<1> DEFINE f == Head(pipe[s])
<1>0. pipe[s] # << >> => f \in Frame
  BY DEF TypeOK
<1>1. ASSUME RejectFrame(s) PROVE Rejected(s)
  <2> DEFINE a(id, code) == [id |-> id, code |-> code]
  <2>1. f \in Frame /\ f.id \in {0} \cup Number
    BY <1>0, <1>1 DEF RejectFrame, Reading, Frame
  <2>2. PICK id \in {0, f.id}, code \in {"parse", "invalid_request"} : Reject(s, id, code)
    BY <1>1 DEF RejectFrame
  <2>3. a(id, code) \in Answer
    BY <2>1 DEF Answer, Code
  <2> QED
    BY <1>1, <2>2, <2>3
       DEF RejectFrame, Reading, Idle, Reject, Consume, Rejected, Took, ends
<1>2. ASSUME ServeNative(s)
      PROVE  \E p \in Process, code \in Code : Flags(s, p) /\ Handled(s, p, code)
  BY <1>2, NativeHandles DEF ServeNative, Calls
<1>3. ASSUME ServeMcp(s)
      PROVE  \E p \in Process, code \in Code : Flags(s, p) /\ Handled(s, p, code)
  <2>0. /\ Reading(s) /\ exists \in BOOLEAN /\ proc[s] \in Process
        /\ [proc[s] EXCEPT !.seen = TRUE] \in Process
        /\ [proc[s] EXCEPT !.ready = TRUE] \in Process
        /\ kind[s] = "mcp"
    BY <1>3 DEF ServeMcp, TypeOK, Process
  <2>1. ASSUME NEW code \in Code, Plain(s, f, code), code = "ok" => ~Calls(s, f)
        PROVE  \E p \in Process, c \in Code : Flags(s, p) /\ Handled(s, p, c)
    <3>1. Handled(s, proc[s], code)
      BY <2>0, <2>1 DEF Plain, Dispatched, Consume, Handled, Took, Reading, Idle, ends
    <3> QED
      BY <2>0, <3>1 DEF Flags
  <2>2. ASSUME f.method = "initialize", Initialize(s, f)
        PROVE  \E p \in Process, c \in Code : Flags(s, p) /\ Handled(s, p, c)
    <3>1. CASE Plain(s, f, "invalid_params")
      BY <2>1, <3>1 DEF Code
    <3>2. CASE f.ok /\ ~Plain(s, f, "invalid_params")
      <4>1. Handled(s, [proc[s] EXCEPT !.seen = TRUE], "ok")
        BY <2>0, <2>2, <3>2
           DEF Initialize, Dispatched, Consume, Handled, Took, Reading, Idle, ends, Calls
      <4> QED
        BY <2>0, <2>2, <3>2, <4>1 DEF Flags, Code
    <3> QED
      BY <2>2, <3>1, <3>2 DEF Initialize
  <2>3. ASSUME f.method = "notifications/initialized", Initialized(s, f)
        PROVE  \E p \in Process, c \in Code : Flags(s, p) /\ Handled(s, p, c)
    <3>1. CASE Plain(s, f, "not_initialized")
      BY <2>1, <3>1 DEF Code
    <3>2. CASE InitializeSeen(s) /\ ~Plain(s, f, "not_initialized")
      <4>1. Handled(s, [proc[s] EXCEPT !.ready = TRUE], "ok")
        BY <2>0, <2>3, <3>2
           DEF Initialized, Dispatched, Consume, Handled, Took, Reading, Idle, ends, Calls
      <4> QED
        BY <2>0, <2>3, <3>2, <4>1 DEF Flags, Code, InitializeSeen
    <3> QED
      BY <2>3, <3>1, <3>2 DEF Initialized
  <2>4. ASSUME CallTool(s, f)
        PROVE  \E p \in Process, c \in Code : Flags(s, p) /\ Handled(s, p, c)
    <3>1. CASE Plain(s, f, "not_initialized") \/ Plain(s, f, "invalid_params")
      BY <2>1, <3>1 DEF Code
    <3>2. CASE proc[s].ready /\ Native(s, f, f.tool)
      BY <2>0, <3>2, NativeHandles DEF Calls
    <3> QED
      BY <2>4, <3>1, <3>2 DEF CallTool
  <2> QED
    BY <1>3, <2>1, <2>2, <2>3, <2>4 DEF ServeMcp, ListTools, Code, Calls
<1> QED
  BY <1>1, <1>2, <1>3 DEF Serve

-----------------------------------------------------------------------------
(* Types are kept.                                                         *)

LEMMA InitType == Init => TypeOK
<1> SUFFICES ASSUME Init PROVE TypeOK
  OBVIOUS
<1>1. Started \in Process
  BY DEF Init, Started, Process
<1> QED
  BY <1>1 DEF Init, TypeOK

LEMMA ServerType ==
    ASSUME TypeOK, NEW s \in Server, Serve(s), UNCHANGED kind
    PROVE  TypeOK'
<1>0. [proc[s] EXCEPT !.up = FALSE] \in Process
  BY DEF TypeOK, Process
<1>1. ASSUME Stop(s) PROVE TypeOK'
  BY <1>0, <1>1 DEF Stop, TypeOK, ends, effects
<1>2. ASSUME Took(s) PROVE pipe' \in [Server -> Seq(Frame)] /\ Head(pipe[s]) \in Frame
  BY <1>2 DEF Took, TypeOK
<1>3. ASSUME Rejected(s) PROVE TypeOK'
  BY <1>2, <1>3 DEF Rejected, Took, TypeOK, ends, effects
<1>4. ASSUME NEW p \in Process, NEW code \in Code, Handled(s, p, code) PROVE TypeOK'
  <2> DEFINE f == Head(pipe[s])
  <2>1. Took(s) /\ f \in Frame
    BY <1>2, <1>4 DEF Handled
  <2>2. Answered(f, code) \in Answer \cup {NoAnswer} /\ f.n \in Number
    BY <2>1 DEF Answered, Answer, Frame
  <2>3. handled' \in [Server -> Seq(Frame)]
    BY <1>4, <2>1 DEF Handled, TypeOK
  <2>4. applied' \subseteq Number /\ partly' \subseteq Number /\ answer' \in [Server -> Answer \cup {NoAnswer}]
        /\ proc' \in [Server -> Process] /\ exists' \in BOOLEAN
    BY <1>4, <2>2 DEF Handled, Effect, effects, TypeOK
  <2> QED
    BY <1>2, <2>1, <2>3, <2>4 DEF Took, TypeOK, ends
<1>5. ASSUME SkipBlank(s) PROVE TypeOK'
  BY <1>5 DEF SkipBlank, Reading, Consume, TypeOK, ends, effects
<1>6. ASSUME Deliver(s) PROVE TypeOK'
  <2>1. got' \in [Server -> Seq(Answer)]
    BY <1>6 DEF Deliver, TypeOK
  <2> QED
    BY <1>6, <2>1 DEF Deliver, TypeOK, ends, effects
<1>7. ASSUME LoseAnswer(s) PROVE TypeOK'
  BY <1>1, <1>7 DEF LoseAnswer, TypeOK, ends, effects
<1> QED
  BY <1>1, <1>3, <1>4, <1>5, <1>6, <1>7, ServerSteps DEF Overflow, Exit

LEMMA ClientType ==
    ASSUME TypeOK, NEW s \in Server, ClientStep(s), UNCHANGED kind
    PROVE  TypeOK'
<1>1. ASSUME NEW f \in Frame, Send(s, f) PROVE TypeOK'
  <2>1. sent' \in Number
    BY <1>1, SentFrame DEF Send
  <2>2. pipe' \in [Server -> Seq(Frame)]
    BY <1>1 DEF Send, TypeOK
  <2> QED
    BY <1>1, <2>1, <2>2 DEF Send, TypeOK, ends, effects
<1>2. ASSUME CloseInput(s) \/ CloseOutput(s) PROVE TypeOK'
  BY <1>2 DEF CloseInput, CloseOutput, TypeOK, effects
<1>3. ASSUME Start(s) PROVE TypeOK'
  <2>1. Started \in Process
    BY DEF Started, Process, TypeOK
  <2> QED
    BY <1>3, <2>1 DEF Start, TypeOK, effects
<1>4. ASSUME Kill(s) PROVE TypeOK'
  <2>1. [proc[s] EXCEPT !.up = FALSE] \in Process
    BY DEF TypeOK, Process
  <2> QED
    BY <1>4, <2>1 DEF Kill, Stop, TypeOK, ends, effects
<1> QED
  BY <1>1, <1>2, <1>3, <1>4, FramesSent

LEMMA StepType == TypeOK /\ [Next]_vars => TypeOK'
<1> SUFFICES ASSUME TypeOK, [Next]_vars PROVE TypeOK'
  OBVIOUS
<1>1. CASE InitProject /\ UNCHANGED kind
  BY <1>1 DEF InitProject, TypeOK, ends, effects
<1>2. CASE UNCHANGED vars
  BY <1>2 DEF vars, TypeOK, effects
<1> QED
  BY <1>1, <1>2, ServerType, ClientType DEF Next

-----------------------------------------------------------------------------
(* Numbers move from a pipe to what is spent.                              *)

LEMMA NumbersMove ==
    ASSUME Numbered, sent' = sent, sent \in Nat, NEW n \in 0..sent,
           Changed' \subseteq Changed \cup {n},
           \A t \in Server :
               /\ Unread(t)' \subseteq Unread(t) \ {n}
               /\ Spent(t)' \subseteq Spent(t) \cup {0, n}
               /\ \A k \in DOMAIN pipe'[t] : OwnId(pipe'[t][k])
               /\ \A k \in DOMAIN handled'[t] : OwnId(handled'[t][k])
    PROVE  Numbered'
<1> SUFFICES ASSUME NEW s \in Server
             PROVE  /\ Unread(s)' \subseteq 1..sent /\ Spent(s)' \subseteq 0..sent
                    /\ Unread(s)' \cap Changed' = {}
                    /\ \A t \in Server : Unread(s)' \cap Spent(t)' = {}
                    /\ \A t \in Server \ {s} : Unread(s)' \cap Unread(t)' = {}
  BY DEF Numbered
<1>1. 0 \notin Unread(s)' /\ n \notin Unread(s)' /\ Unread(s)' \subseteq Unread(s)
  BY DEF Numbered
<1>2. /\ Unread(s) \subseteq 1..sent /\ Spent(s) \subseteq 0..sent
      /\ Unread(s) \cap Changed = {}
      /\ \A t \in Server : Unread(s) \cap Spent(t) = {}
      /\ \A t \in Server \ {s} : Unread(s) \cap Unread(t) = {}
  BY DEF Numbered
<1> HIDE DEF Numbered
<1>3. 0 \in 0..sent
  OBVIOUS
<1> QED
  BY <1>1, <1>2, <1>3

\* The first frame of a pipe is read.
LEMMA PipeTail ==
    ASSUME TypeOK, Numbered, Ordered, NEW s \in Server, pipe[s] # << >>,
           pipe' = [pipe EXCEPT ![s] = Tail(@)]
    PROVE  LET f == Head(pipe[s]) IN
           /\ f \in Frame /\ OwnId(f) /\ f.n \in Unread(s) /\ f.n \in 1..sent
           /\ \A k \in DOMAIN pipe'[s] : f.n < pipe'[s][k].n
           /\ \A t \in Server :
               /\ Unread(t)' \subseteq Unread(t) \ {f.n}
               /\ \A k \in DOMAIN pipe'[t] :
                   /\ OwnId(pipe'[t][k])
                   /\ \E i \in DOMAIN pipe[t] : pipe'[t][k] = pipe[t][i]
               /\ \A j, k \in DOMAIN pipe'[t] : j < k => pipe'[t][j].n < pipe'[t][k].n
<1> DEFINE f == Head(pipe[s])
<1>1. /\ pipe[s] \in Seq(Frame) /\ Len(pipe[s]) \in Nat \ {0}
      /\ DOMAIN pipe[s] = 1..Len(pipe[s])
      /\ f = pipe[s][1] /\ f \in Frame
  BY DEF TypeOK
<1>2. /\ DOMAIN pipe'[s] = 1..(Len(pipe[s]) - 1)
      /\ \A k \in DOMAIN pipe'[s] : pipe'[s][k] = pipe[s][k + 1] /\ k + 1 \in DOMAIN pipe[s]
  BY <1>1 DEF TypeOK
<1>3. f.n \in Unread(s) /\ OwnId(f) /\ f.n \in 1..sent
  <2>1. 1 \in DOMAIN pipe[s]
    BY <1>1
  <2> QED
    BY <1>1, <2>1 DEF Unread, Numbered
<1>4. ASSUME NEW i \in DOMAIN pipe[s], i # 1 PROVE f.n < pipe[s][i].n
  <2>1. 1 \in DOMAIN pipe[s] /\ 1 < i
    BY <1>1, <1>4
  <2> QED
    BY <1>1, <2>1 DEF Ordered
<1>5. \A k \in DOMAIN pipe'[s] : f.n < pipe'[s][k].n
  BY <1>1, <1>2, <1>4
<1>6. \A t \in Server \ {s} : pipe'[t] = pipe[t]
  BY DEF TypeOK
<1>7. ASSUME NEW t \in Server \ {s}
      PROVE  Unread(t)' = Unread(t) /\ f.n \notin Unread(t)
  BY <1>3, <1>6 DEF Unread, Numbered
<1>8. Unread(s)' \subseteq Unread(s) \ {f.n}
  <2> SUFFICES ASSUME NEW k \in DOMAIN pipe'[s]
               PROVE  pipe'[s][k].n \in Unread(s) /\ pipe'[s][k].n # f.n
    BY DEF Unread
  <2>1. pipe'[s][k].n \in Unread(s)
    BY <1>2 DEF Unread
  <2>2. pipe'[s][k].n \in Nat /\ f.n \in Nat
    BY <1>3, <2>1 DEF Numbered
  <2> QED
    BY <1>5, <2>1, <2>2
<1>9. ASSUME NEW t \in Server, NEW k \in DOMAIN pipe'[t]
      PROVE  \E i \in DOMAIN pipe[t] : pipe'[t][k] = pipe[t][i]
  BY <1>2, <1>6
<1>10. ASSUME NEW t \in Server, NEW k \in DOMAIN pipe'[t]
       PROVE  OwnId(pipe'[t][k])
  BY <1>9 DEF Numbered
<1>11. ASSUME NEW t \in Server, NEW j \in DOMAIN pipe'[t], NEW k \in DOMAIN pipe'[t], j < k
       PROVE  pipe'[t][j].n < pipe'[t][k].n
  <2>1. CASE t = s
    <3>1. j + 1 \in DOMAIN pipe[s] /\ k + 1 \in DOMAIN pipe[s] /\ j + 1 < k + 1
      BY <1>1, <1>2, <1>11, <2>1
    <3> QED
      BY <1>2, <2>1, <3>1 DEF Ordered
  <2> QED
    BY <1>6, <1>11, <2>1 DEF Ordered
<1> HIDE DEF f
<1> QED
  BY <1>1, <1>3, <1>5, <1>7, <1>8, <1>9, <1>10, <1>11 DEF f

-----------------------------------------------------------------------------
(* The invariant is kept.                                                  *)

\* Steps that read at most a blank line, lose answers, end or start processes.
LEMMA QuietKeeps ==
    ASSUME IInv, TypeOK', UNCHANGED <<kind, sent, effects, got>>,
           \A t \in Server :
               /\ pipe'[t] = pipe[t] \/ pipe'[t] = << >>
               /\ \/ /\ handled'[t] = handled[t]
                     /\ proc'[t].seen = proc[t].seen /\ proc'[t].ready = proc[t].ready
                     /\ proc'[t].up /\ ~gone'[t] => proc[t].up /\ ~gone[t]
                  \/ handled'[t] = << >> /\ ~proc'[t].seen /\ ~proc'[t].ready
               /\ \/ answer'[t] = answer[t]
                  \/ answer'[t] = NoAnswer /\ (~proc'[t].up \/ gone'[t])
    PROVE  IInv'
<1>1. sent \in Nat
  BY NumbersAreNatural DEF IInv, TypeOK
<1>2. ASSUME NEW t \in Server
      PROVE  Answers(t)' \subseteq Answers(t)
             /\ (Answers(t)' = Answers(t) \/ ~proc'[t].up \/ gone'[t])
  BY DEF Answers
<1>3. ASSUME NEW t \in Server
      PROVE  Unread(t)' \subseteq Unread(t) /\ Spent(t)' \subseteq Spent(t)
  <2>1. DOMAIN << >> = {}
    OBVIOUS
  <2>2. Unread(t)' \subseteq Unread(t)
    BY <2>1 DEF Unread
  <2>3. Spent(t)' \subseteq Spent(t)
    BY <1>2, <2>1 DEF Spent
  <2> QED
    BY <2>2, <2>3
<1>4. Numbered'
  <2>1. 0 \in 0..sent /\ \A t \in Server : 0 \notin Unread(t)
    BY <1>1 DEF IInv, Numbered
  <2>2. \A t \in Server : /\ \A k \in DOMAIN pipe'[t] : OwnId(pipe'[t][k])
                          /\ \A k \in DOMAIN handled'[t] : OwnId(handled'[t][k])
    BY DEF IInv, Numbered
  <2> QED
    BY <1>1, <1>3, <2>1, <2>2, NumbersMove DEF IInv, Changed, effects
<1>5. Ordered'
  <2> SUFFICES ASSUME NEW t \in Server
               PROVE  /\ \A j, k \in DOMAIN pipe'[t] : j < k => pipe'[t][j].n < pipe'[t][k].n
                      /\ \A a \in Answers(t)', k \in DOMAIN pipe'[t] : a.id < pipe'[t][k].n
                      /\ \A k \in DOMAIN got'[t] :
                           answer'[t] # NoAnswer /\ answer'[t].id # 0
                               => got'[t][k].id < answer'[t].id
    BY DEF Ordered
  <2> QED
    BY <1>2 DEF IInv, Ordered
<1>6. Handshaken'
  <2> SUFFICES ASSUME NEW t \in Server, handled'[t] = handled[t] \/ ~proc'[t].seen,
                      handled'[t] = handled[t] \/ ~proc'[t].ready
               PROVE  /\ proc'[t].seen =>
                           \E i \in DOMAIN handled'[t] :
                             handled'[t][i].method = "initialize" /\ handled'[t][i].ok
                      /\ proc'[t].ready =>
                           \E i, j \in DOMAIN handled'[t] :
                             /\ i < j
                             /\ handled'[t][i].method = "initialize" /\ handled'[t][i].ok
                             /\ handled'[t][j].method = "notifications/initialized"
    BY DEF Handshaken
  <2> QED
    BY DEF IInv, Handshaken
<1>7. AnswersMatch'
  BY <1>2 DEF IInv, AnswersMatch
<1>8. AnswersTellTheTruth'
  <2>0. UNCHANGED <<kind, applied, partly>>
    BY DEF effects
  <2> SUFFICES ASSUME NEW t \in Server
               PROVE  /\ \A a \in Answers(t)' :
                           /\ a.id \in applied => a.code \in {"ok", "storage_error"}
                           /\ a.id \in partly => a.code = "refused"
                      /\ \A k \in DOMAIN handled'[t] :
                           LET f == handled'[t][k] IN
                           /\ Calls(t, f) /\ [id |-> f.n, code |-> "ok"] \in Answers(t)'
                                => f.n \in applied
                           /\ f.n \in applied \cup partly /\ f.id # 0
                              /\ proc'[t].up /\ ~gone'[t]
                                => f.id \in {a.id : a \in Answers(t)'}
    BY <2>0 DEF AnswersTellTheTruth, Calls
  <2>1. \A a \in Answers(t)' :
          /\ a.id \in applied => a.code \in {"ok", "storage_error"}
          /\ a.id \in partly => a.code = "refused"
    BY <1>2 DEF IInv, AnswersTellTheTruth
  <2>2. ASSUME NEW k \in DOMAIN handled'[t], handled'[t][k].n \in applied \cup partly,
               handled'[t][k].id # 0, proc'[t].up, ~gone'[t]
        PROVE  handled'[t][k].id \in {a.id : a \in Answers(t)'}
    <3>1. handled'[t] = handled[t] /\ proc[t].up /\ ~gone[t]
      BY <2>2
    <3>2. Answers(t)' = Answers(t)
      BY <1>2, <2>2
    <3> QED
      BY <2>2, <3>1, <3>2 DEF IInv, AnswersTellTheTruth
  <2>3. ASSUME NEW k \in DOMAIN handled'[t], Calls(t, handled'[t][k]),
               [id |-> handled'[t][k].n, code |-> "ok"] \in Answers(t)'
        PROVE  handled'[t][k].n \in applied
    <3>1. handled'[t] = handled[t]
      BY <2>3
    <3> QED
      BY <1>2, <2>3, <3>1 DEF IInv, AnswersTellTheTruth
  <2> QED
    BY <2>1, <2>2, <2>3
<1>9. HandshakeFirst'
  <2> SUFFICES ASSUME NEW t \in Server, NEW k \in DOMAIN handled'[t],
                      kind[t] = "mcp", handled'[t][k].n \in applied \cup partly
               PROVE  \E i, j \in 1..(k - 1) :
                        /\ i < j
                        /\ handled'[t][i].method = "initialize" /\ handled'[t][i].ok
                        /\ handled'[t][j].method = "notifications/initialized"
    BY DEF HandshakeFirst, effects
  <2>1. handled'[t] = handled[t]
    OBVIOUS
  <2> QED
    BY <2>1 DEF IInv, HandshakeFirst
<1> QED
  BY <1>4, <1>5, <1>6, <1>7, <1>8, <1>9 DEF IInv

\* A frame sent.
LEMMA SendKeeps ==
    ASSUME IInv, TypeOK', UNCHANGED kind, NEW s \in Server, NEW f \in Frame,
           f.n = sent + 1, OwnId(f), Send(s, f)
    PROVE  IInv'
<1>1. sent \in Nat /\ sent' = sent + 1
  BY NumbersAreNatural DEF IInv, TypeOK, Send
<1>2. \A t \in Server : Answers(t)' = Answers(t) /\ Spent(t)' = Spent(t)
  BY DEF Send, Answers, Spent
<1>3. /\ pipe[s] \in Seq(Frame) /\ Len(pipe[s]) \in Nat
      /\ DOMAIN pipe[s] = 1..Len(pipe[s]) /\ DOMAIN pipe'[s] = 1..(Len(pipe[s]) + 1)
      /\ pipe'[s][Len(pipe[s]) + 1] = f
      /\ \A k \in DOMAIN pipe[s] : pipe'[s][k] = pipe[s][k]
      /\ \A t \in Server \ {s} : pipe'[t] = pipe[t]
  BY DEF IInv, TypeOK, Send
<1>4. \A t \in Server : \A k \in DOMAIN pipe'[t] :
        \/ k \in DOMAIN pipe[t] /\ pipe'[t][k] = pipe[t][k]
        \/ t = s /\ k = Len(pipe[s]) + 1 /\ pipe'[t][k] = f
  BY <1>3
<1>5. \A t \in Server : Unread(t)' \subseteq Unread(t) \cup (IF t = s THEN {sent + 1} ELSE {})
  BY <1>4 DEF Unread
<1>6. ASSUME NEW t \in Server
      PROVE  /\ Unread(t) \subseteq 1..sent /\ Spent(t) \subseteq 0..sent
             /\ Changed \subseteq 0..sent
             /\ sent + 1 \notin Unread(t) /\ sent + 1 \notin Spent(t) /\ sent + 1 \notin Changed
             /\ Unread(t) \cap Changed = {}
             /\ \A u \in Server : Unread(t) \cap Spent(u) = {}
             /\ \A u \in Server \ {t} : Unread(t) \cap Unread(u) = {}
  <2>1. /\ Unread(t) \subseteq 1..sent /\ Spent(t) \subseteq 0..sent
        /\ Changed \subseteq 0..sent
    BY DEF IInv, Numbered
  <2>2. sent + 1 \notin 0..sent /\ sent + 1 \notin 1..sent
    BY <1>1
  <2> QED
    BY <2>1, <2>2 DEF IInv, Numbered
<1>7. Numbered'
  <2>0. Changed' = Changed
    BY DEF Send, effects, Changed
  <2>1. Changed' \subseteq 0..sent'
    BY <1>1, <2>0 DEF IInv, Numbered
  <2> SUFFICES ASSUME NEW t \in Server
               PROVE  /\ Unread(t)' \subseteq 1..sent' /\ Spent(t)' \subseteq 0..sent'
                      /\ Unread(t)' \cap Changed' = {}
                      /\ \A k \in DOMAIN pipe'[t] : OwnId(pipe'[t][k])
                      /\ \A k \in DOMAIN handled'[t] : OwnId(handled'[t][k])
                      /\ \A u \in Server : Unread(t)' \cap Spent(u)' = {}
                      /\ \A u \in Server \ {t} : Unread(t)' \cap Unread(u)' = {}
    BY <2>1 DEF Numbered
  <2>2. Unread(t)' \subseteq 1..sent' /\ Spent(t)' \subseteq 0..sent'
    BY <1>1, <1>2, <1>5, <1>6
  <2>3. Unread(t)' \cap Changed' = {}
    BY <1>5, <1>6, <2>0
  <2>4. \A k \in DOMAIN pipe'[t] : OwnId(pipe'[t][k])
    BY <1>4 DEF IInv, Numbered
  <2>5. \A k \in DOMAIN handled'[t] : OwnId(handled'[t][k])
    BY DEF IInv, Numbered, Send
  <2>6. \A u \in Server : Unread(t)' \cap Spent(u)' = {}
    BY <1>2, <1>5, <1>6
  <2>7. \A u \in Server \ {t} : Unread(t)' \cap Unread(u)' = {}
    BY <1>5, <1>6
  <2> QED
    BY <2>2, <2>3, <2>4, <2>5, <2>6, <2>7
<1>8. Ordered'
  <2> SUFFICES ASSUME NEW t \in Server
               PROVE  /\ \A j, k \in DOMAIN pipe'[t] : j < k => pipe'[t][j].n < pipe'[t][k].n
                      /\ \A a \in Answers(t)', k \in DOMAIN pipe'[t] : a.id < pipe'[t][k].n
                      /\ \A k \in DOMAIN got'[t] :
                           answer'[t] # NoAnswer /\ answer'[t].id # 0
                               => got'[t][k].id < answer'[t].id
    BY DEF Ordered
  <2>1. ASSUME NEW j \in DOMAIN pipe'[t], NEW k \in DOMAIN pipe'[t], j < k
        PROVE  pipe'[t][j].n < pipe'[t][k].n
    <3>1. j \in DOMAIN pipe[t] /\ pipe'[t][j] = pipe[t][j] /\ pipe[t][j].n \in Unread(t)
      BY <1>3, <1>4, <2>1 DEF Unread
    <3>2. pipe[t][j].n \in 1..sent
      BY <1>6, <3>1
    <3>3. CASE k \in DOMAIN pipe[t] /\ pipe'[t][k] = pipe[t][k]
      BY <2>1, <3>1, <3>3 DEF IInv, Ordered
    <3>4. CASE pipe'[t][k] = f
      BY <1>1, <3>1, <3>2, <3>4
    <3> QED
      BY <1>4, <3>3, <3>4
  <2>2. ASSUME NEW a \in Answers(t)', NEW k \in DOMAIN pipe'[t]
        PROVE  a.id < pipe'[t][k].n
    <3>1. a \in Answers(t) /\ a.id \in 0..sent
      BY <1>2, <1>6, <2>2 DEF Spent
    <3>2. CASE k \in DOMAIN pipe[t] /\ pipe'[t][k] = pipe[t][k]
      BY <3>1, <3>2 DEF IInv, Ordered
    <3>3. CASE pipe'[t][k] = f
      BY <1>1, <3>1, <3>3
    <3> QED
      BY <1>4, <3>2, <3>3
  <2>3. \A k \in DOMAIN got'[t] :
          answer'[t] # NoAnswer /\ answer'[t].id # 0 => got'[t][k].id < answer'[t].id
    BY DEF IInv, Ordered, Send
  <2> QED
    BY <2>1, <2>2, <2>3
<1>9. Handshaken' /\ HandshakeFirst'
  BY DEF IInv, Handshaken, HandshakeFirst, Send, effects
<1>10. AnswersMatch' /\ AnswersTellTheTruth'
  BY <1>2 DEF IInv, AnswersMatch, AnswersTellTheTruth, Calls, Send, ends, effects
<1> QED
  BY <1>7, <1>8, <1>9, <1>10 DEF IInv

\* The first frame is taken, with answer `new` or none: what a frame that is
\* taken does to numbers and answers, dispatched or not.
LEMMA TakeKeeps ==
    ASSUME IInv, TypeOK', NEW s \in Server, Took(s), NEW new \in Answer \cup {NoAnswer},
           new # NoAnswer => new.id \in {0, Head(pipe[s]).n},
           new # NoAnswer /\ new.id = 0 => new.code \in {"parse", "invalid_request"},
           answer' = [answer EXCEPT ![s] = new],
           handled' \in {handled, [handled EXCEPT ![s] = Append(@, Head(pipe[s]))]},
           \/ UNCHANGED effects
           \/ \E code \in Code :
                /\ Effect(Head(pipe[s]).n, code)
                /\ new # NoAnswer => new.code = code
    PROVE  /\ Numbered' /\ Ordered' /\ AnswersMatch'
           /\ \A t \in Server : \A a \in Answers(t)' :
                /\ a.id \in applied' => a.code \in {"ok", "storage_error"}
                /\ a.id \in partly' => a.code = "refused"
           /\ \A t \in Server : Answers(t) \subseteq Answers(t)'
           /\ new # NoAnswer => new \in Answers(s)'
<1> DEFINE f == Head(pipe[s])
<1>0. /\ f \in Frame /\ OwnId(f) /\ f.n \in Unread(s) /\ f.n \in 1..sent
      /\ \A k \in DOMAIN pipe'[s] : f.n < pipe'[s][k].n
      /\ \A t \in Server :
          /\ Unread(t)' \subseteq Unread(t) \ {f.n}
          /\ \A k \in DOMAIN pipe'[t] :
              /\ OwnId(pipe'[t][k])
              /\ \E i \in DOMAIN pipe[t] : pipe'[t][k] = pipe[t][i]
          /\ \A j, k \in DOMAIN pipe'[t] : j < k => pipe'[t][j].n < pipe'[t][k].n
  BY PipeTail DEF IInv, Took
<1> HIDE DEF f
<1>1. sent \in Nat /\ sent' = sent /\ f.n \in 0..sent /\ f.n # 0
  BY <1>0, NumbersAreNatural DEF IInv, TypeOK, Took
<1>2. /\ \/ UNCHANGED effects
         \/ \E code \in Code : Effect(f.n, code) /\ (new # NoAnswer => new.code = code)
      /\ applied' \subseteq applied \cup {f.n} /\ partly' \subseteq partly \cup {f.n}
  BY DEF Effect, effects, f
<1>3. /\ \A t \in Server \ {s} : Answers(t)' = Answers(t)
      /\ Answers(s)' = Answers(s) \cup ({new} \ {NoAnswer})
  BY DEF Answers, Took, IInv, TypeOK
<1>4. \A t \in Server : \A k \in DOMAIN handled'[t] :
        \/ k \in DOMAIN handled[t] /\ handled'[t][k] = handled[t][k]
        \/ t = s /\ handled'[t][k] = f
  <2>1. /\ handled[s] \in Seq(Frame) /\ Len(handled[s]) \in Nat
        /\ handled \in [Server -> Seq(Frame)]
    BY DEF IInv, TypeOK
  <2>2. /\ DOMAIN Append(handled[s], f) = 1..(Len(handled[s]) + 1)
        /\ Append(handled[s], f)[Len(handled[s]) + 1] = f
        /\ \A k \in DOMAIN handled[s] : Append(handled[s], f)[k] = handled[s][k]
        /\ DOMAIN handled[s] = 1..Len(handled[s])
    BY <1>0, <2>1
  <2>3. CASE handled' = handled
    BY <2>3
  <2>4. CASE handled' = [handled EXCEPT ![s] = Append(@, f)]
    <3>1. handled'[s] = Append(handled[s], f)
      BY <2>1, <2>4
    <3>2. \A t \in Server \ {s} : handled'[t] = handled[t]
      BY <2>1, <2>4
    <3>3. \A k \in DOMAIN handled'[s] : k \in DOMAIN handled[s] \/ k = Len(handled[s]) + 1
      BY <2>1, <2>2, <3>1
    <3> QED
      BY <2>2, <3>1, <3>2, <3>3
  <2> QED
    BY <2>3, <2>4 DEF f
<1>5. ASSUME NEW t \in Server PROVE Spent(t)' \subseteq Spent(t) \cup {0, f.n}
  <2>1. \A a \in Answers(t)' : a \in Answers(t) \/ a.id \in {0, f.n}
    BY <1>3 DEF f
  <2> QED
    BY <1>4, <2>1 DEF Spent
<1>6. Numbered'
  <2>1. \A t \in Server : \A k \in DOMAIN handled'[t] : OwnId(handled'[t][k])
    BY <1>0, <1>4 DEF IInv, Numbered
  <2>2. Changed' \subseteq Changed \cup {f.n}
    BY <1>2 DEF Changed
  <2> QED
    BY <1>0, <1>1, <1>5, <2>1, <2>2, NumbersMove DEF IInv
<1>7. ASSUME NEW t \in Server, NEW a \in Answers(t)
      PROVE  a.id # f.n /\ a.id \in 0..sent
  BY <1>0, <1>7 DEF IInv, Numbered, Spent
<1>8. \A a \in Answers(s) : a.id < f.n
  <2>1. 1 \in DOMAIN pipe[s] /\ pipe[s][1] = f
    BY DEF Took, IInv, TypeOK, f
  <2> QED
    BY <2>1 DEF IInv, Ordered
<1>9. Ordered'
  <2> SUFFICES ASSUME NEW t \in Server
               PROVE  /\ \A j, k \in DOMAIN pipe'[t] : j < k => pipe'[t][j].n < pipe'[t][k].n
                      /\ \A a \in Answers(t)', k \in DOMAIN pipe'[t] : a.id < pipe'[t][k].n
                      /\ \A k \in DOMAIN got'[t] :
                           answer'[t] # NoAnswer /\ answer'[t].id # 0
                               => got'[t][k].id < answer'[t].id
    BY DEF Ordered
  <2>1. ASSUME NEW a \in Answers(t)', NEW k \in DOMAIN pipe'[t]
        PROVE  a.id < pipe'[t][k].n
    <3>1. CASE a \in Answers(t)
      BY <1>0, <2>1, <3>1 DEF IInv, Ordered
    <3>2. CASE t = s /\ a = new /\ new # NoAnswer
      <4>1. new.id \in {0, f.n} /\ f.n < pipe'[s][k].n
        BY <1>0, <2>1, <3>2 DEF f
      <4>2. pipe'[s][k].n \in Unread(s)
        BY <1>0, <2>1, <3>2 DEF Unread
      <4>3. pipe'[s][k].n \in 1..sent
        BY <4>2 DEF IInv, Numbered
      <4> QED
        BY <1>1, <3>2, <4>1, <4>3
    <3> QED
      BY <1>3, <2>1, <3>1, <3>2
  <2>2. ASSUME NEW k \in DOMAIN got'[t], answer'[t] # NoAnswer, answer'[t].id # 0
        PROVE  got'[t][k].id < answer'[t].id
    <3>1. CASE t = s
      <4>1. answer'[t].id = f.n
        BY <2>2, <3>1 DEF IInv, TypeOK, f
      <4>2. got'[t][k] \in Answers(s)
        BY <2>2, <3>1 DEF Answers, Took
      <4> QED
        BY <1>8, <4>1, <4>2
    <3>2. CASE t # s
      BY <2>2, <3>2 DEF IInv, Ordered, Took
    <3> QED
      BY <3>1, <3>2
  <2> QED
    BY <1>0, <2>1, <2>2
<1>10. AnswersMatch'
  BY <1>3 DEF IInv, AnswersMatch, Took
<1>11. ASSUME NEW t \in Server, NEW a \in Answers(t)'
       PROVE  /\ a.id \in applied' => a.code \in {"ok", "storage_error"}
              /\ a.id \in partly' => a.code = "refused"
  <2>1. CASE a \in Answers(t)
    <3>1. (a.id \in applied' => a.id \in applied) /\ (a.id \in partly' => a.id \in partly)
      BY <1>2, <1>7, <2>1
    <3> QED
      BY <2>1, <3>1 DEF IInv, AnswersTellTheTruth
  <2>2. CASE t = s /\ a = new /\ new # NoAnswer
    <3>1. f.n \notin Changed /\ 0 \notin Changed
      BY <1>0, NumbersAreNatural DEF IInv, Numbered, TypeOK, Changed
    <3>2. CASE UNCHANGED effects
      BY <1>1, <2>2, <3>1, <3>2 DEF f, Changed, effects
    <3>3. CASE \E code \in Code : Effect(f.n, code) /\ new.code = code
      BY <2>2, <3>1, <3>3 DEF f, Changed, Effect
    <3> QED
      BY <1>2, <2>2, <3>2, <3>3
  <2> QED
    BY <1>3, <1>11, <2>1, <2>2
<1> QED
  BY <1>3, <1>6, <1>9, <1>10, <1>11

\* A blank or rejected line.
LEMMA LineKeeps ==
    ASSUME IInv, TypeOK', NEW s \in Server, Took(s), NEW new \in Answer \cup {NoAnswer},
           new # NoAnswer => new.id = 0 \/ new.id = Head(pipe[s]).id,
           new # NoAnswer => new.code \in {"parse", "invalid_request"},
           answer' = [answer EXCEPT ![s] = new],
           UNCHANGED <<exists, proc, effects, handled>>
    PROVE  IInv'
<1>1. OwnId(Head(pipe[s]))
  BY PipeTail DEF IInv, Took
<1>2. /\ Numbered' /\ Ordered' /\ AnswersMatch'
      /\ \A t \in Server : \A a \in Answers(t)' :
           /\ a.id \in applied' => a.code \in {"ok", "storage_error"}
           /\ a.id \in partly' => a.code = "refused"
      /\ \A t \in Server : Answers(t) \subseteq Answers(t)'
  BY <1>1, TakeKeeps DEF OwnId
<1>3. \A t \in Server : \A a \in Answers(t)' : a.code = "ok" => a \in Answers(t)
  BY DEF Answers, Took, IInv, TypeOK
<1>4. AnswersTellTheTruth'
  <2>1. ASSUME NEW t \in Server, NEW k \in DOMAIN handled[t], Calls(t, handled[t][k]),
               [id |-> handled[t][k].n, code |-> "ok"] \in Answers(t)'
        PROVE  handled[t][k].n \in applied
    BY <1>3, <2>1 DEF IInv, AnswersTellTheTruth
  <2> QED
    BY <1>2, <2>1 DEF IInv, AnswersTellTheTruth, Calls, Took, ends, effects
<1>5. Handshaken' /\ HandshakeFirst'
  BY DEF IInv, Handshaken, HandshakeFirst, Took, effects
<1> QED
  BY <1>2, <1>4, <1>5 DEF IInv

\* A frame dispatched.
LEMMA HandleKeeps ==
    ASSUME IInv, TypeOK', NEW s \in Server, NEW p \in Process, NEW code \in Code,
           Flags(s, p), Handled(s, p, code)
    PROVE  IInv'
<1> DEFINE f == Head(pipe[s])
           new == Answered(f, code)
           last == Len(handled[s]) + 1
<1>0. f \in Frame /\ OwnId(f) /\ f.n \in Unread(s) /\ f.n \in 1..sent
  BY PipeTail DEF IInv, Took, Handled
<1>1. /\ new \in Answer \cup {NoAnswer}
      /\ new = NoAnswer <=> f.id = 0
      /\ new # NoAnswer => new.id = f.id /\ new.id = f.n /\ new.id # 0 /\ new.code = code
  BY <1>0, AnswerAssumption DEF Answered, Answer, Frame, OwnId
<1> HIDE DEF new
<1>2. /\ Numbered' /\ Ordered' /\ AnswersMatch'
      /\ \A t \in Server : \A a \in Answers(t)' :
           /\ a.id \in applied' => a.code \in {"ok", "storage_error"}
           /\ a.id \in partly' => a.code = "refused"
      /\ \A t \in Server : Answers(t) \subseteq Answers(t)'
      /\ new # NoAnswer => new \in Answers(s)'
  <2>1. Took(s) /\ answer' = [answer EXCEPT ![s] = new]
        /\ handled' = [handled EXCEPT ![s] = Append(@, f)]
        /\ (UNCHANGED effects \/ Effect(f.n, code))
    BY DEF Handled, new
  <2> QED
    BY <1>0, <1>1, <2>1, TakeKeeps
<1>3. /\ Len(handled[s]) \in Nat /\ DOMAIN handled[s] = 1..Len(handled[s])
      /\ DOMAIN handled'[s] = 1..last /\ handled'[s][last] = f
      /\ \A k \in DOMAIN handled[s] : handled'[s][k] = handled[s][k]
      /\ \A t \in Server \ {s} : handled'[t] = handled[t]
  BY DEF Handled, IInv, TypeOK
<1>4. /\ proc'[s] = p /\ p.up = proc[s].up
      /\ \A t \in Server \ {s} : proc'[t] = proc[t]
      /\ p.seen => proc[s].seen \/ (f.method = "initialize" /\ f.ok)
      /\ p.ready => proc[s].ready \/ (f.method = "notifications/initialized" /\ proc[s].seen)
  BY DEF Handled, Flags, IInv, TypeOK, Process
<1>5. \A t \in Server : \A k \in DOMAIN handled[t] : handled[t][k].n # f.n
  BY <1>0 DEF IInv, Numbered, Spent
<1> HIDE DEF f, last
<1>6. \A t \in Server : \A k \in DOMAIN handled'[t] :
        \/ k \in DOMAIN handled[t] /\ handled'[t][k] = handled[t][k]
        \/ t = s /\ k = last /\ handled'[t][k] = f
  BY <1>3 DEF last
<1>7. applied' \subseteq applied \cup {f.n} /\ Changed' \subseteq Changed \cup {f.n}
      /\ applied \subseteq applied'
  BY DEF Handled, Effect, effects, Changed, f
<1>8. ASSUME NEW t \in Server, NEW k \in DOMAIN handled'[t],
             handled'[t][k].n \in Changed', handled'[t][k].id # 0,
             proc'[t].up, ~gone'[t]
      PROVE  \E a \in Answers(t)' : a.id = handled'[t][k].id
  <2>1. CASE k \in DOMAIN handled[t] /\ handled'[t][k] = handled[t][k]
    <3>1. handled[t][k].n \in Changed /\ proc[t].up /\ ~gone[t]
      BY <1>4, <1>5, <1>7, <1>8, <2>1 DEF Handled, Took, ends
    <3>2. \E a \in Answers(t) : a.id = handled[t][k].id
      BY <1>8, <2>1, <3>1 DEF IInv, AnswersTellTheTruth, Changed
    <3> QED
      BY <1>2, <2>1, <3>2
  <2>2. CASE t = s /\ handled'[t][k] = f
    BY <1>1, <1>2, <1>8, <2>2
  <2> QED
    BY <1>6, <2>1, <2>2
<1>9. ASSUME NEW t \in Server, NEW k \in DOMAIN handled'[t], Calls(t, handled'[t][k]),
              [id |-> handled'[t][k].n, code |-> "ok"] \in Answers(t)'
       PROVE  handled'[t][k].n \in applied'
  <2> DEFINE a == [id |-> handled'[t][k].n, code |-> "ok"]
  <2>1. a \in Answers(t) \/ (t = s /\ a = new /\ new # NoAnswer)
    BY <1>9 DEF Answers, Handled, Took, IInv, TypeOK, new, f
  <2>2. a \in Answers(t) => a.id # f.n
    BY <1>0 DEF IInv, Numbered, Spent, f
  <2>3. CASE a \in Answers(t)
    <3>1. k \in DOMAIN handled[t] /\ handled'[t][k] = handled[t][k]
      BY <1>6, <2>2, <2>3
    <3> QED
      BY <1>7, <1>9, <2>3, <3>1 DEF IInv, AnswersTellTheTruth
  <2>4. CASE t = s /\ a = new /\ new # NoAnswer
    <3>1. a.id = f.n /\ code = "ok"
      BY <1>1, <2>4
    <3>2. handled'[t][k] = f
      BY <1>5, <1>6, <3>1
    <3> QED
      BY <1>9, <2>4, <3>1, <3>2 DEF Handled, f
  <2> QED
    BY <2>1, <2>3, <2>4
<1>10. AnswersTellTheTruth'
  <2>1. \A t \in Server : \A g : Calls(t, g)' <=> Calls(t, g)
    BY DEF Calls, Handled, Took
  <2> QED
    BY <1>2, <1>8, <1>9, <2>1 DEF AnswersTellTheTruth, Changed
<1>11. Handshaken'
  <2>1. ASSUME NEW t \in Server, proc'[t].seen
        PROVE  \E i \in DOMAIN handled'[t] :
                 handled'[t][i].method = "initialize" /\ handled'[t][i].ok
    <3>1. CASE proc[t].seen
      BY <1>3, <3>1 DEF IInv, Handshaken, last
    <3>2. CASE t = s /\ f.method = "initialize" /\ f.ok
      BY <1>3, <3>2 DEF last
    <3> QED
      BY <1>4, <2>1, <3>1, <3>2
  <2>2. ASSUME NEW t \in Server, proc'[t].ready
        PROVE  \E i, j \in DOMAIN handled'[t] :
                 /\ i < j
                 /\ handled'[t][i].method = "initialize" /\ handled'[t][i].ok
                 /\ handled'[t][j].method = "notifications/initialized"
    <3>1. CASE proc[t].ready
      BY <1>3, <3>1 DEF IInv, Handshaken, last
    <3>2. CASE t = s /\ f.method = "notifications/initialized" /\ proc[s].seen
      <4>1. PICK i \in DOMAIN handled[s] :
              handled[s][i].method = "initialize" /\ handled[s][i].ok
        BY <3>2 DEF IInv, Handshaken
      <4>2. i < last /\ last \in DOMAIN handled'[s] /\ i \in DOMAIN handled'[s]
        BY <1>3 DEF last
      <4> QED
        BY <1>3, <3>2, <4>1, <4>2
    <3> QED
      BY <1>4, <2>2, <3>1, <3>2
  <2> QED
    BY <2>1, <2>2 DEF Handshaken
<1>12. HandshakeFirst'
  <2> SUFFICES ASSUME NEW t \in Server, NEW k \in DOMAIN handled'[t],
                      kind'[t] = "mcp", handled'[t][k].n \in Changed'
               PROVE  \E i, j \in 1..(k - 1) :
                        /\ i < j
                        /\ handled'[t][i].method = "initialize" /\ handled'[t][i].ok
                        /\ handled'[t][j].method = "notifications/initialized"
    BY DEF HandshakeFirst, Changed
  <2>0. kind[t] = "mcp"
    BY DEF Handled, Took
  <2>1. CASE k \in DOMAIN handled[t] /\ handled'[t][k] = handled[t][k]
    <3>1. handled[t][k].n \in Changed
      BY <1>5, <1>7, <2>1
    <3>2. PICK i, j \in 1..(k - 1) :
            /\ i < j
            /\ handled[t][i].method = "initialize" /\ handled[t][i].ok
            /\ handled[t][j].method = "notifications/initialized"
      BY <2>0, <2>1, <3>1 DEF IInv, HandshakeFirst, Changed
    <3>3. k \in 1..Len(handled[t]) /\ Len(handled[t]) \in Nat
          /\ DOMAIN handled[t] = 1..Len(handled[t])
      BY <2>1 DEF IInv, TypeOK
    <3>4. i \in DOMAIN handled[t] /\ j \in DOMAIN handled[t]
      BY <3>3
    <3>5. handled'[t][i] = handled[t][i] /\ handled'[t][j] = handled[t][j]
      BY <1>3, <3>4
    <3> QED
      BY <3>2, <3>5
  <2>2. CASE t = s /\ k = last /\ handled'[t][k] = f
    <3>1. f.n \notin Changed
      BY <1>0 DEF IInv, Numbered, f
    <3>2. proc[s].ready
      BY <2>0, <2>2, <3>1 DEF Handled, effects, Changed
    <3>3. PICK i, j \in DOMAIN handled[s] :
            /\ i < j
            /\ handled[s][i].method = "initialize" /\ handled[s][i].ok
            /\ handled[s][j].method = "notifications/initialized"
      BY <3>2 DEF IInv, Handshaken
    <3>4. i \in 1..(last - 1) /\ j \in 1..(last - 1)
      BY <1>3 DEF last
    <3> QED
      BY <1>3, <2>2, <3>3, <3>4
  <2> QED
    BY <1>6, <2>1, <2>2
<1> QED
  BY <1>2, <1>10, <1>11, <1>12 DEF IInv

\* The pending answer is written.
LEMMA DeliverKeeps ==
    ASSUME IInv, TypeOK', NEW s \in Server, Deliver(s), UNCHANGED kind
    PROVE  IInv'
<1> DEFINE a == answer[s]
           last == Len(got[s]) + 1
<1>1. /\ got[s] \in Seq(Answer) /\ a \in Answer /\ Len(got[s]) \in Nat
      /\ DOMAIN got[s] = 1..Len(got[s]) /\ DOMAIN got'[s] = 1..last
      /\ got'[s][last] = a /\ answer'[s] = NoAnswer /\ a # NoAnswer
      /\ \A k \in DOMAIN got[s] : got'[s][k] = got[s][k]
      /\ \A t \in Server \ {s} : got'[t] = got[t] /\ answer'[t] = answer[t]
  BY DEF Deliver, IInv, TypeOK
<1> HIDE DEF a
<1>2. Answers(s)' = Answers(s)
  <2>1. {got'[s][k] : k \in DOMAIN got'[s]} = {got[s][k] : k \in DOMAIN got[s]} \cup {a}
    <3> HIDE DEF last
    <3>1. DOMAIN got'[s] = DOMAIN got[s] \cup {last}
      BY <1>1 DEF last
    <3>2. got'[s][last] = a /\ \A k \in DOMAIN got[s] : got'[s][k] = got[s][k]
      BY <1>1
    <3> QED
      BY <3>1, <3>2
  <2> QED
    BY <1>1, <2>1 DEF Answers, a
<1>3. \A t \in Server : Answers(t)' = Answers(t) /\ Spent(t)' = Spent(t)
  BY <1>1, <1>2 DEF Answers, Spent, Deliver
<1>4. Numbered'
  <2>1. \A t \in Server : Unread(t)' = Unread(t)
    BY DEF Unread, Deliver
  <2> QED
    BY <1>3, <2>1 DEF IInv, Numbered, Deliver, Changed, effects
<1>5. Ordered'
  BY <1>1, <1>3 DEF IInv, Ordered, Deliver
<1>6. Handshaken' /\ HandshakeFirst'
  BY DEF IInv, Handshaken, HandshakeFirst, Deliver, effects
<1>7. AnswersTellTheTruth'
  BY <1>3 DEF IInv, AnswersTellTheTruth, Calls, Deliver, ends, effects
<1>8. AnswersMatch'
  <2>1. ASSUME NEW t \in Server, NEW j \in DOMAIN got'[t], NEW k \in DOMAIN got'[t],
               j < k, got'[t][j].id # 0, got'[t][k].id # 0
        PROVE  got'[t][j].id < got'[t][k].id
    <3>1. CASE t # s \/ k # last
      <4>1. /\ j \in DOMAIN got[t] /\ got'[t][j] = got[t][j]
            /\ k \in DOMAIN got[t] /\ got'[t][k] = got[t][k]
        BY <1>1, <2>1, <3>1
      <4> QED
        BY <2>1, <4>1 DEF IInv, AnswersMatch
    <3>2. CASE t = s /\ k = last
      <4>1. j \in DOMAIN got[s] /\ got'[s][j] = got[s][j] /\ got'[s][k] = a
        BY <1>1, <2>1, <3>2
      <4> QED
        BY <1>1, <2>1, <3>2, <4>1 DEF IInv, Ordered, a
    <3> QED
      BY <3>1, <3>2
  <2> QED
    BY <1>3, <2>1 DEF IInv, AnswersMatch
<1> QED
  BY <1>4, <1>5, <1>6, <1>7, <1>8 DEF IInv

LEMMA InitInv == Init => IInv
<1> SUFFICES ASSUME Init PROVE IInv
  OBVIOUS
<1>1. TypeOK
  BY InitType
<1>2. \A s \in Server : DOMAIN pipe[s] = {} /\ DOMAIN handled[s] = {} /\ DOMAIN got[s] = {}
  BY DEF Init
<1>3. \A s \in Server : Answers(s) = {} /\ Unread(s) = {} /\ Spent(s) = {}
  BY <1>2 DEF Init, Answers, Unread, Spent
<1>4. \A s \in Server : ~proc[s].seen /\ ~proc[s].ready
  BY DEF Init, Started
<1> QED
  BY <1>1, <1>2, <1>3, <1>4 DEF Init, IInv, Numbered, Changed, Ordered, Handshaken,
                            AnswersMatch, AnswersTellTheTruth, HandshakeFirst

LEMMA StepInv == IInv /\ [Next]_vars => IInv'
<1> SUFFICES ASSUME IInv, [Next]_vars PROVE IInv'
  OBVIOUS
<1>0. TypeOK'
  BY StepType DEF IInv
<1>1. ASSUME NEW s \in Server, Stop(s), UNCHANGED kind PROVE IInv'
  <2>1. \A t \in Server :
          /\ proc'[t].up => proc[t].up
          /\ answer'[t] = answer[t] \/ (answer'[t] = NoAnswer /\ ~proc'[t].up)
          /\ proc'[t].seen = proc[t].seen /\ proc'[t].ready = proc[t].ready
    BY <1>1 DEF Stop, IInv, TypeOK, Process
  <2> QED
    BY <1>0, <1>1, <2>1, QuietKeeps DEF Stop, ends
<1>2. ASSUME NEW s \in Server, LoseAnswer(s), UNCHANGED kind PROVE IInv'
  <2>1. CASE Stop(s)
    BY <1>1, <1>2, <2>1
  <2>2. CASE ~Stop(s)
    <3>1. \A t \in Server : answer'[t] = answer[t] \/ (answer'[t] = NoAnswer /\ gone'[t])
      BY <1>2, <2>2 DEF LoseAnswer, IInv, TypeOK, ends
    <3> QED
      BY <1>0, <1>2, <2>2, <3>1, QuietKeeps DEF LoseAnswer, ends
  <2> QED
    BY <2>1, <2>2
<1>3. ASSUME NEW s \in Server, SkipBlank(s), UNCHANGED kind PROVE IInv'
  <2>1. Took(s) /\ UNCHANGED <<exists, proc, effects, handled>>
        /\ answer' = [answer EXCEPT ![s] = NoAnswer]
    BY <1>3 DEF SkipBlank, Reading, Idle, Consume, Took, ends, IInv, TypeOK
  <2> QED
    BY <1>0, <2>1, LineKeeps
<1>4. ASSUME NEW s \in Server, Serve(s), UNCHANGED kind PROVE IInv'
  <2>1. ASSUME Rejected(s) PROVE IInv'
    <3>1. PICK a \in Answer :
            /\ a.id = 0 \/ a.id = Head(pipe[s]).id
            /\ a.code \in {"parse", "invalid_request"}
            /\ answer' = [answer EXCEPT ![s] = a]
      BY <2>1 DEF Rejected
    <3> QED
      BY <1>0, <2>1, <3>1, LineKeeps DEF Rejected
  <2>2. ASSUME NEW p \in Process, NEW code \in Code, Flags(s, p), Handled(s, p, code)
        PROVE  IInv'
    BY <1>0, <2>2, HandleKeeps
  <2>3. TypeOK
    BY DEF IInv
  <2> QED
    BY <1>0, <1>1, <1>2, <1>3, <1>4, <2>1, <2>2, <2>3, ServerSteps, DeliverKeeps
       DEF Overflow, Exit
<1>5. ASSUME NEW s \in Server, ClientStep(s), UNCHANGED kind PROVE IInv'
  <2>1. CASE CloseInput(s)
    BY <1>0, <1>5, <2>1, QuietKeeps DEF CloseInput
  <2>2. CASE CloseOutput(s)
    <3>1. \A t \in Server : gone[t] => gone'[t]
      BY <2>2 DEF CloseOutput, IInv, TypeOK
    <3> QED
      BY <1>0, <1>5, <2>2, <3>1, QuietKeeps DEF CloseOutput
  <2>3. CASE Start(s)
    <3>1. \A t \in Server :
            /\ pipe'[t] = pipe[t] \/ pipe'[t] = << >>
            /\ \/ handled'[t] = handled[t] /\ proc'[t] = proc[t] /\ gone'[t] = gone[t]
               \/ handled'[t] = << >> /\ ~proc'[t].seen /\ ~proc'[t].ready
      BY <2>3 DEF Start, Started, IInv, TypeOK
    <3> QED
      BY <1>0, <1>5, <2>3, <3>1, QuietKeeps DEF Start
  <2>4. CASE Kill(s)
    BY <1>1, <1>5, <2>4 DEF Kill
  <2>5. ASSUME NEW f \in Frame, f.n = sent + 1, OwnId(f), Send(s, f) PROVE IInv'
    BY <1>0, <1>5, <2>5, SendKeeps
  <2>6. TypeOK
    BY DEF IInv
  <2> QED
    BY <1>5, <2>1, <2>2, <2>3, <2>4, <2>5, <2>6, FramesSent
<1>6. CASE InitProject /\ UNCHANGED kind
  BY <1>0, <1>6, QuietKeeps DEF InitProject, ends
<1>7. CASE UNCHANGED vars
  BY <1>0, <1>7, QuietKeeps DEF vars, ends, effects
<1> QED
  BY <1>4, <1>5, <1>6, <1>7 DEF Next

LEMMA Invariance == Spec => []IInv
  BY InitInv, StepInv, PTL DEF Spec

-----------------------------------------------------------------------------
(* Theorems.                                                               *)

(***************************************************************************)
(* Servers, pipes and answers keep their types, through rejected lines,    *)
(* failed writes, closed pipes, kills and restarts.                        *)
(***************************************************************************)
THEOREM SessionTypeCorrect == Spec => []TypeOK
  BY Invariance, PTL DEF IInv

(***************************************************************************)
(* Answers come in the order of the requests, once each, and only for      *)
(* lines that want one: readRequests handles a frame before it reads on.   *)
(***************************************************************************)
THEOREM AnswersComeInOrder == Spec => []AnswersMatch
  BY Invariance, PTL DEF IInv

(***************************************************************************)
(* What dispatch answers is what it did: success stands for a whole        *)
(* operation, a refusal for at most half of one, and none that changed the *)
(* project stays unanswered on a server that runs and is read.             *)
(***************************************************************************)
THEOREM AnswersAreTrue == Spec => []AnswersTellTheTruth
  BY Invariance, PTL DEF IInv

(***************************************************************************)
(* The flags of mcpServer hold back every tool call until the handshake is *)
(* done with this process, restarts included.                              *)
(***************************************************************************)
THEOREM NoChangeBeforeHandshake == Spec => []HandshakeFirst
  BY Invariance, PTL DEF IInv
=============================================================================
