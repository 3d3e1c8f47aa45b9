------------------------------ MODULE Session ------------------------------
(***************************************************************************)
(* The stdio servers of `todo serve` (native JSON-RPC) and `todo mcp`.     *)
(* Each is a process that reads one frame a line, dispatches it and writes *)
(* at most one answer before it reads the next.  Clients may pipeline      *)
(* frames, close either end, or lose the process and start another.        *)
(*                                                                         *)
(* Handlers are reduced to three: ping, init, and `call`, any of those     *)
(* that need an initialized project.  What a call does to the store is the *)
(* business of Board; here it is applied, refused, or refused half-done.   *)
(* Frames are numbered as they are sent, and a request ID is the number of *)
(* its frame.                                                              *)
(***************************************************************************)
EXTENDS Integers, Sequences, FiniteSets

CONSTANTS
    Server,    \* server processes and their clients, one each
    Asked,     \* the methods that clients of each kind of server use
    Tool,      \* the tools that MCP clients call, by native operation
    Line,      \* the other lines that clients of each kind of server send
    MaxFrames, \* bound on the frames sent to each kind of server
    MaxPipe,   \* bound on the frames in a pipe
    NoAnswer   \* nothing to be written

\* What a line is found to be before it is dispatched.
Form == {"blank", "oversized", "invalid", "undecodable", "unversioned", "request"}

Method == {"ping", "todo.init", "call", "unknown",
           "initialize", "notifications/initialized", "tools/list", "tools/call"}

\* The native operations that are also tools, each of which decodes its
\* parameters.
Operation == {"ping", "todo.init", "call"}

\* `todo serve` and `todo mcp`
Kind == {"serve", "mcp"}

ASSUME SessionAssumption ==
    /\ MaxFrames \in [Kind -> Nat] /\ MaxPipe \in Nat
    /\ Asked \in [Kind -> SUBSET Method] /\ Tool \subseteq Method
    /\ Line \in [Kind -> SUBSET (Form \ {"request"})]

\* The number of a frame.
Number == UNION {1..MaxFrames[k] : k \in Kind}

\* tool is the native operation of a tools/call; ok says that the parameters
\* decode and are complete; id is 0 where the frame has none.
Frame == [n : Number, form : Form, id : {0} \cup Number,
          method : Method, tool : Method, ok : BOOLEAN]

Code == {"ok", "parse", "invalid_request", "invalid_params", "method_not_found",
         "not_initialized", "refused", "storage_error"}

Answer == [id : {0} \cup Number, code : Code]

ASSUME AnswerAssumption == NoAnswer \notin Answer

Process == [up          : BOOLEAN,
            initialized : BOOLEAN,  \* server.initialized: the project was seen
            seen        : BOOLEAN,  \* mcpServer.initializeSeen
            ready       : BOOLEAN]  \* mcpServer.initialized

VARIABLES
    kind,    \* how the host starts every server
    exists,  \* whether tasks.bin is there
    sent,    \* how many frames were sent
    proc,    \* the process of every server
    pipe,    \* the frames it has not read
    eof,     \* whether its input is closed
    gone,    \* whether nobody reads its output
    answer,  \* the answer it is about to write
    got,     \* the answers its client has read
    applied, \* the frames whose operation was committed whole
    partly,  \* the frames whose operation failed and was committed half-done
    handled  \* the frames the present process has dispatched

vars ==
    <<kind, exists, sent, proc, pipe, eof, gone, answer, got, applied, partly, handled>>

ends == <<eof, gone>>
effects == <<applied, partly>>

TypeOK ==
    /\ kind \in [Server -> Kind]
    /\ exists \in BOOLEAN
    /\ sent \in {0} \cup Number
    /\ proc \in [Server -> Process]
    /\ pipe \in [Server -> Seq(Frame)]
    /\ eof \in [Server -> BOOLEAN] /\ gone \in [Server -> BOOLEAN]
    /\ answer \in [Server -> Answer \cup {NoAnswer}]
    /\ got \in [Server -> Seq(Answer)]
    /\ applied \subseteq Number /\ partly \subseteq Number
    /\ handled \in [Server -> Seq(Frame)]

\* cmdServe and cmdMCP look for the store once, when they start.
Started == [up |-> TRUE, initialized |-> exists, seen |-> FALSE, ready |-> FALSE]

Init ==
    /\ kind \in [Server -> Kind]
    /\ exists \in BOOLEAN
    /\ sent = 0
    /\ proc = [s \in Server |-> Started]
    /\ pipe = [s \in Server |-> << >>]
    /\ eof = [s \in Server |-> FALSE]
    /\ gone = [s \in Server |-> FALSE]
    /\ answer = [s \in Server |-> NoAnswer]
    /\ got = [s \in Server |-> << >>]
    /\ applied = {} /\ partly = {}
    /\ handled = [s \in Server |-> << >>]

-----------------------------------------------------------------------------
(* Clients.                                                                *)

Request(method, tool, ok, identified) ==
    [n |-> sent + 1, form |-> "request", id |-> IF identified THEN sent + 1 ELSE 0,
     method |-> method, tool |-> tool, ok |-> ok]

Send(s, f) ==
    /\ sent < MaxFrames[kind[s]]
    /\ proc[s].up /\ ~eof[s] /\ Len(pipe[s]) < MaxPipe
    /\ sent' = sent + 1
    /\ pipe' = [pipe EXCEPT ![s] = Append(@, f)]
    /\ UNCHANGED <<exists, proc, ends, answer, got, effects, handled>>

\* Whether the handler looks at the parameters.
Decodes(s, method, tool) ==
    IF kind[s] = "serve" THEN method \in Operation
    ELSE method = "initialize" \/ (method = "tools/call" /\ tool \in Operation)

SendRequest(s, method, tool) ==
    \E ok, identified \in BOOLEAN :
        /\ ok \/ Decodes(s, method, tool)
        /\ Send(s, Request(method, tool, ok, identified))

\* A line that is not a request; one that lacks only the version has an ID.
SendOther(s, form) ==
    Send(s, [Request("ping", "ping", TRUE, form = "unversioned") EXCEPT !.form = form])

CloseInput(s) ==
    /\ proc[s].up /\ ~eof[s]
    /\ eof' = [eof EXCEPT ![s] = TRUE]
    /\ UNCHANGED <<exists, sent, proc, pipe, gone, answer, got, effects, handled>>

CloseOutput(s) ==
    /\ proc[s].up /\ ~gone[s]
    /\ gone' = [gone EXCEPT ![s] = TRUE]
    /\ UNCHANGED <<exists, sent, proc, pipe, eof, answer, got, effects, handled>>

\* The host starts the server again.
Start(s) ==
    /\ ~proc[s].up
    /\ proc' = [proc EXCEPT ![s] = Started]
    /\ pipe' = [pipe EXCEPT ![s] = << >>]
    /\ eof' = [eof EXCEPT ![s] = FALSE]
    /\ gone' = [gone EXCEPT ![s] = FALSE]
    /\ handled' = [handled EXCEPT ![s] = << >>]
    /\ UNCHANGED <<exists, sent, answer, got, effects>>

\* `todo init` in a terminal.
InitProject ==
    /\ ~exists
    /\ exists' = TRUE
    /\ UNCHANGED <<sent, proc, pipe, ends, answer, got, effects, handled>>

-----------------------------------------------------------------------------
(* readRequests.                                                           *)

\* Wrong: the loop stops at the end of the input with lines still buffered.
FaultyIdle(s) == proc[s].up /\ answer[s] = NoAnswer /\ ~eof[s]

Idle(s) == proc[s].up /\ answer[s] = NoAnswer

Reading(s) == Idle(s) /\ pipe[s] # << >>

\* Stop is the end of the process, for whatever reason.
Stop(s) ==
    /\ proc' = [proc EXCEPT ![s].up = FALSE]
    /\ answer' = [answer EXCEPT ![s] = NoAnswer]
    /\ UNCHANGED <<exists, sent, pipe, ends, got, effects, handled>>

Consume(s) == pipe' = [pipe EXCEPT ![s] = Tail(@)]

SkipBlank(s) ==
    /\ Reading(s) /\ Head(pipe[s]).form = "blank"
    /\ Consume(s)
    /\ UNCHANGED <<exists, sent, proc, ends, answer, got, effects, handled>>

\* A line over the limit ends the scan, and the process with status 1.
Overflow(s) == Reading(s) /\ Head(pipe[s]).form = "oversized" /\ Stop(s)

Reject(s, id, code) ==
    /\ answer' = [answer EXCEPT ![s] = [id |-> id, code |-> code]]
    /\ Consume(s)
    /\ UNCHANGED <<exists, sent, proc, ends, got, effects, handled>>

RejectFrame(s) ==
    /\ Reading(s)
    /\ LET f == Head(pipe[s]) IN
        \/ f.form = "invalid" /\ Reject(s, 0, "parse")
        \/ f.form = "undecodable" /\ Reject(s, 0, "invalid_request")
        \/ f.form = "unversioned" /\ Reject(s, f.id, "invalid_request")

\* Wrong: notifications are answered too.
FaultyAnswered(f, code) == [id |-> f.id, code |-> code]

\* A frame without an ID is not answered, whatever came of it.
Answered(f, code) == IF f.id = 0 THEN NoAnswer ELSE [id |-> f.id, code |-> code]

\* The frame f is dispatched, leaves the process p and is answered with code.
Dispatched(s, f, p, code) ==
    /\ proc' = [proc EXCEPT ![s] = p]
    /\ answer' = [answer EXCEPT ![s] = Answered(f, code)]
    /\ handled' = [handled EXCEPT ![s] = Append(@, f)]
    /\ Consume(s)
    /\ UNCHANGED <<sent, ends, got>>

EnsureInitialized(s) == proc[s].initialized

-----------------------------------------------------------------------------
(* server.dispatch: parameters first, then ensureInitialized.              *)

\* A dispatch that changes no project and no flag.
Plain(s, f, code) ==
    Dispatched(s, f, proc[s], code) /\ UNCHANGED <<exists, effects>>

\* Save may fail before or after the new store is in place.
HandleInit(s, f) ==
    \/ /\ Dispatched(s, f, [proc[s] EXCEPT !.initialized = TRUE], "ok")
       /\ exists' = TRUE
       /\ UNCHANGED effects
    \/ /\ ~exists
       /\ Dispatched(s, f, proc[s], "storage_error")
       /\ exists' \in BOOLEAN
       /\ UNCHANGED effects

\* store.Update ran the operation and wrote the store.
Commit(s, f, code) ==
    /\ Dispatched(s, f, proc[s], code)
    /\ applied' = applied \cup {f.n}
    /\ UNCHANGED <<exists, partly>>

\* The operation failed after a change of its own, and store.Update wrote the
\* store for the lease it had reclaimed first.
CommitPartly(s, f) ==
    /\ Dispatched(s, f, proc[s], "refused")
    /\ partly' = partly \cup {f.n}
    /\ UNCHANGED <<exists, applied>>

\* Wrong: the operation is checked after it was committed.
FaultyHandleCall(s, f) ==
    \/ ~EnsureInitialized(s) /\ Plain(s, f, "not_initialized")
    \/ EnsureInitialized(s) /\ exists /\ Commit(s, f, "refused")

\* An operation is refused, or committed; writing the store may fail before or
\* after the rename.  A refused one leaves no trace of its own, unless the store
\* was written in spite of it.
HandleCall(s, f) ==
    \/ ~EnsureInitialized(s) /\ Plain(s, f, "not_initialized")
    \/ /\ EnsureInitialized(s)
       /\ \/ Plain(s, f, "refused")
          \/ Plain(s, f, "storage_error")
          \/ exists /\ Commit(s, f, "ok")
          \/ exists /\ Commit(s, f, "storage_error")
          \/ exists /\ CommitPartly(s, f)

Native(s, f, method) ==
    \/ method \notin Operation /\ Plain(s, f, "method_not_found")
    \/ /\ method \in Operation
       /\ \/ ~f.ok /\ Plain(s, f, "invalid_params")
          \/ f.ok /\ method = "ping" /\ Plain(s, f, "ok")
          \/ f.ok /\ method = "todo.init" /\ HandleInit(s, f)
          \/ f.ok /\ method = "call" /\ HandleCall(s, f)

ServeNative(s) ==
    /\ kind[s] = "serve" /\ Reading(s) /\ Head(pipe[s]).form = "request"
    /\ Native(s, Head(pipe[s]), Head(pipe[s]).method)

-----------------------------------------------------------------------------
(* mcpServer.dispatch.                                                     *)

\* Wrong: initialized is accepted before initialize.
FaultyInitializeSeen(s) == TRUE

InitializeSeen(s) == proc[s].seen

Initialize(s, f) ==
    \/ f.ok /\ Dispatched(s, f, [proc[s] EXCEPT !.seen = TRUE], "ok")
            /\ UNCHANGED <<exists, effects>>
    \/ ~f.ok /\ Plain(s, f, "invalid_params")

Initialized(s, f) ==
    \/ ~InitializeSeen(s) /\ Plain(s, f, "not_initialized")
    \/ InitializeSeen(s) /\ Dispatched(s, f, [proc[s] EXCEPT !.ready = TRUE], "ok")
                         /\ UNCHANGED <<exists, effects>>

ListTools(s, f) == Plain(s, f, IF proc[s].ready THEN "ok" ELSE "not_initialized")

\* callTool maps a tool to a native operation and dispatches it; an error of
\* the operation is a tool result.  Only curated operations are tools.
CallTool(s, f) ==
    \/ ~proc[s].ready /\ Plain(s, f, "not_initialized")
    \/ /\ proc[s].ready
       /\ IF f.tool \in Operation THEN Native(s, f, f.tool)
          ELSE Plain(s, f, "invalid_params")

ServeMcp(s) ==
    /\ kind[s] = "mcp" /\ Reading(s) /\ Head(pipe[s]).form = "request"
    /\ LET f == Head(pipe[s]) IN
        \/ f.method = "initialize" /\ Initialize(s, f)
        \/ f.method = "notifications/initialized" /\ Initialized(s, f)
        \/ f.method = "ping" /\ Plain(s, f, "ok")
        \/ f.method = "tools/list" /\ ListTools(s, f)
        \/ f.method = "tools/call" /\ CallTool(s, f)
        \/ f.method \in {"todo.init", "call", "unknown"} /\ Plain(s, f, "method_not_found")

-----------------------------------------------------------------------------
(* writeResult and writeError.                                             *)

Deliver(s) ==
    /\ proc[s].up /\ answer[s] # NoAnswer /\ ~gone[s]
    /\ got' = [got EXCEPT ![s] = Append(@, answer[s])]
    /\ answer' = [answer EXCEPT ![s] = NoAnswer]
    /\ UNCHANGED <<exists, sent, proc, pipe, ends, effects, handled>>

\* Nobody reads: the error is logged and the loop goes on, or the write to the
\* broken pipe ends the process.
LoseAnswer(s) ==
    /\ proc[s].up /\ answer[s] # NoAnswer /\ gone[s]
    /\ \/ /\ answer' = [answer EXCEPT ![s] = NoAnswer]
          /\ UNCHANGED <<exists, sent, proc, pipe, ends, got, effects, handled>>
       \/ Stop(s)

\* The input is closed and read to its end.
Exit(s) == Idle(s) /\ eof[s] /\ pipe[s] = << >> /\ Stop(s)

Kill(s) == proc[s].up /\ Stop(s)

Serve(s) ==
    \/ SkipBlank(s) \/ Overflow(s) \/ RejectFrame(s)
    \/ ServeNative(s) \/ ServeMcp(s)
    \/ Deliver(s) \/ LoseAnswer(s) \/ Exit(s)

ClientStep(s) ==
    \/ \E method \in Asked[kind[s]] : SendRequest(s, method, "ping")
    \/ kind[s] = "mcp" /\ \E tool \in Tool : SendRequest(s, "tools/call", tool)
    \/ \E form \in Line[kind[s]] : SendOther(s, form)
    \/ CloseInput(s) \/ CloseOutput(s) \/ Start(s) \/ Kill(s)

Next ==
    /\ (\E s \in Server : Serve(s) \/ ClientStep(s)) \/ InitProject
    /\ UNCHANGED kind

\* A running server goes on serving; clients may stop at any time.
Spec == Init /\ [][Next]_vars /\ \A s \in Server : WF_vars(Serve(s) /\ UNCHANGED kind)

-----------------------------------------------------------------------------
(* Properties.                                                             *)

Answers(s) == {got[s][k] : k \in DOMAIN got[s]} \cup ({answer[s]} \ {NoAnswer})

(***************************************************************************)
(* A client that pipelines requests can match the answers: they come in    *)
(* the order of the requests and at most once each, and an answer without  *)
(* an ID only ever rejects a line that was not a request.  Notifications   *)
(* get none.                                                               *)
(***************************************************************************)
AnswersMatch ==
    \A s \in Server :
        /\ \A j, k \in DOMAIN got[s] :
             j < k /\ got[s][j].id # 0 /\ got[s][k].id # 0 => got[s][j].id < got[s][k].id
        /\ \A a \in Answers(s) : a.id = 0 => a.code \in {"parse", "invalid_request"}

\* A frame that wants an operation on the project.
Calls(s, f) ==
    IF kind[s] = "serve" THEN f.method = "call"
    ELSE f.method = "tools/call" /\ f.tool = "call"

(***************************************************************************)
(* The answer says what was done, across errors, restarts and lost         *)
(* answers: success means that the whole operation is committed, one that  *)
(* is committed whole is answered with success or a storage error, and a   *)
(* refusal leaves at most half of it.  Whatever took effect is answered,   *)
(* or about to be, on a server that still runs and is still read.          *)
(***************************************************************************)
AnswersTellTheTruth ==
    \A s \in Server :
        /\ \A a \in Answers(s) :
             /\ a.id \in applied => a.code \in {"ok", "storage_error"}
             /\ a.id \in partly => a.code = "refused"
        /\ \A k \in DOMAIN handled[s] :
             LET f == handled[s][k] IN
             /\ Calls(s, f) /\ [id |-> f.n, code |-> "ok"] \in Answers(s) => f.n \in applied
             /\ f.n \in applied \cup partly /\ f.id # 0 /\ proc[s].up /\ ~gone[s]
                    => f.id \in {a.id : a \in Answers(s)}

(***************************************************************************)
(* No MCP client changes the project, by half an operation either, before  *)
(* it has sent initialize and then notifications/initialized to the        *)
(* process that serves it now.                                             *)
(***************************************************************************)
HandshakeFirst ==
    \A s \in Server : \A k \in DOMAIN handled[s] :
        kind[s] = "mcp" /\ handled[s][k].n \in applied \cup partly =>
            \E i, j \in 1..(k - 1) :
                /\ i < j
                /\ handled[s][i].method = "initialize" /\ handled[s][i].ok
                /\ handled[s][j].method = "notifications/initialized"

(***************************************************************************)
(* Every request with an ID is answered in the end, unless its process     *)
(* ended or its client stopped reading.                                    *)
(***************************************************************************)
Waiting(s, n) == \E k \in DOMAIN pipe[s] : pipe[s][k].id = n

RequestsAreAnswered ==
    \A s \in Server, n \in Number :
        Waiting(s, n) ~> (n \in {a.id : a \in Answers(s)} \/ ~proc[s].up \/ gone[s])
=============================================================================
