----------------------------- MODULE MCSession -----------------------------
(***************************************************************************)
(* One server for TLC, native or MCP.                                      *)
(***************************************************************************)
EXTENDS Session

CONSTANTS server

OneServer == {server}

ByKind(serve, mcp) == [k \in Kind |-> IF k = "mcp" THEN mcp ELSE serve]

Methods ==
    ByKind({"ping", "todo.init", "call", "unknown"},
           {"ping", "initialize", "notifications/initialized", "tools/list", "unknown"})

\* The frames of both kinds are read by one loop.
Lines == ByKind(Form \ {"request"}, {})

\* A tool call needs two frames before it.
Frames == ByKind(2, 3)
=============================================================================
