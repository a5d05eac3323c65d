----------------------------- MODULE McpServers -----------------------------
(***************************************************************************)
(* The connections to MCP servers: MCPManager of mcp/client.py and the     *)
(* requests of api/app.py that connect, disconnect and add a server.       *)
(* Servers share nothing but a lock that is never held across a wait, so   *)
(* there is one.  A connection is an exit stack with the process or the    *)
(* transport in it; it is open until somebody closes the stack.  The       *)
(* session, the stack and the tools of a server change together.           *)
(*                                                                         *)
(* The requests wait for the server at every step, and nothing keeps two   *)
(* of them apart.  What the server answers is external.                    *)
(***************************************************************************)
EXTENDS Naturals, FiniteSets

CONSTANTS
    Clients,     \* the requests that may be under way together
    MaxOps       \* bound: the requests

ASSUME McpAssumption == MaxOps \in Nat /\ "startup" \notin Clients

Callers == Clients \cup {"startup"}

VARIABLES
    config,      \* _configs; fallback: a remote server whose transport is not sse
    registered,     \* the connection in _sessions, _stacks and _tools_cache, or 0
    open,        \* the connections that are open
    status,      \* _statuses
    op,          \* what each request is doing
    ops,
    crossed,     \* history: two requests were under way together
    left         \* history: the connections nobody has any more, and what left them

mcp == <<config, registered, open, status, op, ops, crossed, left>>

Unknown == [known |-> FALSE, enabled |-> FALSE, fallback |-> FALSE]
Configs == [known : {TRUE}, enabled : BOOLEAN, fallback : BOOLEAN]

Resting == [pc |-> "idle", kind |-> "none", conn |-> 0, fallback |-> FALSE, again |-> FALSE]

Opening(kind, conf) ==
    [Resting EXCEPT !.pc = "opening", !.kind = kind, !.fallback = conf.fallback]

\* initialize: the enabled servers of the configuration are connected before
\* requests are served.  Of a disabled one the file says no more than that.
McpInit ==
    /\ config \in {conf \in Configs : conf.fallback => conf.enabled} \cup {Unknown}
    /\ registered = 0 /\ open = {}
    /\ status = IF config.enabled THEN "connecting" ELSE IF config.known THEN "disabled" ELSE "none"
    /\ op = [q \in Callers |-> IF q = "startup" /\ config.enabled THEN Opening("initialize", config)
                                                                  ELSE Resting]
    /\ ops = 0 /\ crossed = FALSE /\ left = {}

Others(q)    == \E r \in Callers \ {q} : op[r].pc # "idle"
Begins(q)    == /\ op[q].pc = "idle" /\ op["startup"].pc = "idle" /\ ops < MaxOps
                /\ ops' = ops + 1
Goes(q, new) == op' = [op EXCEPT ![q] = new]
Leaves(c, by) == left \cup {[conn |-> c, by |-> by]}
Lost         == {l.conn : l \in left}
Held         == {registered} \cup {op[q].conn : q \in Callers}

-----------------------------------------------------------------------------
(* Requests.                                                               *)

\* disconnect takes the connection from the tables first, and then closes it.
TakeDown(q, state) ==
    /\ registered' = 0
    /\ Goes(q, [state EXCEPT !.pc = "closing", !.conn = registered])
    /\ UNCHANGED status

\* connect, of a server that is connected or not; a disabled one too.
ConnectServer(q) ==
    /\ config.known
    /\ Begins(q)
    /\ \/ registered # 0 /\ TakeDown(q, Opening("connect", config))
       \/ registered = 0 /\ Goes(q, Opening("connect", config)) /\ status' = "connecting"
                      /\ UNCHANGED registered
    /\ crossed' = (crossed \/ Others(q))
    /\ UNCHANGED <<config, open, left>>

DisconnectServer(q) ==
    /\ registered # 0
    /\ Begins(q)
    /\ TakeDown(q, [Resting EXCEPT !.kind = "disconnect"])
    /\ crossed' = (crossed \/ Others(q))
    /\ UNCHANGED <<config, open, left>>

\* add_server replaces the configuration; a connection that is there stays.
AddServer(q, new) ==
    /\ Begins(q)
    /\ config' = new
    /\ Goes(q, IF new.enabled THEN Opening("add", new) ELSE Resting)
    /\ status' = IF new.enabled THEN "connecting" ELSE "disabled"
    /\ crossed' = (crossed \/ Others(q))
    /\ UNCHANGED <<registered, open, left>>

-----------------------------------------------------------------------------
(* What a request waits for.                                               *)

\* stack.aclose() of disconnect returned.
Closed(q) ==
    /\ op[q].pc = "closing"
    /\ open' = open \ {op[q].conn}
    /\ IF op[q].kind = "disconnect"
       THEN Goes(q, Resting) /\ status' = "disabled"
       ELSE Goes(q, [op[q] EXCEPT !.pc = "opening", !.conn = 0]) /\ status' = "connecting"
    /\ UNCHANGED <<config, registered, ops, crossed, left>>

\* The process or the transport is entered into a stack.
OpenTransport(q) ==
    /\ op[q].pc = "opening"
    /\ \E c \in 1 .. Cardinality(open) + 1 :
          /\ c \notin open
          /\ open' = open \cup {c}
          /\ Goes(q, [op[q] EXCEPT !.pc = "initializing", !.conn = c])
    /\ UNCHANGED <<config, registered, status, ops, crossed, left>>

Initialized(q) ==
    /\ op[q].pc = "initializing"
    /\ Goes(q, [op[q] EXCEPT !.pc = "listing"])
    /\ UNCHANGED <<config, registered, open, status, ops, crossed, left>>

\* The first transport, streamable-http, is closed, and sse is tried.
FallBack(q) ==
    /\ op[q].pc = "initializing" /\ op[q].fallback /\ ~op[q].again
    /\ open' = open \ {op[q].conn}
    /\ Goes(q, [op[q] EXCEPT !.pc = "opening", !.conn = 0, !.again = TRUE])
    /\ UNCHANGED <<config, registered, status, ops, crossed, left>>

\* Another failure leaves _connect_remote, or list_tools.  The stack that
\* _connect knows is the first one until _connect_remote has returned: that of
\* the second transport is closed by nobody.
ConnectFails(q) ==
    LET orphan == op[q].pc = "initializing" /\ op[q].again
    IN  /\ \/ op[q].pc = "listing"
           \/ op[q].pc = "initializing" /\ (~op[q].fallback \/ op[q].again)
        /\ Goes(q, [op[q] EXCEPT !.pc = "undoing", !.conn = IF orphan THEN 0 ELSE @])
        /\ left' = IF orphan THEN Leaves(op[q].conn, "transport") ELSE left
        /\ UNCHANGED <<config, registered, open, status, ops, crossed>>

\* A mutant: the stack of a connection that failed is not closed.
LeftOpen(q) == open

AfterUndo(q) == open \ {op[q].conn}

\* add_server leaves the status as it is.
Undone(q) ==
    /\ op[q].pc = "undoing"
    /\ open' = AfterUndo(q)
    /\ status' = IF op[q].kind = "add" THEN status ELSE "failed"
    /\ Goes(q, Resting)
    /\ UNCHANGED <<config, registered, ops, crossed, left>>

\* The tools are known: the tables take the connection, and what they held is
\* closed by nobody.
Register(q) ==
    /\ op[q].pc = "listing"
    /\ registered' = op[q].conn
    /\ status' = "connected"
    /\ Goes(q, Resting)
    /\ left' = IF registered = 0 THEN left ELSE Leaves(registered, op[q].kind)
    /\ UNCHANGED <<config, open, ops, crossed>>

McpStep(q) ==
    \/ Closed(q) \/ OpenTransport(q) \/ Initialized(q) \/ FallBack(q)
    \/ ConnectFails(q) \/ Undone(q) \/ Register(q)

McpNext ==
    \/ \E q \in Clients : ConnectServer(q) \/ DisconnectServer(q)
    \/ \E q \in Clients, new \in Configs : AddServer(q, new)
    \/ \E q \in Callers : McpStep(q)

-----------------------------------------------------------------------------
(* Properties.                                                             *)

\* However connects, disconnects, additions and failures of a server overlap, a
\* tool that is listed goes to a connection that is open, and a server that is
\* reported as connected has one unless it is being taken down.  And every open
\* connection can still be closed by somebody, but for three that the code leaves:
\* that of a second transport that fails, that of a server which is added again,
\* and, only after requests overlapped, one that a connect replaced.
ConnectionsAreKept ==
    /\ registered # 0 => registered \in open
    /\ status = "connected" =>
          registered # 0 \/ \E q \in Callers : op[q].pc = "closing"
    /\ open \subseteq Held \cup Lost
    /\ ~crossed => \A l \in left : l.by \in {"transport", "add"}
=============================================================================
