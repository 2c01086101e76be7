------------------------------ MODULE WebServer ------------------------------
(***************************************************************************)
(* src/src/webServer.cpp and src/src/NodeRequestHandler.cpp: from an HTTP  *)
(* request to SendCmd and the answer.                                      *)
(*                                                                         *)
(* libmicrohttpd (external) calls HandleRequest several times for one      *)
(* request, and RequestCompleted once, all from one thread of its own,     *)
(* which is this handler's thread too: while a command is being given,     *)
(* every other connection waits.                                           *)
(***************************************************************************)
EXTENDS NodesManager

CONSTANTS
    Conns,       \* the connections; each carries one request
    Requests     \* what a client can ask: the names in the URL, its slashes, the
                 \* parameters it has, and their numbers

Commands == {"on", "off", "link", "reset"}

\* Each name of a URL comes after a slash.
ASSUME RequestsAssumption == \A r \in Requests :
    r.slashes \in Nat /\ Len(r.path) <= r.slashes /\ r.to \in Int /\ r.nid \in Int

VARIABLES
    up,          \* the daemon was started
    conn,        \* the connections, with their HTTPRequest
    web,         \* what the thread is doing, and for whom
    oks          \* history: the connections answered "ok", in order

webVars == <<up, conn, web, oks>>

WebInit ==
    /\ up = FALSE
    /\ conn = [c \in Conns |-> [at |-> "none", inFlight |-> FALSE, answer |-> "none"]]
    /\ web = [at |-> "wait", conn |-> 0]
    /\ oks = <<>>

\* The thread goes on with c, or waits for the next call of libmicrohttpd.
Doing(at, c) == web' = [at |-> at, conn |-> c]
Waits == web.at = "wait"

Answer(c, a) == conn' = [conn EXCEPT ![c].answer = a]

\* A client sends a request.
Asks(c) ==
    /\ up /\ conn[c].at = "none"
    /\ \E r \in Requests :
         conn' = [conn EXCEPT ![c] = [at |-> "asked", inFlight |-> FALSE, answer |-> "none",
                                      request |-> r, body |-> r.method = "POST"]]
    /\ UNCHANGED <<up, web, oks>>

\* The first call makes the HTTPRequest; for the body of a POST it needs a post
\* processor, and without one the connection is closed.
FirstCall(c) ==
    /\ Waits /\ conn[c].at = "asked"
    /\ \/ conn' = [conn EXCEPT ![c].at = "begun"]
       \/ /\ conn[c].request.method = "POST"
          /\ conn' = [conn EXCEPT ![c].at = "done", ![c].answer = "closed"]
    /\ UNCHANGED <<up, web, oks>>

\* Mutant: upload_data_size is not set to 0, the body comes again and again.
ProcessPostDataNot(c) ==
    /\ Waits /\ conn[c].at = "begun" /\ ~conn[c].inFlight
    /\ conn[c].request.method = "POST" /\ conn[c].body
    /\ UNCHANGED webVars

\* The body's form data is kept in the request, where no handler looks for it.
ProcessPostData(c) ==
    /\ Waits /\ conn[c].at = "begun" /\ ~conn[c].inFlight
    /\ conn[c].request.method = "POST" /\ conn[c].body
    /\ conn' = [conn EXCEPT ![c].body = FALSE]
    /\ UNCHANGED <<up, web, oks>>

\* A URL of several slashes is split into its names.
Split(r) == r.slashes > 1

\* It can have no name: strtok gives NULL.
Nameless(r) == Split(r) /\ r.path = <<>>
ForNode(r) == r.path # <<>> /\ Head(r.path) = "node"

\* Nothing of the request is still to come.
Whole(c) ==
    \/ conn[c].request.method = "GET"
    \/ conn[c].request.method = "POST" /\ ~conn[c].body

\* Mutant: SetInFlight is forgotten.
DispatchesUnmarked(c) ==
    /\ Whole(c)
    /\ \/ ForNode(conn[c].request) /\ Doing("run", c) /\ UNCHANGED conn
       \/ /\ ~ForNode(conn[c].request) /\ ~Nameless(conn[c].request)
          /\ Answer(c, "404") /\ UNCHANGED web
    /\ UNCHANGED <<up, oks>>

\* The handler is found by the first name of the URL.
Dispatches(c) ==
    /\ Whole(c)
    /\ \/ /\ ForNode(conn[c].request)
          /\ conn' = [conn EXCEPT ![c].inFlight = TRUE] /\ Doing("run", c)
       \/ /\ ~ForNode(conn[c].request) /\ ~Nameless(conn[c].request)
          /\ conn' = [conn EXCEPT ![c].inFlight = TRUE, ![c].answer = "404"]
          /\ UNCHANGED web
    /\ UNCHANGED <<up, oks>>

\* Mutant: a call that comes before the answer has gone dispatches once more.
DispatchAgain(c) ==
    /\ Waits /\ conn[c].at = "begun" /\ (conn[c].inFlight => Len(oks) = 1)
    /\ Dispatches(c)

\* Once only: libmicrohttpd may call again while the answer is on its way.
Dispatch(c) ==
    /\ Waits /\ conn[c].at = "begun" /\ ~conn[c].inFlight
    /\ Dispatches(c)

\* The string before NULL is read.
DispatchDies(c) ==
    /\ Waits /\ conn[c].at = "begun" /\ ~conn[c].inFlight
    /\ Whole(c) /\ Nameless(conn[c].request)
    /\ conn' = [conn EXCEPT ![c].inFlight = TRUE] /\ Doing("dispatch", c)
    /\ main' = "dead"
    /\ UNCHANGED <<up, oks>>

\* Neither GET nor POST: the connection is closed.
Refuse(c) ==
    /\ Waits /\ conn[c].at = "begun" /\ ~conn[c].inFlight
    /\ conn[c].request.method \notin {"GET", "POST"} /\ conn[c].answer = "none"
    /\ Answer(c, "closed")
    /\ UNCHANGED <<up, web, oks>>

\* RequestCompleted, when the answer is sent.
RequestCompleted(c) ==
    /\ Waits /\ conn[c].at = "begun" /\ conn[c].answer # "none"
    /\ conn' = [conn EXCEPT ![c].at = "done"]
    /\ UNCHANGED <<up, web, oks>>

\* RequestCompleted, when the client has gone before that.
ClientGone(c) ==
    /\ Waits /\ conn[c].at = "begun" /\ conn[c].answer = "none"
    /\ conn' = [conn EXCEPT ![c].at = "done", ![c].answer = "closed"]
    /\ UNCHANGED <<up, web, oks>>

\* What libmicrohttpd does with a connection by itself.
Calls(c) ==
    FirstCall(c) \/ ProcessPostData(c) \/ Dispatch(c) \/ Refuse(c) \/ RequestCompleted(c)

Http(c) == Asks(c) \/ Calls(c) \/ ClientGone(c)

-----------------------------------------------------------------------------
(* NodeRequestHandler::Run, for the request of web.conn.                   *)

Request == conn[web.conn].request

\* The second name of the URL, when it is split; NULL if it has none.
NoAction(r) == Split(r) /\ Len(r.path) = 1
ActionOf(r) == IF Split(r) THEN r.path[2] ELSE r.path[1]

\* A string is made of NULL.
ActionDies ==
    /\ web.at = "run" /\ NoAction(Request)
    /\ main' = "dead"
    /\ UNCHANGED webVars

Needed(r) ==
    {"target", "sender"} \cup (IF ActionOf(r) \in {"on", "off"} THEN {"nid"} ELSE {})

\* What the parameters say, a byte of each; link and reset have the target for their
\* parameter.
FrameOf(r, c) ==
    [to |-> r.to % 256, cmd |-> ActionOf(r), by |-> c,
     param |-> (IF ActionOf(r) \in {"on", "off"} THEN r.nid ELSE r.to) % 256]

\* Not a command: "node information" and no more.
Information ==
    /\ web.at = "run" /\ ~NoAction(Request) /\ ActionOf(Request) \notin Commands
    /\ Answer(web.conn, "info") /\ Doing("wait", 0)
    /\ UNCHANGED <<up, oks>>

\* Parameters are those of the URL only.
Missing ==
    /\ web.at = "run" /\ ~NoAction(Request) /\ ActionOf(Request) \in Commands
    /\ ~(Needed(Request) \subseteq Request.args)
    /\ Answer(web.conn, "ko") /\ Doing("wait", 0)
    /\ UNCHANGED <<up, oks>>

\* NodeGeneric2 and 3 say so in the log before they call SendCmd.
Generic ==
    /\ web.at = "run" /\ ~NoAction(Request) /\ ActionOf(Request) \in Commands
    /\ Needed(Request) \subseteq Request.args
    /\ Doing("generic", web.conn)
    /\ UNCHANGED <<up, conn, oks>>

\* Back from SendCmd and half a second later; whatever SendCmd met, the answer is ok.
Reply ==
    /\ web.at = "sending" /\ command = NoCommand
    /\ Answer(web.conn, "ok") /\ Doing("wait", 0)
    /\ oks' = Append(oks, web.conn)
    /\ UNCHANGED up
=============================================================================
