------------------------------- MODULE Master --------------------------------
(***************************************************************************)
(* The process: the start-up of src/src/master.cpp in the main thread, the *)
(* web server and the log destination with their threads.                  *)
(***************************************************************************)
EXTENDS WebServer

\* The three threads that log, and everything they say.
ASSUME LogAssumption ==
    /\ {"main", "web", "ihm"} \subseteq Threads
    /\ {"searching", "start", "server", "post"} \X {0} \subseteq Texts
    /\ {"settings", "plugin"} \X (1..(Len(Entries) + 1)) \subseteq Texts
    /\ {"node"} \X NodeIds \cup {"generic", "unknown"} \X Conns \subseteq Texts

VARIABLES
    started,     \* the protocols whose Start was called, in order
    ready        \* the features whose Init was called, in order

begunVars == <<started, ready>>

vars == <<restVars, kernelVars, managerVars, webVars, started, ready>>

Init ==
    /\ RestLogInit /\ KernelInit /\ ManagerInit /\ WebInit
    /\ started = <<>> /\ ready = <<>>

-----------------------------------------------------------------------------
(* main, and Master's constructor.                                         *)

\* The command line and the settings file can be read, or the process ends.
Parse ==
    /\ main = "parse" /\ main' \in {"stderr", "dead"}
    /\ UNCHANGED restVars

StderrLevel == Goes("stderr", <<"logger.stderr.level", 0>>, "rest") /\ UNCHANGED restVars

InitRestLog ==
    /\ main = "rest"
    /\ IF Present(<<"ihm", 0>>) /\ Present(<<"logger.rest.level", 0>>)
         THEN Connect /\ main' = "plugins"
         ELSE main' = "dead" /\ UNCHANGED restVars

InitPlugins ==
    /\ Goes("plugins", <<"plugins.dir", 0>>, "list")
    /\ IF Present(<<"plugins.dir", 0>>) THEN Log("main", INFO, <<"searching", 0>>)
       ELSE UNCHANGED restVars

\* Each protocol is set up from its own settings and its thread started.
InitProtocol ==
    /\ main = "protocols" /\ Len(started) < Len(protocols)
    /\ LET p == protocols[Len(started) + 1] IN
         IF Present(<<"protocol", p>>)
           THEN started' = Append(started, p) /\ UNCHANGED main
           ELSE main' = "dead" /\ UNCHANGED started
    /\ UNCHANGED restVars

ProtocolsDone ==
    /\ main = "protocols" /\ Len(started) = Len(protocols)
    /\ main' = "features"
    /\ UNCHANGED <<restVars, started>>

InitProtocols == (InitProtocol \/ ProtocolsDone) /\ UNCHANGED ready

\* Each feature reads its own settings, after all protocols run.
InitFeature ==
    /\ main = "features" /\ Len(ready) < Len(features)
    /\ LET f == features[Len(ready) + 1] IN
         IF Present(<<"feature", f>>)
           THEN ready' = Append(ready, f) /\ UNCHANGED main
           ELSE main' = "dead" /\ UNCHANGED ready
    /\ UNCHANGED restVars

FeaturesDone ==
    /\ main = "features" /\ Len(ready) = Len(features)
    /\ main' = "number"
    /\ UNCHANGED <<restVars, ready>>

InitFeatures == (InitFeature \/ FeaturesDone) /\ UNCHANGED started

Port ==
    /\ Goes("port", <<"port", 0>>, "server")
    /\ Log("main", DEBUG, <<"start", 0>>)

\* RegisterHandler and HTTPServer::Init; a port that is taken leaves no daemon.
StartServer ==
    /\ main = "server" /\ Returned("main") /\ main' = "run"
    /\ up' \in BOOLEAN
    /\ UNCHANGED <<conn, web, oks, restVars>>

\* HTTPServer::Run only says whether there is one.
RunServer ==
    /\ main = "run" /\ main' = "start"
    /\ Log("main", IF up THEN INFO ELSE FATAL, <<"server", 0>>)

\* Features and IHM thread are started; the main thread then sleeps for ever.
Start ==
    /\ main = "start" /\ Returned("main") /\ main' = "sleeps"
    /\ UNCHANGED restVars

SetUp ==
    \/ /\ Parse \/ StderrLevel \/ InitRestLog \/ InitPlugins \/ Port \/ RunServer \/ Start
       /\ UNCHANGED <<absent, listed, nodes, protocols, features, managerVars, webVars, begunVars>>
    \/ LoadPlugins /\ UNCHANGED <<restVars, managerVars, webVars, begunVars>>
    \/ /\ InitProtocols \/ InitFeatures
       /\ UNCHANGED <<absent, listed, nodes, protocols, features, managerVars, webVars>>
    \/ ManagerSetUp /\ UNCHANGED <<webVars, begunVars>>
    \/ /\ StartServer
       /\ UNCHANGED <<absent, listed, nodes, protocols, features, managerVars, begunVars>>

-----------------------------------------------------------------------------
(* The other threads.                                                      *)

\* NodeGeneric's line, and then SendCmd.
GenericLogs ==
    /\ web.at = "generic"
    /\ Log("web", DEBUG, <<"generic", web.conn>>)
    /\ Doing("sendCmd", web.conn)
    /\ UNCHANGED <<up, conn, oks, kernelVars, managerVars>>

CallSendCmd ==
    /\ web.at = "sendCmd" /\ Returned("web")
    /\ SendCmd(Request.to, FrameOf(Request, web.conn))
    /\ Doing("sending", web.conn)
    /\ UNCHANGED <<up, conn, oks, kernelVars>>

\* The process dies of a request: what it is made of is read through a pointer to nowhere.
RequestDies ==
    \/ web.at = "sendCmd" /\ Returned("web") /\ GetNodeDies(Request.to) /\ UNCHANGED webVars
    \/ HandOnNowhere /\ UNCHANGED webVars
    \/ ActionDies /\ UNCHANGED managerVars
    \/ \E c \in Conns : DispatchDies(c) /\ UNCHANGED managerVars

Handler ==
    \/ GenericLogs \/ CallSendCmd
    \/ /\ Information \/ Missing \/ Generic \/ Reply
       /\ UNCHANGED <<restVars, kernelVars, managerVars>>
    \/ HandOn /\ UNCHANGED <<restVars, webVars, absent, listed, nodes, protocols, features>>
    \/ RequestDies /\ UNCHANGED <<restVars, absent, listed, nodes, protocols, features>>

OnlyWeb(action) == action /\ UNCHANGED <<restVars, kernelVars, managerVars, begunVars>>

WebThread ==
    \/ Handler /\ UNCHANGED begunVars
    \/ \E c \in Conns : OnlyWeb(Http(c))

\* The IHM thread logs a post that failed.
IhmWarns ==
    /\ main = "sleeps" /\ \A k \in DOMAIN written : written[k][1] # WARN
    /\ Log("ihm", WARN, <<"post", 0>>)
    /\ UNCHANGED <<kernelVars, managerVars, webVars, begunVars>>

LogThread ==
    /\ RestLogStep
    /\ UNCHANGED <<kernelVars, managerVars, webVars, begunVars>>

Alive == main # "dead"

Next == Alive /\ (SetUp \/ WebThread \/ IhmWarns \/ LogThread)

Spec == Init /\ [][Next]_vars

\* Every thread goes on.  A post of the log or of the IHM thread returns; clients ask
\* and leave as they like.
Fairness ==
    /\ WF_vars(Alive /\ SetUp)
    /\ WF_vars(Alive /\ \/ Handler /\ UNCHANGED begunVars
                        \/ \E c \in Conns : OnlyWeb(Calls(c)))
    /\ WF_vars(Alive /\ LogThread /\ Run)
    /\ WF_vars(Alive /\ LogThread /\ \E t \in Threads : Write(t))

FairSpec == Spec /\ Fairness

-----------------------------------------------------------------------------
(* Properties.                                                             *)

TypeOK ==
    /\ RestLogTypeOK /\ KernelTypeOK
    /\ table \in [NodeIds -> {NoPlugin} \cup Range(nodes)]
    /\ entry \in 1..(Len(Entries) + 1)
    /\ \A k \in DOMAIN handed :
         handed[k][2].to \in 0..255 /\ handed[k][2].cmd \in Commands
    /\ command # NoCommand => web.at = "sending"
    /\ web.at # "wait" => conn[web.conn].at = "begun" /\ conn[web.conn].inFlight
    /\ IsPrefix(started, protocols) /\ IsPrefix(ready, features)

\* The connections whose commands protocol p was given, in order.
GivenTo(p) ==
    LET given[k \in 0..Len(handed)] ==
            IF k = 0 THEN <<>>
            ELSE IF handed[k][1] = p THEN Append(given[k - 1], handed[k][2].by)
            ELSE given[k - 1]
    IN  given[Len(handed)]

\* Every protocol is given the commands that were answered "ok", each once and in
\* the order of the answers, and besides them only the command that is being given.
OneCommandPerAnswer ==
    \A p \in Range(protocols) :
        handed # <<>> =>
            /\ IsPrefix(oks, GivenTo(p)) /\ Len(GivenTo(p)) <= Len(oks) + 1
            /\ web.at # "sending" => GivenTo(p) = oks
            /\ IsInjective(GivenTo(p))

\* The requests no code is there for: two slashes and no name, /node/ and no action, and
\* a target the table has no place for.
Unforeseen(r) == Nameless(r) \/ (ForNode(r) /\ NoAction(r)) \/ r.to \notin NodeIds

\* A command reaches the protocols only once all of them run, the features are set up
\* and the table of the nodes is done, and a process that serves requests dies only of
\* the request in its hands: one of those no code is there for, or a command, when the
\* settings of the nodes were incomplete.
ServedWhenSetUp ==
    /\ handed # <<>> =>
         started = protocols /\ ready = features /\ main \in {"run", "start", "sleeps", "dead"}
    /\ up /\ ~Alive =>
         /\ web.at # "wait"
         /\ \/ Unforeseen(Request)
            \/ /\ ~hasProtocols /\ command # NoCommand
               /\ \E key \in absent : key[1] \in {"nodes.number", "nodes.node"}

\* The entries read so far that give node n a plugin.
Gives(n) ==
    {e \in 1..(entry - 1) : Registered(Entries[e].plugin) /\ n \in Range(Entries[e].nodes)}

\* A node has the plugin of the first entry that names it, and when there are others
\* the log has a line that says so.
FirstPluginWins ==
    main # "node" => \A n \in NodeIds :
        /\ table[n] = IF Gives(n) = {} THEN NoPlugin
                      ELSE Entries[CHOOSE e \in Gives(n) : \A d \in Gives(n) : e <= d].plugin
        /\ Returned("main") /\ Cardinality(Gives(n)) > 1 /\ RestLevel >= FATAL
             => <<FATAL, <<"node", n>>>> \in Range(written)

\* Whoever asks is answered or closed, if he waits, whatever the others ask.
Answered ==
    \A c \in Conns : conn[c].at = "asked" ~> (conn[c].answer # "none" \/ ~Alive)

\* The node c asked a command for is in the table and has no plugin.
NobodyKnows(c) == conn[c].request.to \in NodeIds /\ table[conn[c].request.to] = NoPlugin

\* A command for a node nobody knows is given to the protocols all the same, and
\* its line reaches the IHM, or is lost in a post that fails.
UnknownReported ==
    \A c \in Conns :
        (\E k \in DOMAIN handed : handed[k][2].by = c /\ NobodyKnows(c))
            ~> (stray \/ ~Alive \/ <<FATAL, <<"unknown", c>>>> \in arrived \cup lost)
=============================================================================
