---------------------------- MODULE MasterProofs ------------------------------
(***************************************************************************)
(* Proofs about the whole process, for any plugins, settings, connections  *)
(* and requests: its log destination is RestLog, and commands are given    *)
(* only when everything is set up.                                         *)
(***************************************************************************)
EXTENDS Master, RestLogProofs, FiniteSetTheorems

-----------------------------------------------------------------------------
(* The invariant that keeps the log's lines among Texts *)

\* Where Init of the nodes manager is in the entries, and whom the web thread serves.
Places ==
    /\ entry \in 1..(Len(Entries) + 1)
    /\ place \in Nat
    /\ main = "node" => entry <= Len(Entries) /\ place >= 1
    /\ web.at # "wait" => web.conn \in Conns

LEMMA EntryFacts ==
    ASSUME NEW e \in 1..Len(Entries)
    PROVE  Entries[e].nodes \in Seq(NodeIds) /\ Len(Entries) \in Nat
<1> DEFINE Entry == [plugin : {Entries[i].plugin : i \in DOMAIN Entries}, nodes : Seq(NodeIds)]
<1>1. Entries \in Seq(Entry)
  BY EntriesAssumption
<1>2. \A x \in Entry : x.nodes \in Seq(NodeIds)
  OBVIOUS
<1> HIDE DEF Entry
<1>3. Entries[e] \in Entry /\ Len(Entries) \in Nat
  BY <1>1, ElementOfSeq, LenProperties
<1> QED BY <1>2, <1>3

LEMMA InitPlaces == Init => Places
<1>1. Len(Entries) \in Nat
  BY EntriesAssumption
<1> QED BY <1>1 DEF Init, ManagerInit, KernelInit, WebInit, Places

LEMMA ManagerPlaces ==
    ASSUME Places, ManagerSetUp, UNCHANGED web PROVE Places'
<1> USE DEF Places, InMain
<1>0. Len(Entries) \in Nat
  BY EntriesAssumption
<1>1. CASE InitFailed
  BY <1>1 DEF InitFailed
<1>2. CASE ReadNumber
  BY <1>2 DEF ReadNumber
<1>3. CASE ReadEntry
  BY <1>0, <1>3 DEF ReadEntry
<1>4. CASE SetNode
  BY <1>4 DEF SetNode
<1>5. CASE EntryDone
  BY <1>0, <1>5 DEF EntryDone
<1>6. CASE InitDone
  BY <1>6 DEF InitDone
<1> QED BY <1>1, <1>2, <1>3, <1>4, <1>5, <1>6 DEF ManagerSetUp

\* A request the process dies of: nothing changes but the thread's place, if that.
LEMMA RequestDeath ==
    ASSUME RequestDies
    PROVE  /\ UNCHANGED <<managerVars, up, oks>> /\ main' = "dead"
           /\ \/ UNCHANGED webVars
                 /\ \/ web.at = "sendCmd" /\ Request.to \notin NodeIds
                    \/ HandOnNowhere
                    \/ web.at = "run" /\ NoAction(Request)
              \/ \E c \in Conns : DispatchDies(c)
BY DEF RequestDies, GetNodeDies, HandOnNowhere, ActionDies, DispatchDies, webVars

LEMMA WebPlaces ==
    ASSUME Places, WebThread PROVE Places'
<1> USE DEF Places, Doing, Answer, managerVars, kernelVars, webVars, DispatchDies
<1>1. CASE GenericLogs
  BY <1>1 DEF GenericLogs
<1>2. CASE CallSendCmd
  BY <1>2 DEF CallSendCmd, SendCmd
<1>3. CASE (Information \/ Missing \/ Generic \/ Reply)
           /\ UNCHANGED <<restVars, kernelVars, managerVars>>
  BY <1>3 DEF Information, Missing, Generic, Reply
<1>4. CASE HandOn /\ UNCHANGED webVars
  BY <1>4 DEF HandOn
<1>6. CASE RequestDies
  BY <1>6, RequestDeath
<1>5. ASSUME NEW c \in Conns, OnlyWeb(Http(c)) PROVE Places'
  <2>1. UNCHANGED web \/ web' = [at |-> "run", conn |-> c]
    BY <1>5 DEF OnlyWeb, Http, Calls, Asks, FirstCall, ProcessPostData, Dispatch, Dispatches,
                Refuse, RequestCompleted, ClientGone
  <2> QED BY <1>5, <2>1 DEF OnlyWeb
<1> QED BY <1>1, <1>2, <1>3, <1>4, <1>5, <1>6 DEF WebThread, Handler

LEMMA StepPlaces == Places /\ [Next]_vars => Places'
<1> SUFFICES ASSUME Places, [Next]_vars PROVE Places'
  OBVIOUS
<1>1. CASE SetUp
  <2>1. CASE ManagerSetUp
    BY <1>1, <2>1, ManagerPlaces DEF SetUp, webVars, StartServer
  <2>2. CASE ~ManagerSetUp
    <3>1. UNCHANGED <<entry, place, web>>
      BY <1>1, <2>2 DEF SetUp, managerVars, webVars, StartServer
    <3>2. main' # "node"
      BY <1>1, <2>2 DEF SetUp, Parse, StderrLevel, Goes, InitRestLog, InitPlugins, Port,
           RunServer, Start, LoadPlugins, ListPlugins, LoadPlugin, Loaded, InitProtocols,
           InitFeatures, InitProtocol, ProtocolsDone, InitFeature, FeaturesDone, StartServer
    <3> QED BY <3>1, <3>2 DEF Places
  <2> QED BY <2>1, <2>2
<1>2. CASE WebThread
  BY <1>2, WebPlaces
<1>3. CASE IhmWarns \/ LogThread \/ UNCHANGED vars
  BY <1>3 DEF IhmWarns, LogThread, vars, kernelVars, managerVars, webVars, Places
<1> QED BY <1>1, <1>2, <1>3 DEF Next

-----------------------------------------------------------------------------
(* Every step is a step of the log destination, or leaves it alone *)

LEMMA Logs ==
    ASSUME NEW t \in {"main", "web", "ihm"}, NEW level \in FATAL..DEBUG, NEW text \in Texts,
           Log(t, level, text)
    PROVE  RestLogNext
BY LogAssumption DEF RestLogNext

LEMMA Levels == FATAL \in FATAL..DEBUG /\ WARN \in FATAL..DEBUG /\ INFO \in FATAL..DEBUG
                  /\ DEBUG \in FATAL..DEBUG
BY DEF FATAL, WARN, INFO, DEBUG

LEMMA SetUpLogs ==
    ASSUME Places, SetUp PROVE [RestLogNext]_restVars
<1>1. \A x \in {"searching", "start", "server", "post"} : <<x, 0>> \in Texts
  BY LogAssumption
<1>2. CASE Parse \/ StderrLevel \/ Start
  BY <1>2 DEF Parse, StderrLevel, Start
<1>3. CASE InitRestLog
  BY <1>3 DEF InitRestLog, RestLogNext
<1>4. CASE InitPlugins
  BY <1>1, <1>4, Logs, Levels DEF InitPlugins
<1>5. CASE Port \/ RunServer
  BY <1>1, <1>5, Logs, Levels DEF Port, RunServer
<1>6. CASE ManagerSetUp
  <2>1. CASE InitFailed
    <3>1. <<"settings", entry>> \in Texts
      BY LogAssumption DEF Places
    <3> QED BY <2>1, <3>1, Logs, Levels DEF InitFailed
  <2>2. CASE ReadEntry
    <3>1. <<"plugin", entry>> \in Texts
      BY LogAssumption DEF Places
    <3> QED BY <2>2, <3>1, Logs, Levels DEF ReadEntry
  <2>3. CASE SetNode
    <3> DEFINE n == Entries[entry].nodes[place]
    <3>1. n \in NodeIds
      BY <2>3, EntryFacts DEF SetNode, Places, InMain
    <3>2. <<"node", n>> \in Texts
      BY <3>1, LogAssumption
    <3>3. Log("main", FATAL, <<"node", n>>) \/ UNCHANGED restVars
      BY <2>3 DEF SetNode
    <3> QED BY <3>2, <3>3, Logs, Levels
  <2> QED BY <1>6, <2>1, <2>2, <2>3 DEF ManagerSetUp, ReadNumber, EntryDone, InitDone
<1>7. CASE UNCHANGED restVars
  BY <1>7
<1> QED
  BY SetUp, <1>2, <1>3, <1>4, <1>5, <1>6, <1>7
  DEF SetUp, InitProtocols, InitFeatures, InitProtocol, ProtocolsDone, InitFeature,
      FeaturesDone, StartServer

LEMMA WebLogs ==
    ASSUME Places, WebThread PROVE [RestLogNext]_restVars
<1>1. CASE GenericLogs
  <2>1. <<"generic", web.conn>> \in Texts
    BY <1>1, LogAssumption DEF Places, GenericLogs
  <2> QED BY <1>1, <2>1, Logs, Levels DEF GenericLogs
<1>2. CASE CallSendCmd
  <2>1. <<"unknown", web.conn>> \in Texts
    BY <1>2, LogAssumption DEF Places, CallSendCmd
  <2>2. Log("web", FATAL, <<"unknown", web.conn>>) \/ UNCHANGED restVars
    BY <1>2 DEF CallSendCmd, SendCmd, FrameOf, IsNull
  <2> QED BY <2>1, <2>2, Logs, Levels
<1>3. CASE UNCHANGED restVars
  BY <1>3
<1> QED BY <1>1, <1>2, <1>3 DEF WebThread, Handler, OnlyWeb

LEMMA StepLogs == Places /\ [Next]_vars => [RestLogNext]_restVars
<1> SUFFICES ASSUME Places, [Next]_vars PROVE [RestLogNext]_restVars
  OBVIOUS
<1>1. CASE IhmWarns
  <2>1. <<"post", 0>> \in Texts
    BY LogAssumption
  <2> QED BY <1>1, <2>1, Logs, Levels DEF IhmWarns
<1>2. CASE LogThread
  BY <1>2 DEF LogThread, RestLogNext
<1>3. CASE UNCHANGED vars
  BY <1>3 DEF vars
<1> QED BY <1>1, <1>2, <1>3, SetUpLogs, WebLogs DEF Next

\* The log destination inside the process behaves as it does on its own: threads log
\* and run() posts, and nothing else touches the queue.
THEOREM MasterLogsAsRestLog == Spec => RestLogSpec
<1>1. Init => RestLogInit
  BY DEF Init
<1> QED BY <1>1, InitPlaces, StepPlaces, StepLogs, PTL DEF Spec, RestLogSpec

\* So the lines keep their order there too, for any number of lines and requests.
THEOREM MasterKeepsOrder == Spec => []LinesInOrder
BY MasterLogsAsRestLog, RestLogKeepsOrder, PTL

-----------------------------------------------------------------------------
(* Commands are given only when everything is set up                       *)

Before == {"parse", "stderr", "rest", "plugins", "list", "load"}
TableRead == {"port", "server", "run", "start", "sleeps"}
Serving == {"run", "start", "sleeps"}

Incomplete == \E key \in absent : key[1] \in {"nodes.number", "nodes.node"}

\* The protocols that run are the first of those that are loaded, and all of them once
\* the features are set up; the features that are ready are the first of theirs, and
\* all of them from the reading of the table on.
StartedInOrder ==
    /\ listed \in Seq(Files) /\ protocols \in Seq(STRING) /\ started \in Seq(STRING)
    /\ features \in Seq(STRING) /\ ready \in Seq(STRING)
    /\ main \in Before => started = <<>>
    /\ main = "protocols" =>
         /\ Len(started) <= Len(protocols)
         /\ \A i \in 1..Len(started) : started[i] = protocols[i]
    /\ main \notin Before \cup {"protocols", "dead"} => started = protocols
    /\ main \in Before \cup {"protocols"} => ready = <<>>
    /\ main = "features" =>
         /\ Len(ready) <= Len(features)
         /\ \A i \in 1..Len(ready) : ready[i] = features[i]
    /\ main \notin Before \cup {"protocols", "features", "dead"} => ready = features

\* Nothing is served, and no command given, before the server is up, and none is
\* given through a pProtocols that was never set.
ServesLate ==
    /\ up => main \in Serving \cup {"dead"}
    /\ web.at # "wait" \/ command # NoCommand \/ handed # <<>> => up
    /\ \A c \in Conns : conn[c].at # "none" => up
    /\ handed # <<>> => hasProtocols /\ started = protocols /\ ready = features
    /\ main \in TableRead => hasProtocols \/ Incomplete

LEMMA InitServes == Init => StartedInOrder /\ ServesLate
<1> SUFFICES ASSUME Init PROVE StartedInOrder /\ ServesLate
  OBVIOUS
<1> USE DEF Init, KernelInit, ManagerInit, WebInit
<1>1. <<>> \in Seq(Files) /\ <<>> \in Seq(STRING)
  OBVIOUS
<1>2. StartedInOrder
  BY <1>1 DEF StartedInOrder, Before
<1>3. ServesLate
  BY DEF ServesLate, Serving, TableRead
<1> QED BY <1>2, <1>3

\* What LoadPlugins registers.
LEMMA RegistersFacts ==
    ASSUME NEW f \in Files
    PROVE  Registers[f].protocols \in Seq(STRING) /\ Registers[f].features \in Seq(STRING)
BY KernelAssumption

\* readdir's order is an order of the files.
LEMMA ListedFacts ==
    ASSUME NEW l \in SetToSeqs(Files) PROVE l \in Seq(Files)
<1>1. Cardinality(Files) \in Nat
  BY KernelAssumption, FS_CardinalityType
<1> QED BY <1>1 DEF SetToSeqs

LEMMA SetUpStarts ==
    ASSUME StartedInOrder, SetUp PROVE StartedInOrder'
<1> USE DEF StartedInOrder, Before, begunVars
<1>1. CASE ListPlugins /\ UNCHANGED begunVars
  <2>1. listed' \in Seq(Files)
    <3>1. listed' \in SetToSeqs(Files) \/ listed' = <<>>
      BY <1>1, Zenon DEF ListPlugins
    <3>2. \A l \in SetToSeqs(Files) : l \in Seq(Files)
      BY ListedFacts
    <3>3. <<>> \in Seq(Files)
      OBVIOUS
    <3> QED BY <3>1, <3>2, <3>3, Zenon
  <2> QED BY <1>1, <2>1 DEF ListPlugins
<1>2. CASE LoadPlugin /\ UNCHANGED begunVars
  <2>1. listed # <<>> => Head(listed) \in Files /\ Tail(listed) \in Seq(Files)
    OBVIOUS
  <2>2. listed # <<>> => /\ protocols \o Registers[Head(listed)].protocols \in Seq(STRING)
                         /\ features \o Registers[Head(listed)].features \in Seq(STRING)
    BY <2>1, RegistersFacts
  <2> QED BY <1>2, <2>1, <2>2 DEF LoadPlugin
<1>3. CASE Loaded /\ UNCHANGED begunVars
  BY <1>3 DEF Loaded
<1>4. CASE InitProtocol /\ UNCHANGED <<listed, protocols, features, ready>>
  <2>1. CASE main' = "dead"
    BY <1>4, <2>1 DEF InitProtocol
  <2>2. CASE main' # "dead"
    <3> DEFINE p == protocols[Len(started) + 1]
    <3>1. started' = Append(started, p) /\ main' = "protocols" /\ p \in STRING
          /\ main = "protocols" /\ Len(started) < Len(protocols)
      BY <1>4, <2>2 DEF InitProtocol
    <3>2. started' \in Seq(STRING) /\ Len(started') = Len(started) + 1
          /\ \A i \in 1..Len(started') : started'[i] = IF i <= Len(started) THEN started[i] ELSE p
      BY <3>1
    <3> QED BY <1>4, <3>1, <3>2
  <2> QED BY <2>1, <2>2
<1>5. CASE ProtocolsDone /\ UNCHANGED <<started, listed, protocols, features, ready>>
  <2>1. started = protocols
    BY <1>5, SeqEqual DEF ProtocolsDone
  <2> QED BY <1>5, <2>1 DEF ProtocolsDone
<1>6. CASE InitFeature /\ UNCHANGED <<listed, protocols, features, started>>
  <2>1. CASE main' = "dead"
    BY <1>6, <2>1 DEF InitFeature
  <2>2. CASE main' # "dead"
    <3> DEFINE f == features[Len(ready) + 1]
    <3>1. ready' = Append(ready, f) /\ main' = "features" /\ f \in STRING
          /\ main = "features" /\ Len(ready) < Len(features)
      BY <1>6, <2>2 DEF InitFeature
    <3>2. ready' \in Seq(STRING) /\ Len(ready') = Len(ready) + 1
          /\ \A i \in 1..Len(ready') : ready'[i] = IF i <= Len(ready) THEN ready[i] ELSE f
      BY <3>1
    <3> QED BY <1>6, <3>1, <3>2
  <2> QED BY <2>1, <2>2
<1>7. CASE FeaturesDone /\ UNCHANGED <<started, listed, protocols, features, ready>>
  <2>1. ready = features
    BY <1>7, SeqEqual DEF FeaturesDone
  <2> QED BY <1>7, <2>1 DEF FeaturesDone
<1>8. CASE ManagerSetUp /\ UNCHANGED begunVars
  BY <1>8 DEF ManagerSetUp, InitFailed, ReadNumber, ReadEntry, SetNode, EntryDone, InitDone, InMain
<1>9. CASE /\ Parse \/ StderrLevel \/ InitRestLog \/ InitPlugins \/ Port \/ RunServer \/ Start
              \/ StartServer
           /\ UNCHANGED <<listed, protocols, features, begunVars>>
  BY <1>9 DEF Parse, StderrLevel, Goes, InitRestLog, InitPlugins, Port, RunServer, Start, StartServer
<1> HIDE DEF StartedInOrder, Before, begunVars
<1>10. LoadPlugins /\ UNCHANGED begunVars => StartedInOrder'
  BY <1>1, <1>2, <1>3 DEF LoadPlugins
<1>11. CASE /\ InitProtocols \/ InitFeatures
            /\ UNCHANGED <<absent, listed, nodes, protocols, features, managerVars, webVars>>
  BY <1>4, <1>5, <1>6, <1>7, <1>11 DEF InitProtocols, InitFeatures, ProtocolsDone, FeaturesDone
<1>12. CASE /\ Parse \/ StderrLevel \/ InitRestLog \/ InitPlugins \/ Port \/ RunServer \/ Start
            /\ UNCHANGED <<absent, listed, nodes, protocols, features, managerVars, webVars, begunVars>>
  BY <1>9, <1>12
<1>13. CASE /\ StartServer
            /\ UNCHANGED <<absent, listed, nodes, protocols, features, managerVars, begunVars>>
  BY <1>9, <1>13
<1>14. CASE ManagerSetUp /\ UNCHANGED <<webVars, begunVars>>
  BY <1>8, <1>14
<1>15. CASE LoadPlugins /\ UNCHANGED <<restVars, managerVars, webVars, begunVars>>
  BY <1>10, <1>15
<1> QED
  BY SetUp, <1>11, <1>12, <1>13, <1>14, <1>15 DEF SetUp

LEMMA SetUpServes ==
    ASSUME StartedInOrder, ServesLate, Alive, SetUp PROVE ServesLate'
<1> USE DEF ServesLate, Serving, TableRead, Alive, begunVars
<1>1. CASE UNCHANGED <<command, handed, hasProtocols, absent, webVars>> /\ ~up
           /\ main' \notin TableRead
  BY <1>1 DEF webVars, Incomplete
<1>2. CASE /\ ManagerSetUp
           /\ UNCHANGED <<webVars, begunVars>>
  <2>1. ~up /\ handed = <<>>
    BY <1>2 DEF ManagerSetUp, InitFailed, ReadNumber, ReadEntry, SetNode, EntryDone, InitDone, InMain
  <2>2. main' = "port" => (hasProtocols \/ Incomplete)'
    BY <1>2 DEF ManagerSetUp, InitFailed, ReadNumber, ReadEntry, SetNode, EntryDone, InitDone,
                InMain, Present, Incomplete
  <2>3. main' \in {"port", "number", "entry", "node"}
    BY <1>2 DEF ManagerSetUp, InitFailed, ReadNumber, ReadEntry, SetNode, EntryDone, InitDone, InMain
  <2> QED BY <1>2, <2>1, <2>2, <2>3 DEF ManagerSetUp, webVars
<1>3. CASE /\ Port \/ RunServer \/ Start
           /\ UNCHANGED <<absent, managerVars, webVars, begunVars, protocols, features>>
  BY <1>3 DEF Port, RunServer, Start, Goes, managerVars, webVars, Incomplete
<1>4. CASE StartServer /\ UNCHANGED <<absent, managerVars, begunVars, protocols, features>>
  BY <1>4 DEF StartServer, managerVars, Incomplete
<1>5. CASE /\ \/ (Parse \/ StderrLevel \/ InitRestLog \/ InitPlugins) /\ UNCHANGED webVars
              \/ LoadPlugins /\ UNCHANGED webVars
              \/ (InitProtocols \/ InitFeatures) /\ UNCHANGED webVars
           /\ UNCHANGED <<absent, managerVars>>
  BY <1>1, <1>5 DEF Parse, StderrLevel, InitRestLog, InitPlugins, Goes, LoadPlugins, ListPlugins,
       LoadPlugin, Loaded, InitProtocols, InitFeatures, InitProtocol, ProtocolsDone, InitFeature,
       FeaturesDone, managerVars
<1> QED BY SetUp, <1>2, <1>3, <1>4, <1>5 DEF SetUp, LoadPlugins, ListPlugins, LoadPlugin, Loaded

LEMMA WebServes ==
    ASSUME StartedInOrder, ServesLate, Alive, WebThread PROVE (StartedInOrder /\ ServesLate)'
<1> USE DEF ServesLate, Alive, Doing, Answer, begunVars
<1>1. CASE GenericLogs /\ UNCHANGED begunVars
  BY <1>1 DEF GenericLogs, StartedInOrder, kernelVars, managerVars, Incomplete
<1>2. CASE CallSendCmd /\ UNCHANGED begunVars
  BY <1>2 DEF CallSendCmd, SendCmd, StartedInOrder, kernelVars, Incomplete
<1>3. CASE /\ Information \/ Missing \/ Generic \/ Reply
           /\ UNCHANGED <<kernelVars, managerVars, begunVars>>
  BY <1>3 DEF Information, Missing, Generic, Reply, StartedInOrder, kernelVars, managerVars, Incomplete
<1>4. CASE HandOn /\ UNCHANGED <<webVars, absent, listed, nodes, protocols, features, begunVars>>
  <2>1. main \in Serving /\ started = protocols /\ ready = features
    BY <1>4 DEF HandOn, StartedInOrder, Serving, Before
  <2> QED BY <1>4, <2>1 DEF HandOn, StartedInOrder, webVars, Incomplete, Serving
<1>5. CASE RequestDies /\ UNCHANGED <<absent, listed, nodes, protocols, features, begunVars>>
  <2>1. UNCHANGED managerVars /\ up' = up /\ main' = "dead"
    BY <1>5, RequestDeath
  <2>2. up
    <3>1. CASE \E c \in Conns : DispatchDies(c)
      BY <3>1 DEF DispatchDies
    <3>2. CASE HandOnNowhere \/ web.at # "wait"
      BY <3>2 DEF HandOnNowhere
    <3> QED BY <1>5, <3>1, <3>2, RequestDeath
  <2>3. StartedInOrder'
    BY <1>5, <2>1 DEF StartedInOrder, Before
  <2> QED BY <1>5, <2>1, <2>2, <2>3 DEF managerVars, Incomplete, TableRead, Serving
<1>6. ASSUME NEW c \in Conns, OnlyWeb(Http(c)) PROVE (StartedInOrder /\ ServesLate)'
  <2>1. up /\ up' = up
    BY <1>6 DEF OnlyWeb, Http, Calls, Asks, FirstCall, ProcessPostData, Dispatch, Dispatches,
                Refuse, RequestCompleted, ClientGone
  <2> QED BY <1>6, <2>1 DEF OnlyWeb, StartedInOrder, kernelVars, managerVars, Incomplete
<1> QED BY WebThread, <1>1, <1>2, <1>3, <1>4, <1>5, <1>6 DEF WebThread, Handler

LEMMA StepServes ==
    StartedInOrder /\ ServesLate /\ [Next]_vars => (StartedInOrder /\ ServesLate)'
<1> SUFFICES ASSUME StartedInOrder, ServesLate, [Next]_vars
             PROVE  (StartedInOrder /\ ServesLate)'
  OBVIOUS
<1>1. CASE Alive /\ SetUp
  BY <1>1, SetUpStarts, SetUpServes
<1>2. CASE Alive /\ WebThread
  BY <1>2, WebServes
<1>3. CASE IhmWarns \/ LogThread \/ UNCHANGED vars
  BY <1>3 DEF IhmWarns, LogThread, vars, begunVars, kernelVars, managerVars, webVars, StartedInOrder,
              ServesLate, Incomplete
<1> QED BY <1>1, <1>2, <1>3 DEF Next

-----------------------------------------------------------------------------
(* What a step leaves alone                                                *)

\* The start-up gives no commands and answers nobody, and loads plugins only in
\* LoadPlugins.
LEMMA SetUpLeaves ==
    ASSUME SetUp
    PROVE  /\ UNCHANGED <<conn, web, oks, command, handed, absent>>
           /\ UNCHANGED <<listed, nodes, protocols, features>> \/ LoadPlugins
BY DEF SetUp, LoadPlugins, ListPlugins, LoadPlugin, Loaded, ManagerSetUp, StartServer,
       managerVars, webVars

\* The web thread leaves what the start-up has made.
LEMMA WebLeaves ==
    ASSUME WebThread
    PROVE  /\ UNCHANGED <<absent, listed, nodes, protocols, features, table, entry, place,
                          hasProtocols, begunVars, up>>
           /\ \/ main' = main
              \/ /\ main' = "dead"
                 /\ \/ command # NoCommand \/ web.at # "wait"
                    \/ \E c \in Conns : conn[c].at = "begun"
<1>1. CASE Handler /\ UNCHANGED begunVars
  <2>1. CASE GenericLogs \/ CallSendCmd
    BY <1>1, <2>1 DEF GenericLogs, CallSendCmd, SendCmd, kernelVars, managerVars, begunVars
  <2>2. CASE /\ Information \/ Missing \/ Generic \/ Reply
             /\ UNCHANGED <<restVars, kernelVars, managerVars>>
    BY <1>1, <2>2 DEF Information, Missing, Generic, Reply, kernelVars, managerVars, begunVars
  <2>3. CASE HandOn /\ UNCHANGED <<webVars, absent, listed, nodes, protocols, features>>
    BY <1>1, <2>3 DEF HandOn, webVars, begunVars
  <2>4. CASE RequestDies /\ UNCHANGED <<absent, listed, nodes, protocols, features>>
    <3>1. UNCHANGED managerVars /\ up' = up /\ main' = "dead"
      BY <2>4, RequestDeath
    <3>2. command # NoCommand \/ web.at # "wait" \/ \E c \in Conns : conn[c].at = "begun"
      BY <2>4, RequestDeath DEF HandOnNowhere, DispatchDies
    <3> QED BY <1>1, <2>4, <3>1, <3>2 DEF managerVars, begunVars
  <2> QED BY <1>1, <2>1, <2>2, <2>3, <2>4 DEF Handler
<1>2. ASSUME NEW c \in Conns, OnlyWeb(Http(c))
      PROVE  UNCHANGED <<kernelVars, managerVars, up, begunVars>>
  BY <1>2 DEF OnlyWeb, Http, Calls, Asks, FirstCall, ProcessPostData, Dispatch, Dispatches,
              Refuse, RequestCompleted, ClientGone, webVars
<1>3. CASE \E c \in Conns : OnlyWeb(Http(c))
  BY <1>2, <1>3 DEF kernelVars, managerVars, begunVars
<1> QED BY <1>1, <1>3 DEF WebThread

\* The threads that only log leave everything but the log.
LEMMA OthersLeave ==
    ASSUME IhmWarns \/ LogThread \/ UNCHANGED vars
    PROVE  UNCHANGED <<main, absent, listed, nodes, protocols, features, table, entry, place,
                       hasProtocols, command, handed, up, conn, web, oks, begunVars>>
BY DEF IhmWarns, LogThread, vars, kernelVars, managerVars, webVars, begunVars

-----------------------------------------------------------------------------
(* The commands a protocol was given                                       *)

\* The numbers below another are its predecessors.
LessThan == {pair \in Nat \X Nat : pair[1] < pair[2]}

\* A set with 0 and with the successor of each of its numbers has all numbers.
LEMMA SetInduction ==
    ASSUME NEW S, 0 \in S, \A n \in Nat : n \in S => n + 1 \in S
    PROVE  Nat \subseteq S
<1> DEFINE T == Nat \ S
<1> SUFFICES ASSUME T # {} PROVE FALSE
  OBVIOUS
<1>1. IsWellFoundedOn(LessThan, Nat)
  BY NatLessThanWellFounded DEF OpToRel, LessThan
<1>2. PICK m \in T : \A y \in T : ~(<<y, m>> \in LessThan)
  BY <1>1, WFMin
<1>3. m # 0 /\ m - 1 \in Nat /\ m - 1 < m
  OBVIOUS
<1>4. m - 1 \notin T
  BY <1>2, <1>3 DEF LessThan
<1> QED BY <1>3, <1>4

\* The definition of GivenTo, for any history.
GivenBody(h, p, f, k) ==
    IF k = 0 THEN <<>>
    ELSE IF h[k][1] = p THEN Append(f[k - 1], h[k][2].by)
    ELSE f[k - 1]

IsGiven(h, p, n, f) == f = [k \in 0..n |-> GivenBody(h, p, f, k)]
GivenFcn(h, p, n) == CHOOSE f : IsGiven(h, p, n, f)
Given(h, p, n) == GivenFcn(h, p, n)[n]

LEMMA GivenToIsGiven ==
    ASSUME NEW p PROVE GivenTo(p) = Given(handed, p, Len(handed))
BY DEF GivenTo, Given, GivenFcn, IsGiven, GivenBody

\* The recursion has a solution.
LEMMA GivenExists ==
    ASSUME NEW h, NEW p, NEW N \in Nat PROVE IsGiven(h, p, N, GivenFcn(h, p, N))
<1> DEFINE S == {n \in Nat : \E f : IsGiven(h, p, n, f)}
<1>1. 0 \in S
  <2>1. IsGiven(h, p, 0, [k \in 0..0 |-> <<>>])
    BY DEF IsGiven, GivenBody
  <2> QED BY <2>1
<1>2. ASSUME NEW n \in Nat, n \in S PROVE n + 1 \in S
  <2>1. PICK f : IsGiven(h, p, n, f)
    BY <1>2
  <2> DEFINE g == [k \in 0..(n + 1) |-> IF k <= n THEN f[k] ELSE GivenBody(h, p, f, n + 1)]
  <2>2. ASSUME NEW k \in 0..(n + 1) PROVE g[k] = GivenBody(h, p, g, k)
    <3>1. CASE k <= n
      <4>1. f[k] = GivenBody(h, p, f, k)
        BY <2>1, <3>1 DEF IsGiven
      <4>2. GivenBody(h, p, g, k) = GivenBody(h, p, f, k)
        BY <3>1 DEF GivenBody
      <4> QED BY <3>1, <4>1, <4>2
    <3>2. CASE k = n + 1
      BY <3>2 DEF GivenBody
    <3> QED BY <3>1, <3>2
  <2>3. IsGiven(h, p, n + 1, g)
    BY <2>2 DEF IsGiven
  <2> QED BY <2>3
<1>3. Nat \subseteq S
  <2> HIDE DEF S
  <2> QED BY <1>1, <1>2, SetInduction
<1>4. \E f : IsGiven(h, p, N, f)
  BY <1>3
<1> QED BY <1>4 DEF GivenFcn

\* Histories that begin alike give alike.
LEMMA GivenAgrees ==
    ASSUME NEW h, NEW g, NEW p, NEW N \in Nat, NEW n \in 0..N,
           \A k \in 1..n : h[k] = g[k]
    PROVE  Given(h, p, n) = GivenFcn(g, p, N)[n]
<1> DEFINE d == GivenFcn(h, p, n)
           e == GivenFcn(g, p, N)
           S == {k \in Nat : k <= n => d[k] = e[k]}
<1>1. IsGiven(h, p, n, d) /\ IsGiven(g, p, N, e)
  BY GivenExists
<1> HIDE DEF d, e
<1>2. /\ \A k \in 0..n : d[k] = GivenBody(h, p, d, k)
      /\ \A k \in 0..N : e[k] = GivenBody(g, p, e, k)
  BY <1>1 DEF IsGiven
<1>3. 0 \in S
  BY <1>2 DEF GivenBody
<1>4. ASSUME NEW k \in Nat, k \in S PROVE k + 1 \in S
  <2> SUFFICES ASSUME k + 1 <= n PROVE d[k + 1] = e[k + 1]
    OBVIOUS
  <2>1. d[k] = e[k] /\ h[k + 1] = g[k + 1] /\ k + 1 \in 0..n /\ k + 1 \in 0..N
    BY <1>4
  <2>2. d[k + 1] = GivenBody(h, p, d, k + 1) /\ e[k + 1] = GivenBody(g, p, e, k + 1)
    BY <1>2, <2>1
  <2> QED BY <2>1, <2>2 DEF GivenBody
<1>5. Nat \subseteq S
  <2> HIDE DEF S
  <2> QED BY <1>3, <1>4, SetInduction
<1> QED BY <1>5 DEF Given, d, e

LEMMA GivenNothing == ASSUME NEW h, NEW p PROVE Given(h, p, 0) = <<>>
<1>1. IsGiven(h, p, 0, GivenFcn(h, p, 0))
  BY GivenExists
<1> QED BY <1>1 DEF Given, IsGiven, GivenBody

\* One more entry of the history is one more command for its protocol.
LEMMA GivenAppend ==
    ASSUME NEW X, NEW h \in Seq(X), NEW x \in X, NEW p
    PROVE  Given(Append(h, x), p, Len(h) + 1) =
             IF x[1] = p THEN Append(Given(h, p, Len(h)), x[2].by) ELSE Given(h, p, Len(h))
<1> DEFINE n == Len(h)
           g == Append(h, x)
           e == GivenFcn(g, p, n + 1)
<1>1. n \in Nat /\ n + 1 \in Nat /\ n \in 0..(n + 1)
  BY LenProperties
<1>2. g[n + 1] = x /\ \A k \in 1..n : h[k] = g[k]
  OBVIOUS
<1> HIDE DEF n, g
<1>3. IsGiven(g, p, n + 1, e)
  BY <1>1, GivenExists
<1>4. Given(h, p, n) = e[n]
  <2>1. Given(h, p, n) = GivenFcn(g, p, n + 1)[n]
    BY <1>1, <1>2, GivenAgrees
  <2> QED BY <2>1
<1> HIDE DEF e
<1>5. e[n + 1] = GivenBody(g, p, e, n + 1)
  BY <1>1, <1>3 DEF IsGiven
<1>6. e[n + 1] = IF x[1] = p THEN Append(e[n], x[2].by) ELSE e[n]
  BY <1>1, <1>2, <1>5 DEF GivenBody
<1>7. Given(g, p, n + 1) = e[n + 1]
  BY DEF Given, e
<1> QED BY <1>4, <1>6, <1>7 DEF n, g
-----------------------------------------------------------------------------
(* What has been loaded                                                    *)

\* The names that can be registered.
NodeNames == UNION {Range(Registers[f].nodes) : f \in Files}
ProtocolNames == UNION {Range(Registers[f].protocols) : f \in Files}
FeatureNames == UNION {Range(Registers[f].features) : f \in Files}

LoadedOK ==
    /\ absent \in Absent
    /\ nodes \in Seq(NodeNames) /\ protocols \in Seq(ProtocolNames)
    /\ features \in Seq(FeatureNames)
    /\ table \in [NodeIds -> {NoPlugin} \cup Range(nodes)]
    /\ main = "node" => Registered(Entries[entry].plugin)
    /\ Len(started) <= Len(protocols)
    /\ \A i \in 1..Len(started) : started[i] = protocols[i]
    /\ Len(ready) <= Len(features)
    /\ \A i \in 1..Len(ready) : ready[i] = features[i]

\* What a file registers is among the names.
LEMMA RegisteredNames ==
    ASSUME NEW f \in Files
    PROVE  /\ Registers[f].nodes \in Seq(NodeNames)
           /\ Registers[f].protocols \in Seq(ProtocolNames)
           /\ Registers[f].features \in Seq(FeatureNames)
<1>1. /\ Registers[f].nodes \in Seq(STRING)
      /\ Registers[f].protocols \in Seq(STRING)
      /\ Registers[f].features \in Seq(STRING)
  BY KernelAssumption
<1>2. /\ Range(Registers[f].nodes) \subseteq NodeNames
      /\ Range(Registers[f].protocols) \subseteq ProtocolNames
      /\ Range(Registers[f].features) \subseteq FeatureNames
  BY DEF NodeNames, ProtocolNames, FeatureNames
<1>3. ASSUME NEW s \in Seq(STRING), NEW X, Range(s) \subseteq X PROVE s \in Seq(X)
  BY <1>3 DEF Range
<1> QED BY <1>1, <1>2, <1>3

LEMMA LoadedInRange ==
    ASSUME NEW X, NEW s \in Seq(X), NEW t \in Seq(X)
    PROVE  Range(s \o t) = Range(s) \cup Range(t)
<1>1. DOMAIN s = 1..Len(s) /\ DOMAIN t = 1..Len(t) /\ DOMAIN (s \o t) = 1..(Len(s) + Len(t))
  OBVIOUS
<1>2. ASSUME NEW i \in 1..Len(s) PROVE (s \o t)[i] = s[i]
  OBVIOUS
<1>3. ASSUME NEW i \in 1..Len(t) PROVE (s \o t)[Len(s) + i] = t[i]
  OBVIOUS
<1>4. ASSUME NEW i \in 1..(Len(s) + Len(t)) PROVE i \in 1..Len(s) \/ i - Len(s) \in 1..Len(t)
  OBVIOUS
<1>5. Range(s \o t) \subseteq Range(s) \cup Range(t)
  <2> SUFFICES ASSUME NEW i \in 1..(Len(s) + Len(t)) PROVE (s \o t)[i] \in Range(s) \cup Range(t)
    BY <1>1 DEF Range
  <2>1. CASE i \in 1..Len(s)
    BY <1>1, <1>2, <2>1 DEF Range
  <2>2. CASE i - Len(s) \in 1..Len(t)
    <3>1. (s \o t)[Len(s) + (i - Len(s))] = t[i - Len(s)]
      BY <1>3, <2>2
    <3>2. Len(s) + (i - Len(s)) = i
      OBVIOUS
    <3> QED BY <1>1, <2>2, <3>1, <3>2 DEF Range
  <2> QED BY <1>4, <2>1, <2>2
<1>6. Range(s) \cup Range(t) \subseteq Range(s \o t)
  <2>1. ASSUME NEW i \in 1..Len(t) PROVE Len(s) + i \in 1..(Len(s) + Len(t))
    OBVIOUS
  <2>2. 1..Len(s) \subseteq 1..(Len(s) + Len(t))
    OBVIOUS
  <2> QED BY <1>1, <1>2, <1>3, <2>1, <2>2 DEF Range
<1> QED BY <1>5, <1>6

LEMMA InitLoaded == Init => LoadedOK
<1> SUFFICES ASSUME Init PROVE LoadedOK
  OBVIOUS
<1>1. \A X : <<>> \in Seq(X)
  OBVIOUS
<1> QED BY <1>1 DEF Init, KernelInit, ManagerInit, LoadedOK

LEMMA LoadPluginLoaded ==
    ASSUME StartedInOrder, LoadedOK, LoadPlugin, UNCHANGED <<table, begunVars>>, main = "load"
    PROVE  LoadedOK'
<1> USE DEF LoadPlugin, begunVars
<1>1. started = <<>> /\ ready = <<>>
  BY DEF StartedInOrder, Before
<1>2. CASE Present(<<"plugin", Head(listed)>>)
  <2> DEFINE f == Head(listed)
  <2>1. f \in Files
    BY DEF StartedInOrder
  <2>2. /\ nodes' = nodes \o Registers[f].nodes
        /\ protocols' = protocols \o Registers[f].protocols
        /\ features' = features \o Registers[f].features
        /\ UNCHANGED <<absent, table, started, ready>>
    BY <1>2
  <2> HIDE DEF f
  <2>3. /\ nodes' \in Seq(NodeNames) /\ protocols' \in Seq(ProtocolNames)
        /\ features' \in Seq(FeatureNames)
    BY <2>1, <2>2, RegisteredNames DEF LoadedOK
  <2>4. Range(nodes) \subseteq Range(nodes')
    BY <2>1, <2>2, RegisteredNames, LoadedInRange DEF LoadedOK
  <2>5. table \in [NodeIds -> {NoPlugin} \cup Range(nodes')]
    BY <2>4 DEF LoadedOK
  <2>6. Len(protocols') \in Nat /\ Len(features') \in Nat /\ Len(<<>>) = 0
    BY <2>3, LenProperties
  <2> QED BY <1>1, <2>2, <2>3, <2>5, <2>6 DEF LoadedOK
<1>3. CASE ~Present(<<"plugin", Head(listed)>>)
  BY <1>3 DEF LoadedOK
<1> QED BY <1>2, <1>3

LEMMA ManagerLoaded ==
    ASSUME LoadedOK, ManagerSetUp, UNCHANGED begunVars PROVE LoadedOK'
<1> USE DEF LoadedOK, InMain, begunVars, Registered
<1>1. UNCHANGED <<absent, nodes, protocols, features, started, ready>>
  BY DEF ManagerSetUp
<1>2. table' \in [NodeIds -> {NoPlugin} \cup Range(nodes)]
  <2>1. CASE UNCHANGED table
    BY <2>1
  <2>2. CASE SetNode
    BY <2>2 DEF SetNode
  <2> QED
    BY <2>1, <2>2 DEF ManagerSetUp, InitFailed, ReadNumber, ReadEntry, EntryDone, InitDone
<1>3. main' = "node" => Registered(Entries[entry'].plugin)
  BY DEF ManagerSetUp, InitFailed, ReadNumber, ReadEntry, SetNode, EntryDone, InitDone
<1> QED BY <1>1, <1>2, <1>3

LEMMA SetUpLoaded ==
    ASSUME StartedInOrder, LoadedOK, SetUp PROVE LoadedOK'
<1> USE DEF begunVars
<1>1. CASE LoadPlugins /\ UNCHANGED <<restVars, managerVars, webVars, begunVars>>
  <2>1. CASE LoadPlugin
    BY <1>1, <2>1, LoadPluginLoaded DEF managerVars, LoadPlugin
  <2>2. CASE ListPlugins \/ Loaded
    BY <1>1, <2>2 DEF ListPlugins, Loaded, LoadedOK, managerVars
  <2> QED BY <1>1, <2>1, <2>2 DEF LoadPlugins
<1>2. CASE /\ InitProtocols \/ InitFeatures
           /\ UNCHANGED <<absent, listed, nodes, protocols, features, managerVars, webVars>>
  <2>1. UNCHANGED <<absent, nodes, protocols, features, table>> /\ main' # "node"
    BY <1>2 DEF managerVars, InitProtocols, InitFeatures, InitProtocol, ProtocolsDone, InitFeature,
                FeaturesDone
  <2>2. /\ Len(started') <= Len(protocols)
        /\ \A i \in 1..Len(started') : started'[i] = protocols[i]
    <3>1. CASE UNCHANGED started
      BY <3>1 DEF LoadedOK
    <3>2. CASE InitProtocol /\ started' = Append(started, protocols[Len(started) + 1])
      <4>1. started \in Seq(STRING) /\ protocols \in Seq(STRING) /\ Len(started) < Len(protocols)
        BY <3>2 DEF InitProtocol, StartedInOrder
      <4>2. /\ Len(started') = Len(started) + 1 /\ started'[Len(started) + 1] = protocols[Len(started) + 1]
            /\ \A i \in 1..Len(started) : started'[i] = started[i]
        BY <3>2, <4>1
      <4> QED BY <4>1, <4>2 DEF LoadedOK
    <3> QED BY <1>2, <3>1, <3>2 DEF InitProtocols, InitFeatures, InitProtocol, ProtocolsDone
  <2>3. /\ Len(ready') <= Len(features)
        /\ \A i \in 1..Len(ready') : ready'[i] = features[i]
    <3>1. CASE UNCHANGED ready
      BY <3>1 DEF LoadedOK
    <3>2. CASE InitFeature /\ ready' = Append(ready, features[Len(ready) + 1])
      <4>1. ready \in Seq(STRING) /\ features \in Seq(STRING) /\ Len(ready) < Len(features)
        BY <3>2 DEF InitFeature, StartedInOrder
      <4>2. /\ Len(ready') = Len(ready) + 1 /\ ready'[Len(ready) + 1] = features[Len(ready) + 1]
            /\ \A i \in 1..Len(ready) : ready'[i] = ready[i]
        BY <3>2, <4>1
      <4> QED BY <4>1, <4>2 DEF LoadedOK
    <3> QED BY <1>2, <3>1, <3>2 DEF InitProtocols, InitFeatures, InitFeature, FeaturesDone
  <2> QED BY <2>1, <2>2, <2>3 DEF LoadedOK
<1>3. CASE ManagerSetUp /\ UNCHANGED <<webVars, begunVars>>
  BY <1>3, ManagerLoaded
<1>4. CASE /\ Parse \/ StderrLevel \/ InitRestLog \/ InitPlugins \/ Port \/ RunServer \/ Start
              \/ StartServer
           /\ UNCHANGED <<absent, nodes, protocols, features, managerVars, begunVars>>
  <2>1. main' # "node"
    BY <1>4 DEF Parse, StderrLevel, Goes, InitRestLog, InitPlugins, Port, RunServer, Start, StartServer
  <2> QED BY <1>4, <2>1 DEF LoadedOK, managerVars
<1> QED BY SetUp, <1>1, <1>2, <1>3, <1>4 DEF SetUp

LEMMA StepLoaded == StartedInOrder /\ LoadedOK /\ [Next]_vars => LoadedOK'
<1> SUFFICES ASSUME StartedInOrder, LoadedOK, [Next]_vars PROVE LoadedOK'
  OBVIOUS
<1>1. CASE SetUp
  BY <1>1, SetUpLoaded
<1>2. CASE WebThread
  BY <1>2, WebLeaves DEF LoadedOK, begunVars, Registered
<1>3. CASE IhmWarns \/ LogThread \/ UNCHANGED vars
  BY <1>3, OthersLeave DEF LoadedOK, begunVars, Registered
<1> QED BY <1>1, <1>2, <1>3 DEF Next

-----------------------------------------------------------------------------
(* Who is served                                                           *)

Idle == [at |-> "none", inFlight |-> FALSE, answer |-> "none"]
Answers == {"none", "closed", "404", "info", "ko", "ok"}
Asking == [at : {"asked", "begun", "done"}, inFlight : BOOLEAN, answer : Answers,
           request : Requests, body : BOOLEAN]

\* The thread serves a connection that has begun and waits for its answer, and
\* those that were answered "ok" are other ones, each answered once.
ConnsOK ==
    /\ conn \in [Conns -> {Idle} \cup Asking]
    /\ \A c \in Conns : conn[c].at = "asked" => conn[c].answer = "none" /\ ~conn[c].inFlight
    /\ \A c \in Conns :
         conn[c].at = "begun" /\ ~conn[c].inFlight /\ conn[c].request.method \in {"GET", "POST"}
           => conn[c].answer = "none"
    /\ web.at \in {"wait", "dispatch", "run", "generic", "sendCmd", "sending"}
    /\ web.at # "wait" =>
         /\ web.conn \in Conns
         /\ conn[web.conn].at = "begun" /\ conn[web.conn].inFlight /\ conn[web.conn].answer = "none"
    /\ web.at \in {"generic", "sendCmd", "sending"} => ActionOf(Request) \in Commands
    /\ oks \in Seq(Conns)
    /\ \A i \in 1..Len(oks) : conn[oks[i]].inFlight /\ conn[oks[i]].answer # "none"
    /\ \A i, j \in 1..Len(oks) : oks[i] = oks[j] => i = j
    /\ oks # <<>> => up

LEMMA InitConns == Init => ConnsOK
<1>1. <<>> \in Seq(Conns) /\ Len(<<>>) = 0
  OBVIOUS
<1> QED BY <1>1 DEF Init, WebInit, ConnsOK, Idle

\* What a connection's record may be.
RecordOK(v) ==
    /\ v \in Asking
    /\ v.at = "asked" => v.answer = "none" /\ ~v.inFlight
    /\ v.at = "begun" /\ ~v.inFlight /\ v.request.method \in {"GET", "POST"} => v.answer = "none"

\* A connection nobody is served for changes, and stays answered if it was.
LEMMA ConnChanges ==
    ASSUME ConnsOK, NEW c \in Conns, NEW v, RecordOK(v), conn' = [conn EXCEPT ![c] = v],
           UNCHANGED <<up, web, oks>>,
           web.at # "wait" => web.conn # c,
           conn[c].inFlight /\ conn[c].answer # "none" => v.inFlight /\ v.answer # "none"
    PROVE  ConnsOK'
<1> USE DEF ConnsOK, RecordOK
<1>1. conn'[c] = v /\ \A d \in Conns : d # c => conn'[d] = conn[d]
  OBVIOUS
<1>2. conn' \in [Conns -> {Idle} \cup Asking]
  OBVIOUS
<1>3. \A d \in Conns : conn'[d].at = "asked" => conn'[d].answer = "none" /\ ~conn'[d].inFlight
  BY <1>1
<1>4. \A d \in Conns :
        conn'[d].at = "begun" /\ ~conn'[d].inFlight /\ conn'[d].request.method \in {"GET", "POST"}
          => conn'[d].answer = "none"
  BY <1>1
<1>5. web.at # "wait" => conn'[web.conn] = conn[web.conn]
  BY <1>1
<1>6. \A i \in 1..Len(oks) : conn'[oks[i]].inFlight /\ conn'[oks[i]].answer # "none"
  <2> SUFFICES ASSUME NEW i \in 1..Len(oks)
               PROVE  conn'[oks[i]].inFlight /\ conn'[oks[i]].answer # "none"
    OBVIOUS
  <2>1. oks[i] \in Conns /\ conn[oks[i]].inFlight /\ conn[oks[i]].answer # "none"
    OBVIOUS
  <2> QED BY <1>1, <2>1
<1> QED BY <1>2, <1>3, <1>4, <1>5, <1>6 DEF Request

\* The thread begins with a connection that was not dispatched yet.
LEMMA BeginConns ==
    ASSUME ConnsOK, NEW c \in Conns, NEW where \in {"run", "dispatch"},
           Whole(c), Waits, conn[c].at = "begun", ~conn[c].inFlight,
           conn' = [conn EXCEPT ![c].inFlight = TRUE], Doing(where, c), UNCHANGED <<up, oks>>
    PROVE  ConnsOK'
<1> DEFINE x == conn[c]
           v == [x EXCEPT !.inFlight = TRUE]
<1>1. x \in Asking /\ x.answer = "none"
  BY DEF ConnsOK, Idle, Whole
<1>2. v \in Asking /\ v.at = "begun" /\ v.inFlight /\ v.answer = "none"
  BY <1>1 DEF Asking
<1>3. conn' = [conn EXCEPT ![c] = v]
  OBVIOUS
<1> HIDE DEF v
<1>4. /\ conn'[c] = v /\ \A d \in Conns : d # c => conn'[d] = conn[d]
      /\ conn' \in [Conns -> {Idle} \cup Asking]
  BY <1>2, <1>3 DEF ConnsOK
<1>5. \A i \in 1..Len(oks) : conn'[oks[i]].inFlight /\ conn'[oks[i]].answer # "none"
  <2> SUFFICES ASSUME NEW i \in 1..Len(oks)
               PROVE  conn'[oks[i]].inFlight /\ conn'[oks[i]].answer # "none"
    OBVIOUS
  <2>1. oks[i] \in Conns /\ conn[oks[i]].inFlight /\ conn[oks[i]].answer # "none"
    BY DEF ConnsOK
  <2> QED BY <1>1, <1>4, <2>1
<1> QED BY <1>2, <1>4, <1>5 DEF ConnsOK, Doing

\* The thread goes on with its connection, which no answer has changed.
LEMMA HttpConns ==
    ASSUME ConnsOK, NEW c \in Conns, Http(c) PROVE ConnsOK'
<1> DEFINE x == conn[c]
<1>1. CASE Asks(c)
  <2>1. PICK r \in Requests :
          conn' = [conn EXCEPT ![c] = [at |-> "asked", inFlight |-> FALSE, answer |-> "none",
                                       request |-> r, body |-> r.method = "POST"]]
    BY <1>1 DEF Asks
  <2> DEFINE v == [at |-> "asked", inFlight |-> FALSE, answer |-> "none",
                   request |-> r, body |-> r.method = "POST"]
  <2>2. RecordOK(v)
    BY DEF RecordOK, Asking, Answers
  <2>3. conn[c].at = "none" /\ UNCHANGED <<up, web, oks>>
    BY <1>1 DEF Asks
  <2>4. ~conn[c].inFlight /\ (web.at # "wait" => web.conn # c)
    BY <2>3 DEF ConnsOK, Asking, Idle
  <2> HIDE DEF v
  <2>5. conn' = [conn EXCEPT ![c] = v]
    BY <2>1 DEF v
  <2> QED BY <2>2, <2>3, <2>4, <2>5, ConnChanges
<1>2. CASE Calls(c) \/ ClientGone(c)
  <2>1. web.at = "wait" /\ x.at \in {"asked", "begun"} /\ UNCHANGED <<up, oks>>
    BY <1>2 DEF Calls, FirstCall, ProcessPostData, Dispatch, Dispatches, Refuse, RequestCompleted,
                ClientGone, Waits
  <2>2. /\ x \in Asking
        /\ x = [at |-> x.at, inFlight |-> x.inFlight, answer |-> x.answer,
                request |-> x.request, body |-> x.body]
        /\ x.at = "asked" => x.answer = "none" /\ ~x.inFlight
        /\ x.at = "begun" /\ ~x.inFlight /\ x.request.method \in {"GET", "POST"}
             => x.answer = "none"
    BY <2>1 DEF ConnsOK, Asking, Idle
  <2>3. CASE UNCHANGED web
    <3>1. \E v : /\ conn' = [conn EXCEPT ![c] = v]
                 /\ RecordOK(v)
                 /\ x.inFlight /\ x.answer # "none" => v.inFlight /\ v.answer # "none"
      <4>1. CASE FirstCall(c)
        <5>1. CASE conn' = [conn EXCEPT ![c].at = "begun"]
          <6>1. RecordOK([x EXCEPT !.at = "begun"])
            BY <2>2, <4>1 DEF RecordOK, Asking, FirstCall
          <6>2. ~x.inFlight /\ conn' = [conn EXCEPT ![c] = [x EXCEPT !.at = "begun"]]
            BY <2>2, <4>1, <5>1 DEF FirstCall
          <6> QED BY <6>1, <6>2
        <5>2. CASE conn' = [conn EXCEPT ![c].at = "done", ![c].answer = "closed"]
          <6>1. RecordOK([x EXCEPT !.at = "done", !.answer = "closed"])
            BY <2>2 DEF RecordOK, Asking, Answers
          <6>2. ~x.inFlight
            BY <2>2, <4>1 DEF FirstCall
          <6> QED BY <5>2, <6>1, <6>2
        <5> QED BY <4>1, <5>1, <5>2 DEF FirstCall
      <4>2. CASE ProcessPostData(c)
        <5>1. RecordOK([x EXCEPT !.body = FALSE]) /\ ~x.inFlight
          BY <2>2, <4>2 DEF RecordOK, Asking, ProcessPostData
        <5>2. conn' = [conn EXCEPT ![c] = [x EXCEPT !.body = FALSE]]
          BY <4>2 DEF ProcessPostData
        <5> QED BY <5>1, <5>2
      <4>3. CASE Dispatch(c)
        <5> DEFINE v == [x EXCEPT !.inFlight = TRUE, !.answer = "404"]
        <5>1. Dispatches(c) /\ ~x.inFlight
          BY <4>3 DEF Dispatch
        <5>2. conn' = [conn EXCEPT ![c].inFlight = TRUE, ![c].answer = "404"]
          <6>1. ~Doing("run", c)
            BY <2>1, <2>3 DEF Doing
          <6> QED BY <5>1, <6>1 DEF Dispatches
        <5>3. RecordOK(v)
          BY <2>1, <2>2, <4>3 DEF RecordOK, Asking, Answers, Dispatch
        <5>4. conn' = [conn EXCEPT ![c] = v]
          BY <5>2
        <5> QED BY <5>1, <5>3, <5>4
      <4>4. CASE Refuse(c)
        <5>1. RecordOK([x EXCEPT !.answer = "closed"]) /\ ~x.inFlight
          BY <2>2, <4>4 DEF RecordOK, Asking, Answers, Refuse
        <5>2. conn' = [conn EXCEPT ![c] = [x EXCEPT !.answer = "closed"]]
          BY <4>4 DEF Refuse, Answer
        <5> QED BY <5>1, <5>2
      <4>5. CASE RequestCompleted(c)
        <5>1. RecordOK([x EXCEPT !.at = "done"])
          BY <2>2 DEF RecordOK, Asking
        <5>2. conn' = [conn EXCEPT ![c] = [x EXCEPT !.at = "done"]]
          BY <4>5 DEF RequestCompleted
        <5>3. [x EXCEPT !.at = "done"].inFlight = x.inFlight
              /\ [x EXCEPT !.at = "done"].answer = x.answer
          BY <2>2
        <5> QED BY <5>1, <5>2, <5>3
      <4>6. CASE ClientGone(c)
        <5>1. RecordOK([x EXCEPT !.at = "done", !.answer = "closed"])
          BY <2>2 DEF RecordOK, Asking, Answers
        <5>2. conn' = [conn EXCEPT ![c] = [x EXCEPT !.at = "done", !.answer = "closed"]]
          BY <4>6 DEF ClientGone
        <5>3. x.answer = "none"
          BY <4>6 DEF ClientGone
        <5> QED BY <5>1, <5>2, <5>3
      <4> QED BY <1>2, <4>1, <4>2, <4>3, <4>4, <4>5, <4>6 DEF Calls
    <3> QED BY <2>1, <2>3, <3>1, ConnChanges
  <2>4. CASE web' # web
    <3>1. Dispatch(c)
      BY <1>2, <2>4 DEF Calls, FirstCall, ProcessPostData, Refuse, RequestCompleted, ClientGone
    <3>2. /\ Whole(c) /\ Waits /\ ~x.inFlight /\ x.at = "begun"
          /\ conn' = [conn EXCEPT ![c].inFlight = TRUE] /\ Doing("run", c)
      BY <2>4, <3>1 DEF Dispatch, Dispatches
    <3> QED BY <2>1, <3>2, BeginConns
  <2> QED BY <2>3, <2>4
<1> QED BY <1>1, <1>2 DEF Http

\* The thread answers, and waits.
LEMMA AnswerConns ==
    ASSUME ConnsOK, web.at # "wait", NEW a \in Answers \ {"none"}, Answer(web.conn, a),
           Doing("wait", 0), UNCHANGED up,
           UNCHANGED oks \/ (oks' = Append(oks, web.conn) /\ up)
    PROVE  ConnsOK'
<1> DEFINE c == web.conn
           v == [conn[c] EXCEPT !.answer = a]
<1>1. c \in Conns /\ conn[c].at = "begun" /\ conn[c].inFlight /\ conn[c].answer = "none"
  BY DEF ConnsOK
<1>2. conn[c] \in Asking
  BY <1>1 DEF ConnsOK, Idle
<1>3. v \in Asking /\ v.at = "begun" /\ v.inFlight /\ v.answer = a
  BY <1>1, <1>2 DEF Asking
<1>4. conn' = [conn EXCEPT ![c] = v] /\ web' = [at |-> "wait", conn |-> 0]
  BY DEF Answer, Doing
<1> HIDE DEF v, c
<1>5. /\ conn'[c] = v /\ \A d \in Conns : d # c => conn'[d] = conn[d]
      /\ conn' \in [Conns -> {Idle} \cup Asking]
  BY <1>1, <1>3, <1>4 DEF ConnsOK
<1>6. /\ \A i \in 1..Len(oks) : oks[i] \in Conns /\ oks[i] # c
      /\ \A i \in 1..Len(oks) : conn'[oks[i]].inFlight /\ conn'[oks[i]].answer # "none"
  <2> SUFFICES ASSUME NEW i \in 1..Len(oks)
               PROVE  /\ oks[i] \in Conns /\ oks[i] # c
                      /\ conn'[oks[i]].inFlight /\ conn'[oks[i]].answer # "none"
    OBVIOUS
  <2>1. oks[i] \in Conns /\ conn[oks[i]].inFlight /\ conn[oks[i]].answer # "none"
    BY DEF ConnsOK
  <2> QED BY <1>1, <1>5, <2>1
<1>7. /\ oks' \in Seq(Conns)
      /\ \A i \in 1..Len(oks') : conn'[oks'[i]].inFlight /\ conn'[oks'[i]].answer # "none"
      /\ \A i, j \in 1..Len(oks') : oks'[i] = oks'[j] => i = j
      /\ oks' # <<>> => up
  <2>1. CASE UNCHANGED oks
    BY <1>6, <2>1 DEF ConnsOK
  <2>2. CASE oks' = Append(oks, c) /\ up
    <3>1. oks' \in Seq(Conns) /\ Len(oks') = Len(oks) + 1 /\ Len(oks) \in Nat
          /\ \A i \in 1..Len(oks') : oks'[i] = IF i <= Len(oks) THEN oks[i] ELSE c
      BY <1>1, <2>2 DEF ConnsOK
    <3>2. \A i, j \in 1..Len(oks) : oks[i] = oks[j] => i = j
      BY DEF ConnsOK
    <3> QED BY <1>3, <1>5, <1>6, <2>2, <3>1, <3>2
  <2> QED BY <2>1, <2>2 DEF c
<1>8. \A d \in Conns :
        /\ conn'[d].at = "asked" => conn'[d].answer = "none" /\ ~conn'[d].inFlight
        /\ conn'[d].at = "begun" /\ ~conn'[d].inFlight /\ conn'[d].request.method \in {"GET", "POST"}
             => conn'[d].answer = "none"
  BY <1>1, <1>3, <1>5 DEF ConnsOK
<1> QED BY <1>4, <1>5, <1>7, <1>8 DEF ConnsOK

LEMMA WebConns ==
    ASSUME ServesLate, ConnsOK, WebThread PROVE ConnsOK'
<1>1. CASE GenericLogs
  BY <1>1 DEF GenericLogs, Doing, ConnsOK, Request
<1>2. CASE CallSendCmd
  BY <1>2 DEF CallSendCmd, Doing, ConnsOK, Request
<1>3. CASE Generic
  BY <1>3 DEF Generic, Doing, ConnsOK, Request
<1>4. CASE Information \/ Missing \/ Reply
  <2>1. web.at # "wait" /\ Doing("wait", 0) /\ UNCHANGED up
    BY <1>4 DEF Information, Missing, Reply
  <2>2. \/ \E a \in {"info", "ko"} : Answer(web.conn, a) /\ UNCHANGED oks
        \/ Answer(web.conn, "ok") /\ oks' = Append(oks, web.conn)
    BY <1>4 DEF Information, Missing, Reply
  <2>3. up
    BY <2>1 DEF ServesLate
  <2>4. {"info", "ko", "ok"} \subseteq Answers \ {"none"}
    BY DEF Answers
  <2> QED BY <2>1, <2>2, <2>3, <2>4, AnswerConns
<1>5. CASE UNCHANGED webVars
  BY <1>5 DEF webVars, ConnsOK, Request
<1>6. ASSUME NEW c \in Conns, OnlyWeb(Http(c)) PROVE ConnsOK'
  BY <1>6, HttpConns DEF OnlyWeb
<1>7. CASE RequestDies
  <2>1. ASSUME NEW c \in Conns, DispatchDies(c) PROVE ConnsOK'
    BY <2>1, BeginConns DEF DispatchDies
  <2> QED BY <1>5, <1>7, <2>1, RequestDeath
<1> QED BY <1>1, <1>2, <1>3, <1>4, <1>5, <1>6, <1>7 DEF WebThread, Handler

LEMMA StepConns == ServesLate /\ ConnsOK /\ [Next]_vars => ConnsOK'
<1> SUFFICES ASSUME ServesLate, ConnsOK, [Next]_vars PROVE ConnsOK'
  OBVIOUS
<1>1. CASE SetUp
  <2>1. UNCHANGED up \/ main = "server"
    BY <1>1 DEF SetUp, ManagerSetUp, StartServer, webVars
  <2>2. main = "server" => oks = <<>>
    BY DEF ServesLate, Serving, ConnsOK
  <2> QED BY <1>1, <2>1, <2>2, SetUpLeaves DEF ConnsOK, Request
<1>2. CASE WebThread
  BY <1>2, WebConns
<1>3. CASE IhmWarns \/ LogThread \/ UNCHANGED vars
  BY <1>3, OthersLeave DEF ConnsOK, Request
<1> QED BY <1>1, <1>2, <1>3 DEF Next

-----------------------------------------------------------------------------
(* The commands that are given                                             *)

\* The commands a request can ask for.
Frames == {FrameOf(r, c) : r \in {q \in Requests : ActionOf(q) \in Commands}, c \in Conns}

\* SendCmd is in the thread's hands, and goes through the protocols.
CommandOK ==
    /\ handed \in Seq(ProtocolNames \X Frames)
    /\ command # NoCommand =>
         /\ web.at = "sending"
         /\ command = [frame |-> command.frame, next |-> command.next]
         /\ command.frame \in Frames /\ command.frame.by = web.conn
         /\ command.next \in 1..(Len(protocols) + 1)

\* While the server is down, nobody was answered and nothing was given.
LEMMA NothingBefore ==
    ASSUME ServesLate, ConnsOK, ~up
    PROVE  oks = <<>> /\ handed = <<>> /\ command = NoCommand /\ web.at = "wait"
BY DEF ServesLate, ConnsOK

LEMMA InitCommand == Init => CommandOK
<1>1. <<>> \in Seq(ProtocolNames \X Frames)
  OBVIOUS
<1> QED BY <1>1 DEF Init, ManagerInit, CommandOK

\* What the web thread does to the command, one of five things.
LEMMA WebCommands ==
    ASSUME WebThread
    PROVE  \/ /\ UNCHANGED <<command, handed, oks>>
              /\ web.at # "sending" /\ web'.at # "sending"
           \/ CallSendCmd
           \/ HandOn /\ UNCHANGED <<web, oks>>
           \/ Reply /\ UNCHANGED <<command, handed>>
           \/ UNCHANGED <<command, handed, oks, web>>
<1>0. CASE RequestDies
  BY <1>0, RequestDeath DEF DispatchDies, Waits, Doing, managerVars, webVars
<1>1. CASE Handler
  BY <1>0, <1>1 DEF Handler, GenericLogs, Information, Missing, Generic, Reply, Doing,
              managerVars, webVars
<1>2. ASSUME NEW c \in Conns, OnlyWeb(Http(c))
      PROVE  /\ UNCHANGED <<command, handed, oks>>
             /\ (web.at # "sending" /\ web'.at # "sending") \/ UNCHANGED web
  BY <1>2 DEF OnlyWeb, managerVars, Http, Calls, Asks, FirstCall, ProcessPostData, Dispatch,
              Dispatches, Refuse, RequestCompleted, ClientGone, Waits, Doing
<1> QED BY <1>1, <1>2 DEF WebThread

LEMMA HandOnCommand ==
    ASSUME LoadedOK, CommandOK, HandOn, UNCHANGED <<protocols, web>> PROVE CommandOK'
<1> USE DEF CommandOK
<1>1. command # NoCommand
  BY DEF HandOn
<1>2. CASE command.next <= Len(protocols)
  <2>1. /\ handed' = Append(handed, <<protocols[command.next], command.frame>>)
        /\ command' = [command EXCEPT !.next = @ + 1]
    BY <1>2 DEF HandOn
  <2>2. protocols[command.next] \in ProtocolNames
    BY <1>1, <1>2 DEF LoadedOK
  <2>3. <<protocols[command.next], command.frame>> \in ProtocolNames \X Frames
    BY <1>1, <2>2
  <2>4. handed' \in Seq(ProtocolNames \X Frames)
    BY <2>1, <2>3
  <2>5. command' = [frame |-> command.frame, next |-> command.next + 1]
    BY <1>1, <2>1
  <2>6. command.next + 1 \in 1..(Len(protocols) + 1)
    BY <1>1, <1>2 DEF LoadedOK
  <2> QED BY <1>1, <2>4, <2>5, <2>6
<1>3. CASE ~(command.next <= Len(protocols))
  BY <1>3 DEF HandOn
<1> QED BY <1>2, <1>3

LEMMA SendCmdCommand ==
    ASSUME ConnsOK, LoadedOK, CommandOK, CallSendCmd, UNCHANGED protocols
    PROVE  CommandOK' /\ command' = [frame |-> FrameOf(Request, web.conn), next |-> 1]
<1>1. /\ command' = [frame |-> FrameOf(Request, web.conn), next |-> 1]
      /\ web' = [at |-> "sending", conn |-> web.conn] /\ UNCHANGED handed
      /\ web.at = "sendCmd"
  BY DEF CallSendCmd, SendCmd, Doing
<1>2. Request \in Requests /\ ActionOf(Request) \in Commands /\ web.conn \in Conns
  BY <1>1 DEF ConnsOK, Request, Idle, Asking
<1>3. FrameOf(Request, web.conn) \in Frames /\ FrameOf(Request, web.conn).by = web.conn
  BY <1>2 DEF Frames, FrameOf
<1>4. Len(protocols) \in Nat
  BY DEF LoadedOK
<1> QED BY <1>1, <1>3, <1>4 DEF CommandOK

LEMMA StepCommand ==
    ServesLate /\ LoadedOK /\ ConnsOK /\ CommandOK /\ [Next]_vars => CommandOK'
<1> SUFFICES ASSUME ServesLate, LoadedOK, ConnsOK, CommandOK, [Next]_vars PROVE CommandOK'
  OBVIOUS
<1>1. CASE SetUp
  <2>1. UNCHANGED <<web, command, handed>>
    BY <1>1, SetUpLeaves
  <2>2. UNCHANGED protocols \/ main \in {"list", "load"}
    BY <1>1, SetUpLeaves DEF LoadPlugins, ListPlugins, LoadPlugin, Loaded
  <2>3. main \in {"list", "load"} => command = NoCommand
    BY DEF ServesLate, Serving
  <2> QED BY <2>1, <2>2, <2>3 DEF CommandOK
<1>2. CASE WebThread
  <2>1. UNCHANGED protocols
    BY <1>2, WebLeaves
  <2>2. CASE CallSendCmd
    BY <2>1, <2>2, SendCmdCommand
  <2>3. CASE HandOn /\ UNCHANGED web
    BY <2>1, <2>3, HandOnCommand
  <2>4. CASE Reply /\ UNCHANGED <<command, handed>>
    BY <2>1, <2>4 DEF Reply, CommandOK
  <2>5. CASE UNCHANGED <<command, handed, web>>
    BY <2>1, <2>5 DEF CommandOK
  <2>6. CASE UNCHANGED <<command, handed>> /\ web.at # "sending" /\ web'.at # "sending"
    BY <2>1, <2>6 DEF CommandOK
  <2> QED BY <1>2, WebCommands, <2>2, <2>3, <2>4, <2>5, <2>6
<1>3. CASE IhmWarns \/ LogThread \/ UNCHANGED vars
  BY <1>3, OthersLeave DEF CommandOK
<1> QED BY <1>1, <1>2, <1>3 DEF Next

-----------------------------------------------------------------------------
(* What the process dies of                                                *)

\* Only a request for a node gets as far as Run, and a process that serves dies with
\* the thread at work, in a request no code is there for or in a command that no
\* protocols can be found for.
DeathOK ==
    /\ web.at = "run" => ForNode(Request)
    /\ up /\ main = "dead" =>
         /\ web.at # "wait"
         /\ Unforeseen(Request) \/ (~hasProtocols /\ command # NoCommand /\ Incomplete)

LEMMA InitDeath == Init => DeathOK
BY DEF Init, KernelInit, WebInit, DeathOK

\* Connections that ask leave the one that is served alone.
LEMMA HttpServed ==
    ASSUME ConnsOK, NEW c \in Conns, Http(c), web.at # "wait"
    PROVE  web' = web /\ conn'[web.conn] = conn[web.conn]
<1>1. Asks(c)
  BY DEF Http, Calls, FirstCall, ProcessPostData, Dispatch, Refuse, RequestCompleted, ClientGone,
         Waits
<1>2. web' = web /\ c # web.conn /\ web.conn \in Conns
  BY <1>1 DEF Asks, ConnsOK
<1>3. PICK v : conn' = [conn EXCEPT ![c] = v]
  BY <1>1 DEF Asks
<1> QED BY <1>2, <1>3 DEF ConnsOK

\* A connection that is begun keeps its request when it is dispatched.
LEMMA DispatchKeeps ==
    ASSUME ConnsOK, NEW c \in Conns, conn[c].at = "begun",
           conn' = [conn EXCEPT ![c].inFlight = TRUE]
    PROVE  conn'[c].request = conn[c].request
<1>1. conn[c] \in Asking
  BY DEF ConnsOK, Idle
<1>2. conn'[c] = [conn[c] EXCEPT !.inFlight = TRUE]
  BY DEF ConnsOK
<1> QED BY <1>1, <1>2 DEF Asking

LEMMA WebDeath ==
    ASSUME ServesLate, ConnsOK, CommandOK, DeathOK, Alive, WebThread PROVE DeathOK'
<1> USE DEF Alive
<1>1. CASE RequestDies
  <2>1. CASE \E c \in Conns : DispatchDies(c)
    <3>1. PICK c \in Conns : DispatchDies(c)
      BY <2>1
    <3>2. conn[c].at = "begun" /\ conn' = [conn EXCEPT ![c].inFlight = TRUE]
          /\ web' = [at |-> "dispatch", conn |-> c] /\ Nameless(conn[c].request)
      BY <3>1 DEF DispatchDies, Doing
    <3>3. Request' = conn[c].request
      BY <3>2, DispatchKeeps DEF Request
    <3> QED BY <3>2, <3>3 DEF DeathOK, Unforeseen
  <2>2. CASE UNCHANGED webVars
    <3>1. Request' = Request /\ web' = web /\ UNCHANGED <<managerVars, absent>>
      BY <1>1, <2>2, RequestDeath, WebLeaves DEF webVars, Request
    <3>2. CASE web.at = "sendCmd" /\ Request.to \notin NodeIds
      BY <3>1, <3>2 DEF DeathOK, Unforeseen
    <3>3. CASE HandOnNowhere
      <4>1. command # NoCommand /\ ~hasProtocols
        BY <3>3 DEF HandOnNowhere
      <4>2. web.at = "sending"
        BY <4>1 DEF CommandOK
      <4>3. Incomplete
        BY <4>1 DEF ServesLate, Serving, TableRead
      <4> QED BY <3>1, <4>1, <4>2, <4>3 DEF DeathOK, managerVars, Incomplete
    <3>4. CASE web.at = "run" /\ NoAction(Request)
      BY <3>1, <3>4 DEF DeathOK, Unforeseen
    <3>5. CASE \E c \in Conns : DispatchDies(c)
      BY <2>1, <3>5
    <3> QED BY <1>1, <3>2, <3>3, <3>4, <3>5, RequestDeath
  <2> QED BY <1>1, <2>1, <2>2, RequestDeath
<1>2. CASE Handler /\ ~RequestDies
  <2>1. main' # "dead" /\ (web'.at # "run" \/ UNCHANGED webVars)
    BY <1>2 DEF Handler, GenericLogs, CallSendCmd, SendCmd, Information, Missing, Generic, Reply,
                HandOn, Doing, kernelVars, managerVars
  <2> QED BY <2>1 DEF DeathOK, webVars, Request
<1>3. ASSUME NEW c \in Conns, OnlyWeb(Http(c)) PROVE DeathOK'
  <2>1. main' # "dead"
    BY <1>3 DEF OnlyWeb, kernelVars
  <2>2. CASE web.at # "wait"
    <3>1. web' = web /\ conn'[web.conn] = conn[web.conn]
      BY <1>3, <2>2, HttpServed DEF OnlyWeb
    <3> QED BY <2>1, <3>1 DEF DeathOK, Request
  <2>3. CASE web.at = "wait" /\ web' # web
    <3>1. Dispatch(c)
      BY <1>3, <2>3 DEF OnlyWeb, Http, Asks, Calls, FirstCall, ProcessPostData, Refuse,
                        RequestCompleted, ClientGone
    <3>2. conn[c].at = "begun" /\ conn' = [conn EXCEPT ![c].inFlight = TRUE]
          /\ web' = [at |-> "run", conn |-> c] /\ ForNode(conn[c].request)
      BY <2>3, <3>1 DEF Dispatch, Dispatches, Doing
    <3>3. Request' = conn[c].request
      BY <3>2, DispatchKeeps DEF Request
    <3> QED BY <2>1, <3>2, <3>3 DEF DeathOK
  <2>4. CASE web.at = "wait" /\ web' = web
    BY <2>1, <2>4 DEF DeathOK
  <2> QED BY <2>2, <2>3, <2>4
<1> QED BY <1>1, <1>2, <1>3 DEF WebThread

LEMMA StepDeath ==
    ServesLate /\ ConnsOK /\ CommandOK /\ DeathOK /\ [Next]_vars => DeathOK'
<1> SUFFICES ASSUME ServesLate, ConnsOK, CommandOK, DeathOK, [Next]_vars PROVE DeathOK'
  OBVIOUS
<1>1. CASE Alive /\ SetUp
  <2>1. UNCHANGED <<conn, web>>
    BY <1>1, SetUpLeaves
  <2>2. main' = "dead" => ~up'
    <3>1. ASSUME main' = "dead" PROVE main \in Before \cup {"protocols", "features", "port"} /\ up' = up
      BY <1>1, <3>1 DEF Alive, SetUp, Parse, StderrLevel, Goes, InitRestLog, InitPlugins, Port,
           RunServer, Start, LoadPlugins, ListPlugins, LoadPlugin, Loaded, InitProtocols,
           InitFeatures, InitProtocol, ProtocolsDone, InitFeature, FeaturesDone, StartServer,
           ManagerSetUp, InitFailed, ReadNumber, ReadEntry, SetNode, EntryDone, InitDone, InMain,
           Before, webVars
    <3> QED BY <3>1 DEF ServesLate, Serving, Before
  <2> QED BY <2>1, <2>2 DEF DeathOK, Request
<1>2. CASE Alive /\ WebThread
  BY <1>2, WebDeath
<1>3. CASE IhmWarns \/ LogThread \/ UNCHANGED vars
  BY <1>3, OthersLeave DEF DeathOK, Request, Incomplete
<1> QED BY <1>1, <1>2, <1>3 DEF Next

-----------------------------------------------------------------------------
(* The type invariant                                                      *)

\* The first part of a sequence is a prefix of it.
LEMMA PrefixOf ==
    ASSUME NEW X, NEW Y, NEW s \in Seq(X), NEW t \in Seq(Y), Len(s) <= Len(t),
           \A i \in 1..Len(s) : s[i] = t[i]
    PROVE  IsPrefix(s, t)
<1>1. SubSeq(s, 1, Len(s)) = [i \in 1..Len(s) |-> s[i]]
  OBVIOUS
<1>2. SubSeq(t, 1, Len(s)) = [i \in 1..Len(s) |-> t[i]]
  OBVIOUS
<1> QED BY <1>1, <1>2 DEF IsPrefix

MasterInv ==
    /\ Places /\ StartedInOrder /\ ServesLate /\ LoadedOK /\ ConnsOK /\ CommandOK /\ DeathOK

LEMMA MasterInvHolds == Spec => []MasterInv
<1>1. Init => MasterInv
  BY InitPlaces, InitServes, InitLoaded, InitConns, InitCommand, InitDeath DEF MasterInv
<1>2. MasterInv /\ [Next]_vars => MasterInv'
  BY StepPlaces, StepServes, StepLoaded, StepConns, StepCommand, StepDeath DEF MasterInv
<1> QED BY <1>1, <1>2, PTL DEF Spec

\* No command reaches a protocol before every protocol runs, the features are set up
\* and the table of the nodes is done; a process that serves dies only of the request
\* in its hands, one that the code does not foresee (a URL of slashes only, a node
\* without an action, a target outside the table) or a command when the settings of the
\* nodes were incomplete: for any plugins, settings and traffic.
THEOREM ServesWhenSetUp == Spec => []ServedWhenSetUp
<1>1. MasterInv => ServedWhenSetUp
  BY DEF MasterInv, ServesLate, DeathOK, ServedWhenSetUp, Serving, Incomplete, Alive
<1> QED BY <1>1, MasterInvHolds, PTL

LEMMA TypeFollowsMaster == RestLogTypeOK /\ MasterInv => TypeOK
<1> SUFFICES ASSUME RestLogTypeOK, MasterInv PROVE TypeOK
  OBVIOUS
<1> USE DEF MasterInv
<1>1. KernelTypeOK
  <2>1. ASSUME NEW X, NEW s \in Seq(X) PROVE Range(s) \subseteq X
    BY DEF Range
  <2>2. /\ Range(listed) \subseteq Files /\ Range(nodes) \subseteq NodeNames
        /\ Range(protocols) \subseteq ProtocolNames /\ Range(features) \subseteq FeatureNames
    BY <2>1 DEF StartedInOrder, LoadedOK
  <2> QED BY <2>2 DEF KernelTypeOK, LoadedOK, NodeNames, ProtocolNames, FeatureNames
<1>2. \A k \in DOMAIN handed : handed[k][2].to \in 0..255 /\ handed[k][2].cmd \in Commands
  <2>1. ASSUME NEW f \in Frames PROVE f.to \in 0..255 /\ f.cmd \in Commands
    <3>1. PICK r \in Requests, c \in Conns : ActionOf(r) \in Commands /\ f = FrameOf(r, c)
      BY DEF Frames
    <3>2. r.to \in Int
      BY RequestsAssumption
    <3>3. (r.to % 256) \in 0..255
      BY <3>2
    <3> QED BY <3>1, <3>3 DEF FrameOf
  <2>2. \A k \in DOMAIN handed : handed[k][2] \in Frames
    BY DEF CommandOK
  <2> QED BY <2>1, <2>2
<1>3. IsPrefix(started, protocols) /\ IsPrefix(ready, features)
  BY PrefixOf DEF StartedInOrder, LoadedOK
<1>4. /\ command # NoCommand => web.at = "sending"
      /\ web.at # "wait" => conn[web.conn].at = "begun" /\ conn[web.conn].inFlight
  BY DEF CommandOK, ConnsOK
<1>5. table \in [NodeIds -> {NoPlugin} \cup Range(nodes)] /\ entry \in 1..(Len(Entries) + 1)
  BY DEF LoadedOK, Places
<1> QED BY <1>1, <1>2, <1>3, <1>4, <1>5 DEF TypeOK

\* The type invariant of the process: what is loaded is what the files register, the
\* protocols and features that run are the first of those, a node has a plugin that is
\* loaded, a command that is given is one of the four for an address, and the web
\* thread serves only a connection that has begun and was not answered.
THEOREM MasterTypeCorrect == Spec => []TypeOK
BY MasterLogsAsRestLog, RestLogTypeCorrect, MasterInvHolds, TypeFollowsMaster, PTL
-----------------------------------------------------------------------------
(* Every protocol has a command once for each answer                       *)

\* No protocol is loaded twice.
Distinct ==
    /\ main \in Before \ {"load"} => protocols = <<>>
    /\ \A i, j \in 1..Len(listed) : listed[i] = listed[j] => i = j
    /\ \A i, j \in 1..Len(protocols) : protocols[i] = protocols[j] => i = j
    /\ \A k \in 1..Len(listed), i \in 1..Len(protocols) :
         protocols[i] \notin Range(Registers[listed[k]].protocols)

LEMMA InitDistinct == Init => Distinct
<1>1. Len(<<>>) = 0
  OBVIOUS
<1> QED BY <1>1 DEF Init, KernelInit, Distinct

LEMMA ListDistinct ==
    ASSUME NEW l \in SetToSeqs(Files) PROVE \A i, j \in 1..Len(l) : l[i] = l[j] => i = j
<1>1. Cardinality(Files) \in Nat
  BY KernelAssumption, FS_CardinalityType
<1> QED BY <1>1 DEF SetToSeqs

\* What is left of a sequence when its first element is taken.
LEMMA Taken ==
    ASSUME NEW X, NEW s \in Seq(X), s # <<>>
    PROVE  /\ Head(s) \in X /\ Head(s) = s[1]
           /\ Len(Tail(s)) = Len(s) - 1 /\ Len(s) \in Nat \ {0}
           /\ \A i \in 1..Len(Tail(s)) : Tail(s)[i] = s[i + 1] /\ i + 1 \in 1..Len(s)
OBVIOUS

LEMMA LoadDistinct ==
    ASSUME StartedInOrder, LoadedOK, Distinct, LoadPlugin PROVE Distinct'
<1> USE DEF LoadPlugin
<1>1. CASE Present(<<"plugin", Head(listed)>>)
  <2> DEFINE f == Head(listed)
             new == Registers[f].protocols
  <2>1. listed \in Seq(Files) /\ listed # <<>> /\ protocols \in Seq(ProtocolNames)
    BY DEF StartedInOrder, LoadedOK
  <2>2. /\ f \in Files /\ f = listed[1] /\ listed' = Tail(listed)
        /\ Len(listed') = Len(listed) - 1 /\ Len(listed) \in Nat \ {0}
        /\ \A i \in 1..Len(listed') : listed'[i] = listed[i + 1] /\ i + 1 \in 1..Len(listed)
    <3>1. listed' = Tail(listed)
      BY <1>1
    <3> HIDE DEF LoadPlugin
    <3> QED BY <2>1, <3>1, Taken
  <2>3. new \in Seq(ProtocolNames) /\ protocols' = protocols \o new
    <3>1. protocols' = protocols \o Registers[Head(listed)].protocols
      BY <1>1
    <3> QED BY <2>2, <3>1, RegisteredNames
  <2>0. /\ \A i, j \in 1..Len(listed) : listed[i] = listed[j] => i = j
        /\ \A i, j \in 1..Len(protocols) : protocols[i] = protocols[j] => i = j
        /\ \A k \in 1..Len(listed), i \in 1..Len(protocols) :
             protocols[i] \notin Range(Registers[listed[k]].protocols)
        /\ new = Registers[f].protocols
    BY DEF Distinct
  <2> HIDE DEF f, new, LoadPlugin
  <2>4. \A i, j \in 1..Len(new) : new[i] = new[j] => i = j
    <3>1. IsInjective(new) /\ DOMAIN new = 1..Len(new)
      BY <2>0, <2>2, <2>3, NamesAssumption
    <3> QED BY <3>1 DEF IsInjective
  <2>5. \A i \in 1..Len(protocols) : protocols[i] \notin Range(new)
    <3>1. 1 \in 1..Len(listed)
      BY <2>2
    <3> QED BY <2>0, <2>2, <3>1
  <2>6. \A k \in 1..Len(listed') :
          /\ listed'[k] \in Files /\ listed'[k] # f
          /\ Range(Registers[listed'[k]].protocols) \cap Range(new) = {}
    <3> SUFFICES ASSUME NEW k \in 1..Len(listed')
                 PROVE  /\ listed'[k] \in Files /\ listed'[k] # f
                        /\ Range(Registers[listed'[k]].protocols) \cap Range(new) = {}
      OBVIOUS
    <3>1. listed'[k] = listed[k + 1] /\ k + 1 \in 1..Len(listed) /\ 1 \in 1..Len(listed) /\ k + 1 # 1
      BY <2>2
    <3>2. listed'[k] # f
      BY <2>0, <2>2, <3>1
    <3>3. listed[k + 1] \in Files
      BY <2>1, <3>1
    <3>4. \A g \in Files : Range(Registers[f].protocols) \cap Range(Registers[g].protocols) # {} => f = g
      BY <2>2, NamesAssumption
    <3> QED BY <2>0, <3>1, <3>2, <3>3, <3>4
  <2>7. \A i \in 1..Len(new) : new[i] \in Range(new)
    BY <2>3 DEF Range
  <2>8. /\ Len(protocols') = Len(protocols) + Len(new)
        /\ Len(protocols) \in Nat /\ Len(new) \in Nat
        /\ \A i \in 1..Len(protocols') :
              protocols'[i] = IF i <= Len(protocols) THEN protocols[i] ELSE new[i - Len(protocols)]
    BY <2>1, <2>3
  <2>9. \A i, j \in 1..Len(protocols') : protocols'[i] = protocols'[j] => i = j
    <3> SUFFICES ASSUME NEW i \in 1..Len(protocols'), NEW j \in 1..Len(protocols'),
                        protocols'[i] = protocols'[j]
                 PROVE  i = j
      OBVIOUS
    <3> DEFINE n == Len(protocols)
    <3>1. CASE i <= n /\ j <= n
      <4>1. protocols[i] = protocols[j] /\ i \in 1..n /\ j \in 1..n
        BY <2>8, <3>1
      <4> QED BY <2>0, <4>1
    <3>2. CASE i > n /\ j > n
      <4>1. i - n \in 1..Len(new) /\ j - n \in 1..Len(new) /\ new[i - n] = new[j - n]
        BY <2>8, <3>2
      <4> QED BY <2>4, <2>8, <4>1
    <3>3. CASE i <= n /\ j > n
      <4>1. j - n \in 1..Len(new) /\ protocols[i] = new[j - n] /\ i \in 1..n
        BY <2>8, <3>3
      <4> QED BY <2>5, <2>7, <4>1
    <3>4. CASE i > n /\ j <= n
      <4>1. i - n \in 1..Len(new) /\ protocols[j] = new[i - n] /\ j \in 1..n
        BY <2>8, <3>4
      <4> QED BY <2>5, <2>7, <4>1
    <3> QED BY <2>8, <3>1, <3>2, <3>3, <3>4
  <2>10. \A k \in 1..Len(listed'), i \in 1..Len(protocols') :
           protocols'[i] \notin Range(Registers[listed'[k]].protocols)
    <3> SUFFICES ASSUME NEW k \in 1..Len(listed'), NEW i \in 1..Len(protocols')
                 PROVE  protocols'[i] \notin Range(Registers[listed'[k]].protocols)
      OBVIOUS
    <3>1. CASE i <= Len(protocols)
      <4>1. protocols'[i] = protocols[i] /\ i \in 1..Len(protocols)
            /\ listed'[k] = listed[k + 1] /\ k + 1 \in 1..Len(listed)
        BY <2>2, <2>8, <3>1
      <4> QED BY <2>0, <4>1
    <3>2. CASE i > Len(protocols)
      <4>1. protocols'[i] \in Range(new)
        BY <2>7, <2>8, <3>2
      <4> QED BY <2>6, <4>1
    <3> QED BY <2>8, <3>1, <3>2
  <2>11. \A i, j \in 1..Len(listed') : listed'[i] = listed'[j] => i = j
    <3> SUFFICES ASSUME NEW i \in 1..Len(listed'), NEW j \in 1..Len(listed'),
                        listed'[i] = listed'[j]
                 PROVE  i = j
      OBVIOUS
    <3>1. /\ listed'[i] = listed[i + 1] /\ i + 1 \in 1..Len(listed)
          /\ listed'[j] = listed[j + 1] /\ j + 1 \in 1..Len(listed)
      BY <2>2
    <3>2. i + 1 = j + 1
      BY <2>0, <3>1
    <3> QED BY <3>2
  <2>12. main' = "load"
    BY <1>1 DEF LoadPlugin
  <2> QED BY <2>9, <2>10, <2>11, <2>12 DEF Distinct
<1>2. CASE ~Present(<<"plugin", Head(listed)>>)
  BY <1>2 DEF Distinct, Before
<1> QED BY <1>1, <1>2

LEMMA StepDistinct ==
    StartedInOrder /\ LoadedOK /\ Distinct /\ [Next]_vars => Distinct'
<1> SUFFICES ASSUME StartedInOrder, LoadedOK, Distinct, [Next]_vars PROVE Distinct'
  OBVIOUS
<1> USE DEF Before
<1>1. CASE SetUp
  <2>1. CASE ListPlugins
    <3>1. protocols' = <<>> /\ main' = "load"
      BY <2>1 DEF ListPlugins, Distinct
    <3>2. listed' \in SetToSeqs(Files) \/ listed' = <<>>
      BY <2>1, Zenon DEF ListPlugins
    <3>3. \A i, j \in 1..Len(listed') : listed'[i] = listed'[j] => i = j
      <4>1. \A l \in SetToSeqs(Files) : \A i, j \in 1..Len(l) : l[i] = l[j] => i = j
        BY ListDistinct
      <4>2. \A i, j \in 1..Len(<<>>) : <<>>[i] = <<>>[j] => i = j
        OBVIOUS
      <4> QED BY <3>2, <4>1, <4>2, Zenon
    <3>4. 1..Len(protocols') = {}
      BY <3>1
    <3> QED BY <3>1, <3>3, <3>4 DEF Distinct
  <2>2. CASE LoadPlugin
    BY <2>2, LoadDistinct
  <2>3. CASE Loaded
    BY <2>3 DEF Loaded, Distinct
  <2>4. CASE ~LoadPlugins
    <3>1. UNCHANGED <<listed, protocols>>
      BY <1>1, <2>4, SetUpLeaves
    <3>2. main' \in Before \ {"load"} => main \in Before \ {"load"}
      BY <1>1, <2>4 DEF SetUp, Parse, StderrLevel, Goes, InitRestLog, InitPlugins, Port, RunServer,
           Start, InitProtocols, InitFeatures, InitProtocol, ProtocolsDone, InitFeature, FeaturesDone,
           StartServer, ManagerSetUp, InitFailed, ReadNumber, ReadEntry, SetNode, EntryDone,
           InitDone, InMain
    <3> QED BY <3>1, <3>2 DEF Distinct
  <2> QED BY <2>1, <2>2, <2>3, <2>4 DEF LoadPlugins
<1>2. CASE WebThread
  BY <1>2, WebLeaves DEF Distinct
<1>3. CASE IhmWarns \/ LogThread \/ UNCHANGED vars
  BY <1>3, OthersLeave DEF Distinct
<1> QED BY <1>1, <1>2, <1>3 DEF Next

\* Each protocol was given the commands that were answered, and in SendCmd the first
\* protocols have the command of the connection that is served besides.
Owed(i) ==
    IF web.at = "sending" /\ (command = NoCommand \/ i < command.next)
      THEN Append(oks, web.conn) ELSE oks

GivenOK == \A i \in 1..Len(protocols) : Given(handed, protocols[i], Len(handed)) = Owed(i)

LEMMA InitGiven == Init => GivenOK
<1>1. Len(<<>>) = 0
  OBVIOUS
<1> QED BY <1>1 DEF Init, KernelInit, GivenOK

LEMMA HandOnGiven ==
    ASSUME LoadedOK, CommandOK, Distinct, GivenOK, HandOn, UNCHANGED <<protocols, web, oks>>
    PROVE  GivenOK'
<1> DEFINE next == command.next
           x == <<protocols[next], command.frame>>
<1>1. /\ command # NoCommand /\ web.at = "sending" /\ command.frame \in Frames
      /\ command.frame.by = web.conn /\ next \in 1..(Len(protocols) + 1)
      /\ command = [frame |-> command.frame, next |-> next]
  BY DEF HandOn, CommandOK
<1>2. protocols \in Seq(ProtocolNames) /\ Len(protocols) \in Nat
  BY DEF LoadedOK
<1>3. CASE next <= Len(protocols)
  <2>1. handed' = Append(handed, x) /\ command' = [command EXCEPT !.next = @ + 1]
    BY <1>3 DEF HandOn
  <2>2. command' = [frame |-> command.frame, next |-> next + 1] /\ command' # NoCommand
    BY <1>1, <2>1 DEF NoCommand
  <2>3. handed \in Seq(ProtocolNames \X Frames) /\ x \in ProtocolNames \X Frames
        /\ x[1] = protocols[next] /\ x[2].by = web.conn
    BY <1>1, <1>2, <1>3 DEF CommandOK
  <2>4. Len(handed') = Len(handed) + 1
    BY <2>1, <2>3
  <2> HIDE DEF x
  <2>5. ASSUME NEW i \in 1..Len(protocols)
        PROVE  Given(handed', protocols[i], Len(handed')) =
                 IF i = next THEN Append(Given(handed, protocols[i], Len(handed)), web.conn)
                 ELSE Given(handed, protocols[i], Len(handed))
    <3>1. Given(Append(handed, x), protocols[i], Len(handed) + 1) =
            IF x[1] = protocols[i] THEN Append(Given(handed, protocols[i], Len(handed)), x[2].by)
            ELSE Given(handed, protocols[i], Len(handed))
      BY <2>3, GivenAppend
    <3>2. x[1] = protocols[i] <=> i = next
      BY <1>1, <1>3, <2>3 DEF Distinct
    <3> QED BY <2>1, <2>3, <2>4, <3>1, <3>2
  <2>6. ASSUME NEW i \in 1..Len(protocols)
        PROVE  /\ Owed(i) = IF i < next THEN Append(oks, web.conn) ELSE oks
               /\ Owed(i)' = IF i < next + 1 THEN Append(oks, web.conn) ELSE oks
    BY <1>1, <2>2 DEF Owed
  <2>7. ASSUME NEW i \in 1..Len(protocols)
        PROVE  Given(handed', protocols[i], Len(handed')) = Owed(i)'
    <3>1. Given(handed, protocols[i], Len(handed)) = Owed(i)
      BY DEF GivenOK
    <3>2. i \in Nat /\ next \in Nat
      BY <1>1, <1>2
    <3> HIDE DEF next
    <3>3. CASE i = next
      <4>1. Given(handed', protocols[i], Len(handed')) = Append(Owed(i), web.conn)
        BY <2>5, <3>1, <3>3
      <4>2. Owed(i) = oks /\ Owed(i)' = Append(oks, web.conn)
        BY <2>6, <3>2, <3>3
      <4> QED BY <4>1, <4>2
    <3>4. CASE i # next
      <4>1. Given(handed', protocols[i], Len(handed')) = Owed(i)
        BY <2>5, <3>1, <3>4
      <4>2. Owed(i)' = Owed(i)
        <5>1. i < next <=> i < next + 1
          BY <3>2, <3>4
        <5> QED BY <2>6, <5>1
      <4> QED BY <4>1, <4>2
    <3> QED BY <3>3, <3>4
  <2> QED BY <2>7 DEF GivenOK
<1>4. CASE ~(next <= Len(protocols))
  <2>1. UNCHANGED handed /\ command' = NoCommand
    BY <1>4 DEF HandOn
  <2>2. \A i \in 1..Len(protocols) : i < next
    BY <1>1, <1>2, <1>4
  <2> QED BY <1>1, <2>1, <2>2 DEF GivenOK, Owed
<1> QED BY <1>3, <1>4

LEMMA StepGiven ==
    ASSUME ServesLate, LoadedOK, ConnsOK, CommandOK, Distinct, GivenOK, [Next]_vars
    PROVE  GivenOK'
<1>1. CASE SetUp
  <2>1. UNCHANGED <<web, oks, command, handed>>
    BY <1>1, SetUpLeaves
  <2>2. CASE UNCHANGED protocols
    BY <2>1, <2>2 DEF GivenOK, Owed
  <2>3. CASE ~UNCHANGED protocols
    <3>1. main \in {"list", "load"}
      BY <1>1, <2>3, SetUpLeaves DEF LoadPlugins, ListPlugins, LoadPlugin, Loaded
    <3>2. ~up
      BY <3>1 DEF ServesLate, Serving
    <3>3. oks = <<>> /\ handed = <<>> /\ web.at = "wait"
      BY <3>2, NothingBefore
    <3>4. \A i : Owed(i)' = <<>>
      BY <2>1, <3>3 DEF Owed
    <3>5. handed' = <<>> /\ Len(handed') = 0
      BY <2>1, <3>3
    <3> QED BY <3>4, <3>5, GivenNothing DEF GivenOK
  <2> QED BY <2>2, <2>3
<1>2. CASE WebThread
  <2>1. UNCHANGED protocols
    BY <1>2, WebLeaves
  <2>2. CASE CallSendCmd
    <3>1. web.at = "sendCmd" /\ command'.next = 1 /\ command' # NoCommand
          /\ UNCHANGED <<handed, oks>>
      BY <2>1, <2>2, SendCmdCommand DEF CallSendCmd, SendCmd, NoCommand
    <3>2. \A i \in 1..Len(protocols) : Owed(i) = oks /\ Owed(i)' = oks
      BY <3>1 DEF Owed
    <3> QED BY <2>1, <3>1, <3>2 DEF GivenOK
  <2>3. CASE HandOn /\ UNCHANGED <<web, oks>>
    BY <2>1, <2>3, HandOnGiven
  <2>4. CASE Reply /\ UNCHANGED <<command, handed>>
    BY <2>1, <2>4 DEF Reply, Doing, GivenOK, Owed
  <2>5. CASE UNCHANGED <<command, handed, oks, web>>
    BY <2>1, <2>5 DEF GivenOK, Owed
  <2>6. CASE UNCHANGED <<command, handed, oks>> /\ web.at # "sending" /\ web'.at # "sending"
    BY <2>1, <2>6 DEF GivenOK, Owed
  <2> QED BY <1>2, WebCommands, <2>2, <2>3, <2>4, <2>5, <2>6
<1>3. CASE IhmWarns \/ LogThread \/ UNCHANGED vars
  BY <1>3, OthersLeave DEF GivenOK, Owed
<1> QED BY <1>1, <1>2, <1>3 DEF Next

\* The connection that is served was not answered yet.
LEMMA ServedOnce ==
    ASSUME ConnsOK, web.at # "wait"
    PROVE  /\ Append(oks, web.conn) \in Seq(Conns) /\ IsInjective(Append(oks, web.conn))
           /\ IsPrefix(oks, Append(oks, web.conn)) /\ Len(Append(oks, web.conn)) = Len(oks) + 1
<1> DEFINE s == Append(oks, web.conn)
<1>1. oks \in Seq(Conns) /\ web.conn \in Conns
  BY DEF ConnsOK
<1>2. /\ s \in Seq(Conns) /\ Len(s) = Len(oks) + 1 /\ Len(oks) \in Nat
      /\ \A i \in 1..Len(s) : s[i] = IF i <= Len(oks) THEN oks[i] ELSE web.conn
      /\ DOMAIN s = 1..Len(s)
  BY <1>1
<1> HIDE DEF s
<1>3. \A i \in 1..Len(oks) : oks[i] # web.conn
  BY DEF ConnsOK
<1>4. \A i, j \in 1..Len(oks) : oks[i] = oks[j] => i = j
  BY DEF ConnsOK
<1>5. IsInjective(s)
  BY <1>2, <1>3, <1>4 DEF IsInjective
<1>6. IsPrefix(oks, s)
  BY <1>1, <1>2, PrefixOf
<1> QED BY <1>2, <1>5, <1>6 DEF s

LEMMA GivenFollows ==
    ASSUME LoadedOK, ConnsOK, GivenOK PROVE OneCommandPerAnswer
<1> SUFFICES ASSUME NEW p \in Range(protocols)
             PROVE  /\ IsPrefix(oks, GivenTo(p)) /\ Len(GivenTo(p)) <= Len(oks) + 1
                    /\ web.at # "sending" => GivenTo(p) = oks
                    /\ IsInjective(GivenTo(p))
  BY DEF OneCommandPerAnswer
<1>1. PICK i \in 1..Len(protocols) : p = protocols[i]
  BY DEF Range, LoadedOK
<1>2. GivenTo(p) = Owed(i)
  BY <1>1, GivenToIsGiven DEF GivenOK
<1>3. oks \in Seq(Conns) /\ Len(oks) \in Nat
  BY DEF ConnsOK
<1>4. CASE Owed(i) = oks
  <2>1. IsPrefix(oks, oks)
    BY <1>3, PrefixOf
  <2>2. IsInjective(oks)
    <3>1. DOMAIN oks = 1..Len(oks)
      BY <1>3
    <3> QED BY <3>1 DEF ConnsOK, IsInjective
  <2> QED BY <1>2, <1>3, <1>4, <2>1, <2>2
<1>5. CASE Owed(i) # oks
  <2>1. web.at = "sending" /\ Owed(i) = Append(oks, web.conn)
    BY <1>5 DEF Owed
  <2> QED BY <1>2, <1>3, <2>1, ServedOnce
<1> QED BY <1>4, <1>5

\* Every protocol is given each command that was answered "ok" once and in the order
\* of the answers, and besides them only the one that is being given: for any plugins,
\* connections and requests.
THEOREM MasterGivesEachOnce == Spec => []OneCommandPerAnswer
<1>1. Init => Distinct /\ GivenOK
  BY InitDistinct, InitGiven
<1>2. MasterInv /\ Distinct /\ GivenOK /\ [Next]_vars => (Distinct /\ GivenOK)'
  BY StepDistinct, StepGiven DEF MasterInv
<1>3. MasterInv /\ GivenOK => OneCommandPerAnswer
  BY GivenFollows DEF MasterInv
<1> QED BY <1>1, <1>2, <1>3, MasterInvHolds, PTL DEF Spec
-----------------------------------------------------------------------------
(* A line of the main thread gets into the queue                           *)

\* The line that node n is listed again has been put in the queue, or will be.
LineOf(n) == <<FATAL, <<"node", n>>>>
LineComes(n) ==
    \/ LineOf(n) \in Range(written)
    \/ writer["main"].at \in {"lock", "push"} /\ writer["main"].line = LineOf(n)

LEMMA AppendInRange ==
    ASSUME NEW X, NEW s \in Seq(X), NEW x
    PROVE  Range(Append(s, x)) = Range(s) \cup {x}
<1>1. /\ DOMAIN Append(s, x) = 1..(Len(s) + 1) /\ DOMAIN s = 1..Len(s) /\ Len(s) \in Nat
      /\ \A i \in 1..(Len(s) + 1) : Append(s, x)[i] = IF i <= Len(s) THEN s[i] ELSE x
  OBVIOUS
<1>2. \A i \in 1..Len(s) : i \in 1..(Len(s) + 1) /\ i <= Len(s)
  BY <1>1
<1>3. Range(s) \subseteq Range(Append(s, x))
  BY <1>1, <1>2 DEF Range
<1>4. x \in Range(Append(s, x))
  <2>1. Len(s) + 1 \in 1..(Len(s) + 1) /\ ~(Len(s) + 1 <= Len(s))
    BY <1>1
  <2> QED BY <1>1, <2>1 DEF Range
<1>5. Range(Append(s, x)) \subseteq Range(s) \cup {x}
  <2> SUFFICES ASSUME NEW i \in 1..(Len(s) + 1) PROVE Append(s, x)[i] \in Range(s) \cup {x}
    BY <1>1 DEF Range
  <2>1. CASE i <= Len(s)
    <3>1. i \in 1..Len(s) /\ Append(s, x)[i] = s[i]
      BY <1>1, <2>1
    <3> QED BY <1>1, <3>1 DEF Range
  <2>2. CASE ~(i <= Len(s))
    BY <1>1, <2>2
  <2> QED BY <2>1, <2>2
<1> QED BY <1>3, <1>4, <1>5

LEMMA LineStays ==
    ASSUME IInv, [RestLogNext]_restVars, NEW n, LineComes(n) PROVE LineComes(n)'
<1> DEFINE w == writer["main"]
<1>1. writer \in [Threads -> WriterType] /\ "main" \in Threads /\ written \in Seq(Lines)
  BY LogAssumption DEF IInv, WritersTypeOK, QueueTypeOK
<1>2. CASE UNCHANGED <<writer, written>>
  BY <1>2 DEF LineComes, LineOf
<1>3. ASSUME NEW t \in Threads, Lock(t) PROVE LineComes(n)'
  <2>1. CASE t = "main"
    <3>1. writer'["main"].at = "push" /\ writer'["main"].line = w.line
      BY <1>1, <1>3, <2>1 DEF Lock, WriterType
    <3> QED BY <1>3, <3>1 DEF Lock, LineComes, LineOf
  <2>2. CASE t # "main"
    <3>1. writer'["main"] = w
      BY <1>1, <1>3, <2>2 DEF Lock
    <3> QED BY <1>3, <3>1 DEF Lock, LineComes, LineOf
  <2> QED BY <2>1, <2>2
<1>4. ASSUME NEW t \in Threads, Push(t) PROVE LineComes(n)'
  <2>1. Range(written') = Range(written) \cup {writer[t].line}
    BY <1>1, <1>4, AppendInRange DEF Push
  <2>2. CASE t = "main"
    <3>1. w.at = "push"
      BY <1>4, <2>2 DEF Push
    <3> QED BY <2>1, <2>2, <3>1 DEF LineComes, LineOf
  <2>3. CASE t # "main"
    <3>1. writer'["main"] = w
      BY <1>1, <1>4, <2>3 DEF Push
    <3> QED BY <2>1, <3>1 DEF LineComes, LineOf
  <2> QED BY <2>2, <2>3
<1>5. ASSUME NEW t \in Threads, Unlock(t) PROVE LineComes(n)'
  <2>1. CASE t = "main"
    <3>1. w.at = "unlock"
      BY <1>5, <2>1 DEF Unlock
    <3> QED BY <1>5, <3>1 DEF Unlock, LineComes, LineOf
  <2>2. CASE t # "main"
    <3>1. writer'["main"] = w
      BY <1>1, <1>5, <2>2 DEF Unlock
    <3> QED BY <1>5, <3>1 DEF Unlock, LineComes, LineOf
  <2> QED BY <2>1, <2>2
<1>6. ASSUME NEW t \in Threads, NEW level, NEW text, Log(t, level, text) PROVE LineComes(n)'
  <2>1. CASE t = "main"
    <3>1. w.at = "out"
      BY <1>6, <2>1 DEF Log, Returned
    <3> QED BY <1>6, <3>1 DEF Log, LineComes, LineOf
  <2>2. CASE t # "main"
    <3>1. writer'["main"] = w
      BY <1>1, <1>6, <2>2 DEF Log
    <3> QED BY <1>6, <3>1 DEF Log, LineComes, LineOf
  <2> QED BY <2>1, <2>2
<1>7. CASE Run \/ Connect
  BY <1>2, <1>7 DEF Run, Connect, TryLock, TryLockFails, Collect, Sending, UnlockAnyway
<1> QED BY <1>2, <1>3, <1>4, <1>5, <1>6, <1>7 DEF RestLogNext, RestLogStep, Write, restVars

\* Master::InitRestLog is done before anything is loaded, and never undone.
Connected == main \notin {"parse", "stderr", "rest", "dead"} => run # "unborn"

LEMMA RunStays == ASSUME [RestLogNext]_restVars, run # "unborn" PROVE run' # "unborn"
BY DEF RestLogNext, RestLogStep, Run, Write, Lock, Push, Unlock, Log, Connect, TryLock, TryLockFails,
       Collect, Sending, UnlockAnyway, restVars

LEMMA StepConnected == Places /\ Connected /\ [Next]_vars => Connected'
<1> SUFFICES ASSUME Places, Connected, [Next]_vars PROVE Connected'
  OBVIOUS
<1>1. run # "unborn" => run' # "unborn"
  BY StepLogs, RunStays
<1>2. CASE SetUp
  <2>1. \/ main' \in {"stderr", "rest", "dead"}
        \/ main = "rest" /\ Connect
        \/ main \notin {"parse", "stderr", "rest", "dead"}
    BY <1>2 DEF SetUp, Parse, StderrLevel, Goes, InitRestLog, InitPlugins, Port, RunServer, Start,
         LoadPlugins, ListPlugins, LoadPlugin, Loaded, InitProtocols, InitFeatures, InitProtocol,
         ProtocolsDone, InitFeature, FeaturesDone, StartServer, ManagerSetUp, InitFailed, ReadNumber,
         ReadEntry, SetNode, EntryDone, InitDone, InMain
  <2> QED BY <1>1, <2>1 DEF Connected, Connect
<1>3. CASE WebThread
  BY <1>1, <1>3, WebLeaves DEF Connected
<1>4. CASE IhmWarns \/ LogThread \/ UNCHANGED vars
  BY <1>1, <1>4, OthersLeave DEF Connected
<1> QED BY <1>2, <1>3, <1>4 DEF Next

-----------------------------------------------------------------------------
(* The table of the nodes                                                  *)

\* The entries that have given node n a plugin, with what was read of the one
\* that is being read.
Gave(n) ==
    Gives(n) \cup
      {e \in {entry} : /\ main = "node"
                       /\ \E k \in DOMAIN Entries[e].nodes : k < place /\ Entries[e].nodes[k] = n}

\* Before the nodes are read nothing is given.
Unread == Before \cup {"protocols", "features", "number"}

\* The table has the plugin of the first entry that names a node, and a second one
\* has its line.
TableOK ==
    /\ main \in Unread => entry = 1
    /\ \A n \in NodeIds :
         /\ Gave(n) = {} => table[n] = NoPlugin
         /\ Gave(n) # {} =>
              \E e \in Gave(n) : (\A d \in Gave(n) : e <= d) /\ table[n] = Entries[e].plugin
    /\ \A n \in NodeIds :
         RestLevel >= FATAL /\ (\E d, e \in Gave(n) : d # e) => LineComes(n)

LEMMA InitTable == Init => TableOK /\ Connected
<1> SUFFICES ASSUME Init PROVE TableOK /\ Connected
  OBVIOUS
<1> USE DEF Init, KernelInit, ManagerInit
<1>1. \A n : Gave(n) = {}
  BY DEF Gave, Gives
<1> QED BY <1>1 DEF TableOK, Connected

\* A step that gives nothing keeps the table right.
LEMMA TableStays ==
    ASSUME IInv, [RestLogNext]_restVars, TableOK, UNCHANGED table,
           \A n \in NodeIds : Gave(n)' = Gave(n),
           main' \in Unread => entry' = 1
    PROVE  TableOK'
<1>1. \A n : LineComes(n) => LineComes(n)'
  BY LineStays
<1> QED BY <1>1 DEF TableOK

\* A plugin that is registered is a plugin.
LEMMA PluginNames ==
    ASSUME LoadedOK, NEW name, Registered(name) PROVE name # NoPlugin
<1>1. Range(nodes) \subseteq NodeNames
  BY DEF LoadedOK, Range
<1> QED BY <1>1, NoPluginAssumption DEF Registered, NodeNames

LEMMA SetNodeTable ==
    ASSUME IInv, [RestLogNext]_restVars, Places, LoadedOK, Connected, TableOK,
           SetNode, UNCHANGED nodes,
           NEW m, m = Entries[entry].nodes[place]
    PROVE  TableOK'
<1> DEFINE l == Entries[entry].nodes
<1>1. /\ main = "node" /\ main' = "node" /\ entry' = entry /\ place' = place + 1
      /\ place \in Nat \ {0} /\ entry \in 1..Len(Entries) /\ place <= Len(l)
      /\ Registered(Entries[entry].plugin)
  BY DEF SetNode, InMain, Places, LoadedOK
<1>2. l \in Seq(NodeIds) /\ Len(Entries) \in Nat
  BY <1>1, EntryFacts
<1>3. m \in NodeIds /\ place \in DOMAIN l /\ DOMAIN l = 1..Len(l)
  BY <1>1, <1>2
<1>4. /\ \A n \in NodeIds : n # m => Gave(n)' = Gave(n)
      /\ Gave(m)' = Gave(m) \cup {entry}
  <2>1. \A n : Gives(n)' = Gives(n)
    BY <1>1 DEF Gives, Registered
  <2>2. \A k \in DOMAIN l : k < place + 1 <=> (k < place \/ k = place)
    BY <1>1, <1>2, <1>3
  <2>3. \A n : /\ Gave(n) = Gives(n) \cup {e \in {entry} : \E k \in DOMAIN l : k < place /\ l[k] = n}
              /\ Gave(n)' = Gives(n) \cup {e \in {entry} : \E k \in DOMAIN l : k < place + 1 /\ l[k] = n}
    BY <1>1, <2>1 DEF Gave
  <2> QED BY <1>3, <2>2, <2>3
<1>5. \A n \in NodeIds : \A e \in Gave(n) : e \in 1..entry /\ Registered(Entries[e].plugin)
  BY <1>1, <1>2 DEF Gave, Gives
<1>6. table[m] = NoPlugin <=> Gave(m) = {}
  BY <1>3, <1>5, PluginNames DEF TableOK
<1>7. \A n : LineComes(n) => LineComes(n)'
  BY LineStays
<1>8. table \in [NodeIds -> {NoPlugin} \cup Range(nodes)]
  BY DEF LoadedOK
<1>9. CASE table[m] = NoPlugin
  <2>1. table' = [table EXCEPT ![m] = Entries[entry].plugin]
    BY <1>9 DEF SetNode
  <2>2. Gave(m)' = {entry} /\ table'[m] = Entries[entry].plugin /\ entry <= entry
    BY <1>1, <1>3, <1>4, <1>6, <1>8, <1>9, <2>1
  <2>3. \A n \in NodeIds : n # m => table'[n] = table[n]
    BY <1>8, <2>1
  <2>4. \A n \in NodeIds :
          /\ Gave(n)' = {} => table'[n] = NoPlugin
          /\ Gave(n)' # {} =>
               \E e \in Gave(n)' : (\A d \in Gave(n)' : e <= d) /\ table'[n] = Entries[e].plugin
    <3> SUFFICES ASSUME NEW n \in NodeIds
                 PROVE  /\ Gave(n)' = {} => table'[n] = NoPlugin
                        /\ Gave(n)' # {} =>
                             \E e \in Gave(n)' : (\A d \in Gave(n)' : e <= d)
                                                /\ table'[n] = Entries[e].plugin
      OBVIOUS
    <3>1. CASE n = m
      BY <2>2, <3>1
    <3>2. CASE n # m
      BY <1>4, <2>3, <3>2 DEF TableOK
    <3> QED BY <3>1, <3>2
  <2>5. \A n \in NodeIds :
          RestLevel >= FATAL /\ (\E d, e \in Gave(n)' : d # e) => LineComes(n)'
    <3> SUFFICES ASSUME NEW n \in NodeIds, RestLevel >= FATAL, \E d, e \in Gave(n)' : d # e
                 PROVE  LineComes(n)'
      OBVIOUS
    <3>1. n # m
      BY <2>2
    <3>2. Gave(n)' = Gave(n)
      BY <1>4, <3>1
    <3> QED BY <1>7, <3>2 DEF TableOK
  <2> QED BY <1>1, <2>4, <2>5 DEF TableOK, Unread, Before
<1>10. CASE table[m] # NoPlugin
  <2>1. Log("main", FATAL, <<"node", m>>) /\ UNCHANGED table
    BY <1>10 DEF SetNode
  <2>2. PICK f \in Gave(m) : (\A d \in Gave(m) : f <= d) /\ table[m] = Entries[f].plugin
    BY <1>3, <1>6, <1>10 DEF TableOK
  <2>3. f \in Gave(m)' /\ \A d \in Gave(m)' : f <= d
    <3>1. f <= entry
      BY <1>1, <1>2, <1>3, <1>5, <2>2
    <3> QED BY <1>4, <2>2, <3>1
  <2>4. RestLevel >= FATAL => LineComes(m)'
    <3>1. ASSUME RestLevel >= FATAL
          PROVE  writer' = [writer EXCEPT !["main"] =
                              [at |-> "lock", line |-> LineOf(m), found |-> <<>>]]
      <4>1. run # "unborn"
        BY <1>1 DEF Connected
      <4>2. ~(FATAL > RestLevel)
        BY <3>1, RestLevelAssumption DEF FATAL, DEBUG
      <4> QED BY <2>1, <4>1, <4>2 DEF Log, LineOf
    <3>2. writer \in [Threads -> WriterType] /\ "main" \in Threads
      BY LogAssumption DEF IInv, WritersTypeOK
    <3>3. ASSUME RestLevel >= FATAL
          PROVE  writer'["main"] = [at |-> "lock", line |-> LineOf(m), found |-> <<>>]
      BY <3>1, <3>2, <3>3
    <3> QED BY <3>3 DEF LineComes, LineOf
  <2>5. \A n \in NodeIds :
          /\ Gave(n)' = {} => table'[n] = NoPlugin
          /\ Gave(n)' # {} =>
               \E e \in Gave(n)' : (\A d \in Gave(n)' : e <= d) /\ table'[n] = Entries[e].plugin
    <3> SUFFICES ASSUME NEW n \in NodeIds
                 PROVE  /\ Gave(n)' = {} => table'[n] = NoPlugin
                        /\ Gave(n)' # {} =>
                             \E e \in Gave(n)' : (\A d \in Gave(n)' : e <= d)
                                                /\ table'[n] = Entries[e].plugin
      OBVIOUS
    <3>1. CASE n = m
      BY <2>1, <2>2, <2>3, <3>1
    <3>2. CASE n # m
      BY <1>4, <2>1, <3>2 DEF TableOK
    <3> QED BY <3>1, <3>2
  <2>6. \A n \in NodeIds :
          RestLevel >= FATAL /\ (\E d, e \in Gave(n)' : d # e) => LineComes(n)'
    <3> SUFFICES ASSUME NEW n \in NodeIds, RestLevel >= FATAL, \E d, e \in Gave(n)' : d # e
                 PROVE  LineComes(n)'
      OBVIOUS
    <3>1. CASE n = m
      BY <2>4, <3>1
    <3>2. CASE n # m
      BY <1>4, <1>7, <3>2 DEF TableOK
    <3> QED BY <3>1, <3>2
  <2> QED BY <1>1, <2>5, <2>6 DEF TableOK, Unread, Before
<1> QED BY <1>9, <1>10

LEMMA ManagerTable ==
    ASSUME IInv, [RestLogNext]_restVars, Places, LoadedOK, Connected, TableOK, ManagerSetUp
    PROVE  TableOK'
<1>0. UNCHANGED nodes /\ \A name : Registered(name)' = Registered(name)
  BY DEF ManagerSetUp, Registered
<1>1. CASE SetNode
  BY <1>0, <1>1, SetNodeTable
<1>2. CASE InitFailed \/ ReadNumber \/ InitDone
  <2>1. UNCHANGED <<table, entry>> /\ main # "node" /\ main' # "node"
        /\ (main' \in Unread => entry' = 1)
    BY <1>2 DEF InitFailed, ReadNumber, InitDone, InMain, TableOK, Unread, Before
  <2>2. \A n : Gave(n)' = Gave(n)
    BY <1>0, <2>1 DEF Gave, Gives
  <2> QED BY <2>1, <2>2, TableStays
<1>3. CASE ReadEntry
  <2>1. /\ main = "entry" /\ UNCHANGED table /\ entry \in 1..Len(Entries)
        /\ main' \notin Unread
    BY <1>3 DEF ReadEntry, InMain, Places, Unread, Before
  <2>2. Len(Entries) \in Nat
    BY EntriesAssumption
  <2>3. \A n : Gave(n)' = Gave(n)
    <3>1. CASE Registered(Entries[entry].plugin)
      <4>1. entry' = entry /\ place' = 1
        BY <1>3, <3>1 DEF ReadEntry
      <4>2. Entries[entry].nodes \in Seq(NodeIds)
        BY <2>1, EntryFacts
      <4>3. \A k \in DOMAIN Entries[entry].nodes : ~(k < 1)
        BY <4>2
      <4> QED BY <1>0, <2>1, <4>1, <4>3 DEF Gave, Gives
    <3>2. CASE ~Registered(Entries[entry].plugin)
      <4>1. entry' = entry + 1 /\ main' = "entry"
        BY <1>3, <2>1, <3>2 DEF ReadEntry
      <4>2. 1..(entry' - 1) = (1..(entry - 1)) \cup {entry}
        BY <2>1, <2>2, <4>1
      <4>3. \A n : Gives(n)' = Gives(n)
        BY <1>0, <3>2, <4>2 DEF Gives
      <4> QED BY <2>1, <4>1, <4>3 DEF Gave
    <3> QED BY <3>1, <3>2
  <2> QED BY <2>1, <2>3, TableStays
<1>4. CASE EntryDone
  <2>1. /\ main = "node" /\ main' = "entry" /\ UNCHANGED table /\ entry' = entry + 1
        /\ place > Len(Entries[entry].nodes) /\ entry \in 1..Len(Entries)
        /\ Registered(Entries[entry].plugin)
    BY <1>4 DEF EntryDone, InMain, Places, LoadedOK
  <2>2. /\ Len(Entries) \in Nat /\ Entries[entry].nodes \in Seq(NodeIds) /\ place \in Nat
        /\ 1..(entry' - 1) = (1..(entry - 1)) \cup {entry}
    BY <2>1, EntryFacts DEF Places
  <2>3. \A k \in DOMAIN Entries[entry].nodes : k < place
    BY <2>1, <2>2
  <2>4. \A n : n \in Range(Entries[entry].nodes)
                 <=> \E k \in DOMAIN Entries[entry].nodes : k < place /\ Entries[entry].nodes[k] = n
    BY <2>3 DEF Range
  <2>5. \A n : Gives(n)' = Gives(n) \cup {e \in {entry} : n \in Range(Entries[entry].nodes)}
    BY <1>0, <2>1, <2>2 DEF Gives
  <2>6. \A n : Gave(n)' = Gives(n)'
    BY <2>1 DEF Gave
  <2>7. \A n : Gave(n) = Gives(n) \cup {e \in {entry} : n \in Range(Entries[entry].nodes)}
    BY <2>1, <2>4 DEF Gave
  <2>8. \A n : Gave(n)' = Gave(n)
    BY <2>5, <2>6, <2>7
  <2> QED BY <2>1, <2>8, TableStays DEF Unread, Before
<1> QED BY <1>1, <1>2, <1>3, <1>4 DEF ManagerSetUp

LEMMA StepTable ==
    ASSUME IInv, Places, ServesLate, LoadedOK, Connected, TableOK, [Next]_vars
    PROVE  TableOK'
<1>0. [RestLogNext]_restVars
  BY StepLogs
<1>1. CASE SetUp /\ ManagerSetUp
  BY <1>0, <1>1, ManagerTable
<1>2. CASE SetUp /\ ~ManagerSetUp
  <2>1. /\ UNCHANGED <<table, entry, place>> /\ main # "node" /\ main' # "node"
        /\ main' \in Unread => main \in Unread
        /\ UNCHANGED nodes \/ main \in Unread
    BY <1>2 DEF SetUp, managerVars, Parse, StderrLevel, Goes, InitRestLog, InitPlugins, Port, RunServer,
         Start, LoadPlugins, ListPlugins, LoadPlugin, Loaded, InitProtocols, InitFeatures, InitProtocol,
         ProtocolsDone, InitFeature, FeaturesDone, StartServer, Unread, Before
  <2>2. ASSUME NEW n PROVE Gave(n)' = Gave(n)
    <3>1. CASE UNCHANGED nodes
      BY <2>1, <3>1 DEF Gave, Gives, Registered
    <3>2. CASE main \in Unread
      <4>1. entry = 1 /\ entry' = 1
        BY <2>1, <3>2 DEF TableOK
      <4>2. Gives(n) = {} /\ Gives(n)' = {}
        BY <4>1 DEF Gives
      <4> QED BY <2>1, <4>2 DEF Gave
    <3> QED BY <2>1, <3>1, <3>2
  <2> QED BY <1>0, <2>1, <2>2, TableStays DEF TableOK
<1>3. CASE WebThread
  <2>1. UNCHANGED <<table, entry, place, nodes>>
        /\ (main' = main \/ (main' = "dead" /\ main # "node"))
    BY <1>3, WebLeaves DEF ServesLate, Serving
  <2>2. \A n : Gave(n)' = Gave(n)
    BY <2>1 DEF Gave, Gives, Registered
  <2>3. main' \in Unread => entry' = 1
    BY <2>1 DEF TableOK, Unread, Before
  <2> QED BY <1>0, <2>1, <2>2, <2>3, TableStays
<1>4. CASE IhmWarns \/ LogThread \/ UNCHANGED vars
  <2>1. UNCHANGED <<table, entry, place, nodes, main>>
    BY <1>4, OthersLeave
  <2>2. \A n : Gave(n)' = Gave(n)
    BY <2>1 DEF Gave, Gives, Registered
  <2> QED BY <1>0, <2>1, <2>2, TableStays DEF TableOK
<1> QED BY <1>1, <1>2, <1>3, <1>4 DEF Next

\* The first of the entries is the one, and where there are several, there are two.
LEMMA FirstOf ==
    ASSUME NEW S, NEW N \in Nat, S \subseteq 1..N
    PROVE  /\ \A e \in S : (\A d \in S : e <= d) => (CHOOSE f \in S : \A d \in S : f <= d) = e
           /\ Cardinality(S) > 1 => \E d, e \in S : d # e
<1>1. ASSUME NEW e \in S, \A d \in S : e <= d
      PROVE  (CHOOSE f \in S : \A d \in S : f <= d) = e
  <2> DEFINE f == CHOOSE f \in S : \A d \in S : f <= d
  <2>1. f \in S /\ \A d \in S : f <= d
    BY <1>1
  <2> HIDE DEF f
  <2>2. f <= e /\ e <= f /\ e \in Nat /\ f \in Nat
    BY <1>1, <2>1
  <2>3. f = e
    BY <2>2
  <2> QED BY <2>3 DEF f
<1>2. ASSUME ~(\E d, e \in S : d # e) PROVE ~(Cardinality(S) > 1)
  <2>1. CASE S = {}
    <3>1. Cardinality(S) = 0
      BY <2>1, FS_EmptySet
    <3> QED BY <3>1
  <2>2. CASE S # {}
    <3>0. PICK x : x \in S
      BY <2>2
    <3>1. S = {x}
      BY <1>2, <3>0
    <3>2. Cardinality(S) = 1
      BY <3>1, FS_Singleton
    <3> QED BY <3>2
  <2> QED BY <2>1, <2>2
<1> QED BY <1>1, <1>2

LEMMA TableFollows ==
    ASSUME IInv, Places, TableOK PROVE FirstPluginWins
<1> SUFFICES ASSUME main # "node", NEW n \in NodeIds
             PROVE  /\ table[n] = IF Gives(n) = {} THEN NoPlugin
                                  ELSE Entries[CHOOSE e \in Gives(n) : \A d \in Gives(n) : e <= d].plugin
                    /\ Returned("main") /\ Cardinality(Gives(n)) > 1 /\ RestLevel >= FATAL
                         => <<FATAL, <<"node", n>>>> \in Range(written)
  BY DEF FirstPluginWins
<1>1. Gave(n) = Gives(n)
  BY DEF Gave
<1>2. entry - 1 \in Nat /\ Gives(n) \subseteq 1..(entry - 1)
  <2>1. Len(Entries) \in Nat
    BY EntriesAssumption
  <2> QED BY <2>1 DEF Gives, Places
<1>3. /\ \A e \in Gives(n) : (\A d \in Gives(n) : e <= d)
            => (CHOOSE f \in Gives(n) : \A d \in Gives(n) : f <= d) = e
      /\ Cardinality(Gives(n)) > 1 => \E d, e \in Gives(n) : d # e
  BY <1>2, FirstOf
<1>4. table[n] = IF Gives(n) = {} THEN NoPlugin
                 ELSE Entries[CHOOSE e \in Gives(n) : \A d \in Gives(n) : e <= d].plugin
  <2>1. CASE Gives(n) = {}
    BY <1>1, <2>1 DEF TableOK
  <2>2. CASE Gives(n) # {}
    <3>1. PICK e \in Gives(n) : (\A d \in Gives(n) : e <= d) /\ table[n] = Entries[e].plugin
      BY <1>1, <2>2 DEF TableOK
    <3>2. (CHOOSE f \in Gives(n) : \A d \in Gives(n) : f <= d) = e
      BY <1>3, <3>1
    <3> QED BY <2>2, <3>1, <3>2
  <2> QED BY <2>1, <2>2
<1>5. Returned("main") /\ Cardinality(Gives(n)) > 1 /\ RestLevel >= FATAL
        => LineOf(n) \in Range(written)
  <2>1. Cardinality(Gives(n)) > 1 /\ RestLevel >= FATAL => LineComes(n)
    BY <1>1, <1>3 DEF TableOK
  <2> QED BY <2>1 DEF LineComes, Returned
<1> QED BY <1>4, <1>5 DEF LineOf

\* A node has the plugin of the first entry that names it, whatever the entries are and
\* in whatever order the plugins are loaded, and when other entries name it the log has a
\* line that says so, once the main thread is back from Write.
THEOREM MasterFirstPluginWins == Spec => []FirstPluginWins
<1>1. Init => TableOK /\ Connected
  BY InitTable
<1>2. IInv /\ MasterInv /\ TableOK /\ Connected /\ [Next]_vars => (TableOK /\ Connected)'
  BY StepTable, StepConnected DEF MasterInv
<1>3. IInv /\ MasterInv /\ TableOK => FirstPluginWins
  BY TableFollows DEF MasterInv
<1>4. Spec => []IInv
  BY MasterLogsAsRestLog, InvHolds, PTL
<1> QED BY <1>1, <1>2, <1>3, <1>4, MasterInvHolds, PTL DEF Spec
=============================================================================
