------------------------------ MODULE MCMaster -------------------------------
(* The instance TLC checks: the settings the repository ships, with a line  *)
(* for each way they can be wrong.                                          *)
EXTENDS Master

MCRegisters == [f \in Files |->
    CASE f = "node0.5.so" -> [nodes |-> <<"NODE VERSION 0.5">>, protocols |-> <<>>, features |-> <<>>]
      [] f = "dht11.so" -> [nodes |-> <<"DHT11">>, protocols |-> <<>>, features |-> <<>>]
      [] f = "serial-rf.so" -> [nodes |-> <<>>, protocols |-> <<"serial-rf">>, features |-> <<>>]
      [] f = "rf.so" -> [nodes |-> <<>>, protocols |-> <<"rf">>, features |-> <<>>]
      [] OTHER -> [nodes |-> <<>>, protocols |-> <<>>, features |-> <<"lua-scripts">>]]

\* Node 2 is named twice, once by an entry whose plugin is not loaded; node 3 by
\* an entry without '|'.
MCEntries == <<
    [plugin |-> "NODE VERSION 0.5", nodes |-> <<1>>],
    [plugin |-> "DHT22", nodes |-> <<2>>],
    [plugin |-> NoPlugin, nodes |-> <<3>>],
    [plugin |-> "DHT11", nodes |-> <<2, 1>>]>>

MCKeys ==
    {"plugin"} \X Files
        \cup {"directory", "logger.stderr.level", "ihm", "logger.rest.level", "plugins.dir", "port", "nodes.number"} \X {0}
        \cup {"nodes.node"} \X (1..Len(MCEntries))
        \cup {"protocol"} \X {"serial-rf", "rf"} \cup {<<"feature", "lua-scripts">>}

\* At most one thing is missing; of the nodes' settings, the number or the third.
MCAbsent == {{}} \cup {{key} : key \in MCKeys \ {<<"nodes.node", e>> : e \in {1, 2, 4}}}

MCTexts ==
    {"searching", "start", "server", "post"} \X {0}
        \cup {"settings", "plugin"} \X (1..(Len(MCEntries) + 1))
        \cup {"node"} \X NodeIds \cup {"generic", "unknown"} \X Conns

U(slashes, path, args, to) ==
    [method |-> "GET", path |-> path, slashes |-> slashes, args |-> args, to |-> to, nid |-> 4]

R(method, path, args, to) ==
    [U(Len(path), path, args, to) EXCEPT !.method = method]

AllArgs == {"nid", "target", "sender"}

NoName == U(2, <<"node">>, {}, 1)

MCRequests == {
    R("GET", <<"node", "on">>, AllArgs, 1),
    R("GET", <<"node", "link">>, {"target", "sender"}, 3),
    R("GET", <<"node", "off">>, {"target", "sender"}, 1),
    R("POST", <<"node", "reset">>, AllArgs, 2),
    R("POST", <<"node", "on">>, {}, 1),
    R("GET", <<"node">>, {}, 1),
    R("GET", <<"index.html">>, {}, 1),
    R("PUT", <<"node", "on">>, AllArgs, 1),
    U(2, <<>>, {}, 1),
    U(1, <<>>, {}, 1),
    NoName,
    R("GET", <<"node", "on">>, AllArgs, 300)}

\* The traffic: readdir gives one order or its reverse, the first connection asks
\* first, the second for a command or with a URL that lacks a name, and posts fail while
\* there is one request; the last two only when nothing else is out of order.
Order == <<"dht11.so", "lua-scripts.so", "node0.5.so", "rf.so", "serial-rf.so">>

Asked == {c \in Conns : conn[c].at # "none"}
Unknown == R("GET", <<"node", "link">>, {"target", "sender"}, 3)
Known == R("GET", <<"node", "on">>, AllArgs, 1)
Body == R("POST", <<"node", "reset">>, AllArgs, 2)
Warned == writer["ihm"].at # "out" \/ \E k \in DOMAIN written : written[k][1] = WARN

InOrder == absent = {} /\ nodes[1] = "DHT11"

Traffic ==
    /\ main = "load" /\ Len(listed) = Len(Order) => listed \in {Order, Reverse(Order)}
    /\ 2 \in Asked =>
         /\ 1 \in Asked /\ conn[1].request \in {Known, Unknown, Body}
         /\ conn[2].request \in {Unknown, NoName} /\ ~Warned /\ InOrder
    /\ Warned => InOrder
    /\ lost # {} => InOrder /\ ~Warned /\ 2 \notin Asked
    /\ 1 \in Asked /\ (Warned \/ ~InOrder) => conn[1].request = Unknown

MCSpec == Init /\ [][Next /\ Traffic']_vars /\ Fairness
=============================================================================
