---------------------------- MODULE NodesManager -----------------------------
(***************************************************************************)
(* src/src/NodesManager.cpp: the table that gives each node its plugin,    *)
(* filled from the settings at the start, and SendCmd, which hands a       *)
(* command to the protocols.  FormatCmd is that of src/misc/Node.cpp.      *)
(***************************************************************************)
EXTENDS Kernel

CONSTANTS
    NodeIds,     \* the numbers the table has a place for
    Entries,     \* the settings nodes.node1, nodes.node2, ...
    NoPlugin     \* NULL in the table, and the name of an entry without '|'

ASSUME EntriesAssumption ==
    Entries \in Seq([plugin : {Entries[i].plugin : i \in DOMAIN Entries},
                     nodes : Seq(NodeIds)])

\* A plugin is no NULL, and its name is not empty.
ASSUME NoPluginAssumption ==
    \A f \in Files : NoPlugin \notin Range(Registers[f].nodes)

VARIABLES
    table,       \* NodesManager::_nodes
    entry, place,\* Init's counters: the entry, and the node in it
    hasProtocols,\* pProtocols was set
    command,     \* SendCmd's frame, and which protocol is next
    handed       \* history: every SendMsg, the protocol and the frame

managerVars == <<table, entry, place, hasProtocols, command, handed>>

NoCommand == <<>>

ManagerInit ==
    /\ table = [n \in NodeIds |-> NoPlugin]
    /\ entry = 1 /\ place = 0 /\ hasProtocols = FALSE
    /\ command = NoCommand /\ handed = <<>>

-----------------------------------------------------------------------------
(* Init, in the main thread.                                               *)

InMain(at) == main = at /\ Returned("main")

\* A setting is missing: the exception is caught and logged, and pProtocols is left
\* as it was, pointing nowhere.
InitFailed ==
    /\ \/ InMain("number") /\ ~Present(<<"nodes.number", 0>>)
       \/ InMain("entry") /\ entry <= Len(Entries) /\ ~Present(<<"nodes.node", entry>>)
    /\ Log("main", FATAL, <<"settings", entry>>)
    /\ main' = "port"
    /\ UNCHANGED <<table, entry, place, hasProtocols>>

ReadNumber ==
    /\ InMain("number") /\ Present(<<"nodes.number", 0>>)
    /\ main' = "entry"
    /\ UNCHANGED <<table, entry, place, hasProtocols, restVars>>

\* An entry without '|' is passed over, one whose plugin is not loaded is logged.
ReadEntry ==
    /\ InMain("entry") /\ entry <= Len(Entries) /\ Present(<<"nodes.node", entry>>)
    /\ IF Registered(Entries[entry].plugin)
         THEN main' = "node" /\ place' = 1 /\ UNCHANGED <<entry, restVars>>
         ELSE /\ entry' = entry + 1 /\ UNCHANGED <<main, place>>
              /\ IF Entries[entry].plugin = NoPlugin THEN UNCHANGED restVars
                 ELSE Log("main", FATAL, <<"plugin", entry>>)
    /\ UNCHANGED <<table, hasProtocols>>

\* Mutant: a node that is listed twice gets the plugin of the last entry.
SetNodeAgain ==
    /\ InMain("node") /\ place <= Len(Entries[entry].nodes)
    /\ place' = place + 1
    /\ table' = [table EXCEPT ![Entries[entry].nodes[place]] = Entries[entry].plugin]
    /\ UNCHANGED <<main, entry, hasProtocols, restVars>>

\* A node keeps the first plugin it was given.
SetNode ==
    /\ InMain("node") /\ place <= Len(Entries[entry].nodes)
    /\ place' = place + 1
    /\ LET n == Entries[entry].nodes[place] IN
         IF table[n] = NoPlugin
           THEN table' = [table EXCEPT ![n] = Entries[entry].plugin] /\ UNCHANGED restVars
           ELSE Log("main", FATAL, <<"node", n>>) /\ UNCHANGED table
    /\ UNCHANGED <<main, entry, hasProtocols>>

EntryDone ==
    /\ InMain("node") /\ place > Len(Entries[entry].nodes)
    /\ entry' = entry + 1 /\ main' = "entry"
    /\ UNCHANGED <<table, place, hasProtocols, restVars>>

\* Mutant: pProtocols is set where an entry is, and not once they are done.
InitDoneUnset ==
    /\ InMain("entry") /\ entry > Len(Entries)
    /\ main' = "port"
    /\ UNCHANGED <<table, entry, place, hasProtocols, restVars>>

InitDone ==
    /\ InMain("entry") /\ entry > Len(Entries)
    /\ hasProtocols' = TRUE /\ main' = "port"
    /\ UNCHANGED <<table, entry, place, restVars>>

ManagerSetUp ==
    /\ InitFailed \/ ReadNumber \/ ReadEntry \/ SetNode \/ EntryDone \/ InitDone
    /\ UNCHANGED <<absent, listed, nodes, protocols, features, command, handed>>

-----------------------------------------------------------------------------
(* SendCmd, in the thread of the web server.                               *)

\* GetNode for any number: what is behind the table is NULL or not,
IsNull(target) == IF target \in NodeIds THEN {table[target] = NoPlugin} ELSE BOOLEAN

\* or cannot be read.
GetNodeDies(target) ==
    /\ command = NoCommand /\ target \notin NodeIds
    /\ main' = "dead"
    /\ UNCHANGED managerVars

\* Mutant: a node nobody knows is logged at the level of debug lines.
SendCmdQuiet(target, frame) ==
    /\ command = NoCommand
    /\ \E null \in IsNull(target) :
         IF null THEN Log("web", DEBUG, <<"unknown", frame.by>>) ELSE UNCHANGED restVars
    /\ command' = [frame |-> frame, next |-> 1]
    /\ UNCHANGED <<table, entry, place, hasProtocols, handed>>

\* A node nobody knows is logged, and the command goes on all the same.
SendCmd(target, frame) ==
    /\ command = NoCommand
    /\ \E null \in IsNull(target) :
         IF null THEN Log("web", FATAL, <<"unknown", frame.by>>) ELSE UNCHANGED restVars
    /\ command' = [frame |-> frame, next |-> 1]
    /\ UNCHANGED <<table, entry, place, hasProtocols, handed>>

\* Every protocol gets the command, in the order they were loaded.
HandOn ==
    /\ command # NoCommand /\ Returned("web") /\ hasProtocols
    /\ IF command.next <= Len(protocols)
         THEN /\ handed' = Append(handed, <<protocols[command.next], command.frame>>)
              /\ command' = [command EXCEPT !.next = @ + 1]
         ELSE command' = NoCommand /\ UNCHANGED handed
    /\ UNCHANGED <<table, entry, place, hasProtocols, main>>

\* Through a pProtocols that points nowhere there is nothing to iterate over.
HandOnNowhere ==
    /\ command # NoCommand /\ Returned("web") /\ ~hasProtocols
    /\ main' = "dead"
    /\ UNCHANGED managerVars
=============================================================================
