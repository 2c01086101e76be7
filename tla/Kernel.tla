------------------------------- MODULE Kernel --------------------------------
(***************************************************************************)
(* What the master is made of before it runs: the settings                 *)
(* (src/misc/SettingsParser.cpp) and the plugins it loads                  *)
(* (src/src/Kernel.cpp, src/misc/Dir.cpp, src/misc/DynLoad.cpp).           *)
(***************************************************************************)
EXTENDS RestLog, FiniteSets

CONSTANTS
    Files,       \* the *.so files of the plugin directory
    Registers,   \* what LoadPlugins of each of them registers
    Keys,        \* what the start-up needs: settings, and plugins that load
    Absent       \* the sets of these that can be missing

ASSUME KernelAssumption ==
    /\ Absent \subseteq SUBSET Keys
    /\ IsFiniteSet(Files)
    /\ Registers \in [Files -> [nodes : Seq(STRING), protocols : Seq(STRING), features : Seq(STRING)]]

\* Every protocol of the repository's plugins has a name of its own.
ASSUME NamesAssumption ==
    /\ \A f \in Files : IsInjective(Registers[f].protocols)
    /\ \A f, g \in Files :
         Range(Registers[f].protocols) \cap Range(Registers[g].protocols) # {} => f = g

VARIABLES
    main,        \* where the main thread is in the start-up
    absent,      \* what is missing in this run
    listed,      \* the files still to be loaded, in the order readdir gave
    nodes,       \* _nodes: the names of the node plugins registered
    protocols,   \* _protocols
    features     \* _features

kernelVars == <<main, absent, listed, nodes, protocols, features>>

KernelInit ==
    /\ main = "parse" /\ absent \in Absent
    /\ listed = <<>> /\ nodes = <<>> /\ protocols = <<>> /\ features = <<>>

\* SettingsParser::Str and Int throw for a setting that is missing.
Present(key) == key \notin absent

\* One after the other of the statements of the start-up; a setting that is missing
\* where nothing catches the exception ends the process.
Goes(from, key, to) ==
    /\ main = from /\ Returned("main")
    /\ main' = IF Present(key) THEN to ELSE "dead"

\* Kernel::Node finds a plugin by its name.
Registered(name) == name \in Range(nodes)

\* ListPlugins: the names of the files, in any order; none if there is no directory.
ListPlugins ==
    /\ main = "list" /\ Returned("main")
    /\ listed' \in IF Present(<<"directory", 0>>) THEN SetToSeqs(Files) ELSE {<<>>}
    /\ main' = "load"
    /\ UNCHANGED <<absent, nodes, protocols, features>>

\* A file that dlopen refuses, or that has no LoadPlugins, throws out of Master's
\* constructor; any other registers what it provides after what there is.
LoadPlugin ==
    /\ main = "load" /\ listed # <<>>
    /\ IF Present(<<"plugin", Head(listed)>>)
         THEN /\ listed' = Tail(listed)
              /\ nodes' = nodes \o Registers[Head(listed)].nodes
              /\ protocols' = protocols \o Registers[Head(listed)].protocols
              /\ features' = features \o Registers[Head(listed)].features
              /\ UNCHANGED main
         ELSE main' = "dead" /\ UNCHANGED <<listed, nodes, protocols, features>>
    /\ UNCHANGED absent

Loaded ==
    /\ main = "load" /\ listed = <<>>
    /\ main' = "protocols"
    /\ UNCHANGED <<absent, listed, nodes, protocols, features>>

LoadPlugins == ListPlugins \/ LoadPlugin \/ Loaded

KernelTypeOK ==
    /\ absent \in Absent
    /\ Range(listed) \subseteq Files
    /\ Range(nodes) \subseteq UNION {Range(Registers[f].nodes) : f \in Files}
    /\ Range(protocols) \subseteq UNION {Range(Registers[f].protocols) : f \in Files}
    /\ Range(features) \subseteq UNION {Range(Registers[f].features) : f \in Files}
=============================================================================
