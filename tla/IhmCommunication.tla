-------------------------- MODULE IhmCommunication ---------------------------
(***************************************************************************)
(* src/src/IhmCommunicationThread.cpp, with the loop of misc/Thread.cpp    *)
(* that drives it and the start-up of src/src/master.cpp that connects it  *)
(* to the protocols.                                                       *)
(*                                                                         *)
(* A protocol thread that has received a frame calls Notify, which runs    *)
(* AddToListCmd in that thread; the communication thread empties ListCmd   *)
(* and posts each value of a frame to the IHM.  Every access to ListCmd is *)
(* one critical section of listcmd_mutex and one action here.              *)
(*                                                                         *)
(* A frame is named by its arrival number, its index in accepted.          *)
(***************************************************************************)
EXTENDS Naturals, Sequences, Functions

CONSTANTS
    Protocols,   \* the protocol plugins loaded
    Senders,     \* the node addresses frames come from
    Plugin,      \* NodesManager::_nodes after Init: the plugin of a node, or "none"
    MaxValues,   \* bound: values in one frame
    Traffic,     \* the frames the nodes send
    MaxFrames,   \* bound: frames accepted
    MaxMissed,   \* bound: frames received before the subscription
    Blocks       \* the outcome of a frame whose decoding never returns

DhtValues == 2   \* NodeDhtXX::GetData always returns temperature and humidity

ASSUME ProtocolsAssumption == Protocols # {}
ASSUME PluginAssumption == Plugin \in [Senders -> {"none", "Node0_5", "NodeDhtXX"}]
ASSUME BoundsAssumption == /\ MaxValues \in Nat /\ MaxValues >= DhtValues
                           /\ MaxFrames \in Nat
                           /\ MaxMissed \in Nat
ASSUME BlocksAssumption == Blocks \notin Nat

\* What a received frame is to this component: who sent it, how many values
\* it carries, and whether each of them has a type the plugin knows.
Frame == [sender : Senders, values : 0..MaxValues, decodable : BOOLEAN]
ASSUME TrafficAssumption == Traffic \subseteq Frame

VARIABLES
    subscribed,  \* protocols whose signal is connected to AddToListCmd
    accepted,    \* every frame AddToListCmd was called with, in order
    missed,      \* frames notified while nobody was subscribed
    ListCmd,     \* the waiting list
    pc,          \* where the communication thread is
    size, i,     \* locals of ThreadAction
    frame,       \* the frame popped last (0: none yet)
    index,       \* putFrame's position in dataList
    posted,      \* the posts made, in order: <<frame, value>>
    refused      \* the posts that failed

vars == <<subscribed, accepted, missed, ListCmd, pc, size, i, frame, index,
          posted, refused>>
threadVars == <<pc, size, i, frame, index>>

Init ==
    /\ subscribed = {} /\ accepted = <<>> /\ missed = 0
    /\ ListCmd = <<>> /\ pc = "unborn"
    /\ size = 0 /\ i = 0 /\ frame = 0 /\ index = 0
    /\ posted = <<>> /\ refused = {}

-----------------------------------------------------------------------------
(* Master::StartComm: the protocols, which are running since InitProtocols,*)
(* are subscribed to one after the other and then the thread is started.   *)

Subscribe ==
    \E p \in Protocols \ subscribed :
        /\ subscribed' = subscribed \cup {p}
        /\ UNCHANGED <<accepted, missed, ListCmd, posted, refused>>
        /\ UNCHANGED threadVars

StartThread ==
    /\ pc = "unborn" /\ subscribed = Protocols
    /\ pc' = "size"
    /\ UNCHANGED <<subscribed, accepted, missed, ListCmd, size, i, frame, index,
                   posted, refused>>

\* A protocol thread notifies a new frame.  With a subscriber the frame is
\* copied to the end of ListCmd before Notify returns.
AddToListCmd ==
    \E p \in subscribed, f \in Traffic :
        /\ Len(accepted) < MaxFrames
        /\ accepted' = Append(accepted, f)
        /\ ListCmd' = Append(ListCmd, Len(accepted) + 1)
        /\ UNCHANGED <<subscribed, missed, posted, refused>>
        /\ UNCHANGED threadVars

\* Without one the signal has no slot to call and the frame is gone.
NotifyNobody ==
    /\ subscribed # Protocols /\ missed < MaxMissed
    /\ missed' = missed + 1
    /\ UNCHANGED <<subscribed, accepted, ListCmd, posted, refused>>
    /\ UNCHANGED threadVars

-----------------------------------------------------------------------------
(* ThreadAction, called forever by Thread::ThreadMain.                     *)

\* The number of frames this turn will handle; none: pause and return.
ReadSize ==
    /\ pc = "size"
    /\ size' = Len(ListCmd) /\ i' = 0
    /\ pc' = IF Len(ListCmd) = 0 THEN "pause" ELSE "pop"
    /\ UNCHANGED <<subscribed, accepted, missed, ListCmd, frame, index, posted,
                   refused>>

\* Mutant: the newest frame is taken first.
PopLast ==
    /\ pc = "pop"
    /\ frame' = ListCmd[Len(ListCmd)]
    /\ ListCmd' = SubSeq(ListCmd, 1, Len(ListCmd) - 1)
    /\ pc' = "putFrame"
    /\ UNCHANGED <<subscribed, accepted, missed, size, i, index, posted, refused>>

Pop ==
    /\ pc = "pop"
    /\ frame' = Head(ListCmd) /\ ListCmd' = Tail(ListCmd)
    /\ pc' = "putFrame"
    /\ UNCHANGED <<subscribed, accepted, missed, size, i, index, posted, refused>>

PluginOf(f) == Plugin[accepted[f].sender]

\* The values GetData lists; Node0_5 loops for ever on a type it cannot skip,
\* NodeDhtXX reads a fixed structure and never looks at the types.
GetData(f) ==
    IF PluginOf(f) = "NodeDhtXX" THEN DhtValues
    ELSE IF PluginOf(f) = "none" THEN 0
    ELSE IF accepted[f].decodable \/ accepted[f].values = 0 THEN accepted[f].values
    ELSE Blocks

\* Mutant: the loop runs while i <= size.
NextFrameOnceMore ==
    /\ i' = i + 1
    /\ pc' = IF i + 1 <= size THEN "pop" ELSE "pause"

\* The end of one turn of the for loop.
NextFrame ==
    /\ i' = i + 1
    /\ pc' = IF i + 1 < size THEN "pop" ELSE "pause"

\* putFrame finds no plugin for the sender and returns 0.
PutFrameUnknown ==
    /\ pc = "putFrame" /\ PluginOf(frame) = "none"
    /\ pc' = "reinsert"
    /\ UNCHANGED <<subscribed, accepted, missed, ListCmd, size, i, frame, index,
                   posted, refused>>

\* Mutant: the position in dataList is not reset for a new frame.
PutFrameKeepsIndex ==
    /\ pc = "putFrame" /\ PluginOf(frame) # "none" /\ GetData(frame) # Blocks
    /\ IF GetData(frame) = 0
         THEN NextFrame
         ELSE pc' = "post" /\ UNCHANGED i
    /\ UNCHANGED <<subscribed, accepted, missed, ListCmd, size, frame, index, posted,
                   refused>>

\* GetData returned; with an empty list there is nothing to post.
PutFrameDecode ==
    /\ pc = "putFrame" /\ PluginOf(frame) # "none" /\ GetData(frame) # Blocks
    /\ index' = 0
    /\ IF GetData(frame) = 0
         THEN NextFrame
         ELSE pc' = "post" /\ UNCHANGED i
    /\ UNCHANGED <<subscribed, accepted, missed, ListCmd, size, frame, posted,
                   refused>>

\* Mutant: only the first value of a frame is posted.
DoPostFirst ==
    /\ pc = "post"
    /\ posted' = Append(posted, <<frame, index + 1>>)
    /\ index' = index + 1
    /\ NextFrame
    /\ UNCHANGED <<subscribed, accepted, missed, ListCmd, size, frame, refused>>

\* One doPost; its result is not looked at.
DoPost ==
    /\ pc = "post"
    /\ \E fails \in BOOLEAN :
         refused' = IF fails THEN refused \cup {<<frame, index + 1>>} ELSE refused
    /\ posted' = Append(posted, <<frame, index + 1>>)
    /\ index' = index + 1
    /\ IF index + 1 = GetData(frame)
         THEN NextFrame
         ELSE UNCHANGED <<pc, i>>
    /\ UNCHANGED <<subscribed, accepted, missed, ListCmd, size, frame>>

\* Mutant: a frame nobody can decode is dropped.
ReinsertForgets ==
    /\ pc = "reinsert"
    /\ NextFrame
    /\ UNCHANGED <<subscribed, accepted, missed, ListCmd, size, frame, index, posted,
                   refused>>

\* putFrame returned 0: back to the end of the list.
Reinsert ==
    /\ pc = "reinsert"
    /\ ListCmd' = Append(ListCmd, frame)
    /\ NextFrame
    /\ UNCHANGED <<subscribed, accepted, missed, size, frame, index, posted, refused>>

Pause ==
    /\ pc = "pause"
    /\ pc' = "size"
    /\ UNCHANGED <<subscribed, accepted, missed, ListCmd, size, i, frame, index,
                   posted, refused>>

ThreadAction == ReadSize \/ Pop \/ PutFrameUnknown \/ PutFrameDecode \/ DoPost
                  \/ Reinsert \/ Pause

Next == Subscribe \/ StartThread \/ AddToListCmd \/ NotifyNobody \/ ThreadAction

Spec == Init /\ [][Next]_vars

\* main reaches StartComm and finishes it; the thread is scheduled, and the
\* IHM answers or refuses each post (curl has no time limit of its own).
FairSpec == Spec /\ WF_vars(Subscribe) /\ WF_vars(StartThread) /\ WF_vars(ThreadAction)

-----------------------------------------------------------------------------
(* Properties                                                              *)

Known(f) == PluginOf(f) # "none"
Accepted == DOMAIN accepted
Waiting == Range(ListCmd)
InHand == IF pc \in {"putFrame", "post", "reinsert"} THEN {frame} ELSE {}
Posted == Range(posted)

\* Every variable has its type and the loop counter stays inside the turn.
TypeOK ==
    /\ subscribed \subseteq Protocols
    /\ accepted \in Seq(Frame)
    /\ missed \in Nat
    /\ ListCmd \in Seq(Accepted)
    /\ pc \in {"unborn", "size", "pop", "putFrame", "post", "reinsert", "pause"}
    /\ size \in Nat /\ i \in 0..size
    /\ frame \in Accepted \cup {0}
    /\ index \in 0..MaxValues
    /\ posted \in Seq(Accepted \X (1..MaxValues))
    /\ refused \subseteq Posted

\* ThreadAction pops as many frames as the size it read before, with the lock
\* released in between: front() and pop_front() never meet an empty list.
PopNeverEmpty == pc = "pop" => /\ i < size
                               /\ Len(ListCmd) >= size - i

\* A frame is never in two places, and a frame whose sender no plugin claims
\* is never dropped either: putFrame returns 0 for it on every turn, so it
\* stays in the list for as long as the master runs.
UnknownKeptForEver ==
    /\ \A m, n \in DOMAIN ListCmd : ListCmd[m] = ListCmd[n] => m = n
    /\ InHand \cap Waiting = {}
    /\ \A f \in Accepted : ~Known(f) => f \in Waiting \cup InHand

\* Known frames leave the list in the order they came, whatever number of
\* unknown frames goes round between them: those still waiting are sorted, and
\* nothing has been posted of a frame behind the one being handled.
KnownInOrder ==
    /\ \A m, n \in DOMAIN ListCmd :
          m < n /\ Known(ListCmd[m]) /\ Known(ListCmd[n]) => ListCmd[m] < ListCmd[n]
    /\ \A f \in InHand, g \in Waiting : Known(f) /\ Known(g) => f < g
    /\ \A x \in Posted, g \in Waiting : Known(g) => x[1] < g
    /\ \A x \in Posted, f \in InHand : Known(f) => x[1] <= f

\* The thread, its list and its re-insertions implement the plain feed: every
\* value of every decodable known frame is posted, once and in order.
Feed == INSTANCE IhmFeed WITH arrivals <- [f \in Accepted |-> GetData(f)]
ImplementsFeed == Feed!FeedSpec

\* The comment at line 79 says a frame that failed to be sent is re-inserted:
\* once the thread has moved on, a frame with a refused post waits again.
RefusedIsReinserted == \A x \in refused : x[1] \in Waiting \cup InHand
=============================================================================
