------------------------ MODULE ContextLifecycle_proof ------------------------
(***************************************************************************)
(* Proofs about ContextLifecycle, for any number of workers, entities and  *)
(* remote participants, whatever fails and however early rmw_context_fini  *)
(* is called.                                                              *)
(***************************************************************************)
EXTENDS ContextLifecycle, FiniteSetTheorems, TLAPS

\* The steps of stop_graph_listener and of finalize_graph_channel.
Stopping == {"store", "trigger", "join"}
Tearing == Stopping \cup {"unset", "suppress", "destroy"}

MainPlaces == {"idle", "channel", "start", "await", "check"} \cup Tearing

\* Where a worker is when it is inside rmw_create_node or rmw_destroy_node.
WorkerPlaces == {"adding", "removing", "free"}

InInit == call \in {"init_failed", "init_partial"}

\* Every variable that a proof reads has its type.
TypeOK ==
  /\ context \in {"zero", "initializing", "up"}
  /\ shutdown \in BOOLEAN
  /\ nodes \in SUBSET Nodes
  /\ others \in SUBSET Others
  /\ active \in Int
  /\ channel \in SUBSET Parts
  /\ publishes \in BOOLEAN
  /\ suppress \in BOOLEAN
  /\ announcing \in SUBSET Nodes
  /\ startup \in {"unset", "true", "false"}
  /\ listener \in {"none", "starting", "check", "wait", "reset", "take", "leave", "done"}
  /\ pc \in [Workers \cup {Main} -> MainPlaces \cup WorkerPlaces]
  /\ pc[Main] \in MainPlaces
  /\ call \in {"none", "init_failed", "init_partial", "shutdown", "fini"}

\* The workers that are freeing a node.
FreeingWorkers == {w \in Workers : pc[w] = "free"}

\* The listener's wait set.
WaitSets == IF listener \in {"check", "wait", "reset", "take", "leave"} THEN 1 ELSE 0

\* Before rmw_init has returned and after rmw_context_fini has, the application
\* has no entities and has shut nothing down.
NothingOutsideUp ==
  context # "up" =>
    nodes = {} /\ others = {} /\ announcing = {} /\ FreeingWorkers = {} /\ ~shutdown

\* Where Main is tells what the context is and what it is torn down for.
MainKnows ==
  /\ context = "zero" => pc[Main] = "idle"
  /\ context = "initializing" <=>
       pc[Main] \in {"channel", "start", "await"} \/ (pc[Main] \in Tearing /\ InInit)
  /\ pc[Main] \in {"start", "await"} => call = "init_failed"
  /\ pc[Main] \in Tearing => call # "none"
  /\ pc[Main] \in {"unset", "suppress", "destroy"} => call # "shutdown"
  /\ pc[Main] \in Stopping /\ call = "shutdown" => shutdown

\* The listener thread exists and announcements are made only with the whole
\* channel, and the steps of Main leave and take these in order.
ChannelInOrder ==
  /\ listener # "none" \/ publishes \/ announcing # {} => channel = Parts
  /\ pc[Main] \in {"start", "await"} => publishes
  /\ context = "zero" \/ pc[Main] \in {"channel", "check"} => channel = {}
  /\ pc[Main] \in {"suppress", "destroy"} => ~publishes
  /\ suppress => pc[Main] = "destroy"
  /\ pc[Main] \in {"channel", "start", "unset", "suppress", "destroy", "check"} => listener = "none"
  /\ pc[Main] = "await" => listener # "none"
  /\ listener = "starting" <=> pc[Main] = "await" /\ startup = "unset"

\* The part of the inductive invariant that is about control.
Control ==
  /\ TypeOK
  /\ NothingOutsideUp
  /\ MainKnows
  /\ ChannelInOrder
  /\ ChannelIsWhole
  /\ NodesAnnounced

\* What each step is shown to keep by itself.
Lifecycle == Control /\ ActiveCountsEntities

\* The workers that hold the mutex to announce a node.
Announcers == {w \in Workers : pc[w] \in {"adding", "removing"}}

\* One worker at most announces a node, which is in the context already when it
\* is being removed and only then.
OneAnnouncer ==
  \A w \in Announcers :
    /\ Announcers = {w}
    /\ \E n \in Nodes : announcing = {n} /\ (n \in nodes <=> pc[w] = "removing")

\* The inductive invariant.
IInv == Lifecycle /\ OneAnnouncer

-----------------------------------------------------------------------------
(* The counting of entities.                                               *)

\* The parts of the channel are finitely many, and there are some.
LEMMA PartsAreFinite == IsFiniteSet(Parts) /\ Parts # {}
<1>1. IsFiniteSet({"node"})
  BY FS_Singleton
<1>2. IsFiniteSet({"pub"})
  BY FS_Singleton
<1>3. IsFiniteSet({"sub"})
  BY FS_Singleton
<1>4. IsFiniteSet({"gc"})
  BY FS_Singleton
<1>5. Parts = (({"node"} \cup {"pub"}) \cup {"sub"}) \cup {"gc"}
  BY DEF Parts
<1>6. IsFiniteSet({"node"} \cup {"pub"})
  BY <1>1, <1>2, FS_Union
<1>7. IsFiniteSet(({"node"} \cup {"pub"}) \cup {"sub"})
  BY <1>3, <1>6, FS_Union
<1> QED
  BY <1>4, <1>5, <1>7, FS_Union

\* What is counted is finite.
LEMMA CountedIsFinite ==
  ASSUME TypeOK
  PROVE  /\ IsFiniteSet(nodes) /\ Cardinality(nodes) \in Nat
         /\ IsFiniteSet(others) /\ Cardinality(others) \in Nat
         /\ IsFiniteSet(channel) /\ Cardinality(channel) \in Nat
         /\ IsFiniteSet(FreeingWorkers) /\ Cardinality(FreeingWorkers) \in Nat
<1>1. IsFiniteSet(nodes) /\ IsFiniteSet(others)
  BY FS_Subset, ContextConstants DEF TypeOK
<1>2. IsFiniteSet(channel)
  BY PartsAreFinite, FS_Subset DEF TypeOK
<1>3. IsFiniteSet(FreeingWorkers)
  <2>1. FreeingWorkers \subseteq Workers
    BY DEF FreeingWorkers
  <2> QED
    BY <2>1, FS_Subset, ContextConstants
<1> QED
  BY <1>1, <1>2, <1>3, FS_CardinalityType

\* The number of entities, by its parts.
LEMMA CountByParts ==
  EntityCount = Cardinality(nodes) + Cardinality(others) + Cardinality(channel)
                  + Cardinality(FreeingWorkers) + WaitSets
  BY DEF EntityCount, FreeingWorkers, WaitSets

\* The same after a step.
LEMMA CountByPartsNext ==
  EntityCount' = Cardinality(nodes') + Cardinality(others') + Cardinality(channel')
                   + Cardinality(FreeingWorkers') + WaitSets'
  BY DEF EntityCount, FreeingWorkers, WaitSets

\* A step that makes and destroys nothing keeps the count right.
LEMMA NothingCounted ==
  ASSUME ActiveCountsEntities,
         UNCHANGED <<active, nodes, others, channel>>,
         FreeingWorkers' = FreeingWorkers,
         WaitSets' = WaitSets
  PROVE  ActiveCountsEntities'
<1>1. EntityCount' = EntityCount
  BY DEF EntityCount, FreeingWorkers, WaitSets
<1> QED
  BY <1>1 DEF ActiveCountsEntities

\* A step of Main alone frees no node.
LEMMA MainMoves ==
  ASSUME TypeOK, NEW s \in MainPlaces, Go(Main, s)
  PROVE  /\ pc' \in [Workers \cup {Main} -> MainPlaces \cup WorkerPlaces]
         /\ pc'[Main] = s
         /\ FreeingWorkers' = FreeingWorkers
  BY ContextConstants DEF TypeOK, Go, FreeingWorkers

-----------------------------------------------------------------------------
(* The steps.                                                              *)

\* rmw_init starts with a context that has nothing (rmw_init.cpp 226).
LEMMA InitContextInv ==
  ASSUME Lifecycle, InitContext
  PROVE  Lifecycle'
<1>1. TypeOK'
  BY DEF InitContext, Go, entityVars, channelVars, listenerVars, Lifecycle, Control,
     TypeOK, MainPlaces
<1>2. NothingOutsideUp' /\ MainKnows'
  BY DEF InitContext, Go, entityVars, Lifecycle, Control, TypeOK, Tearing, Stopping,
     NothingOutsideUp, MainKnows, FreeingWorkers
<1>3. ChannelInOrder'
  BY PartsAreFinite DEF entityVars, InitContext, Go, channelVars, listenerVars, Lifecycle, Control,
     TypeOK, ChannelInOrder
<1>4. ChannelIsWhole' /\ NodesAnnounced'
  BY DEF InitContext, ChannelIsWhole, NodesAnnounced
<1>5. ActiveCountsEntities'
  <2>1. FreeingWorkers' = FreeingWorkers /\ WaitSets' = WaitSets
    BY DEF InitContext, Go, listenerVars, Lifecycle, Control, TypeOK, FreeingWorkers,
       WaitSets
  <2> QED
    BY <2>1, NothingCounted DEF Lifecycle, InitContext, entityVars, channelVars
<1> QED
  BY <1>1, <1>2, <1>3, <1>4, <1>5 DEF Lifecycle, Control

\* The channel is made of what could be made, and each part is counted; what
\* follows depends on whether it is whole (graph_discovery.cpp 208).
LEMMA InitChannelInv ==
  ASSUME Lifecycle, InitChannel
  PROVE  Lifecycle'
<1> DEFINE Made(made) ==
             /\ channel' = made
             /\ active' = active + Cardinality(made)
             /\ publishes' = (made = Parts)
             /\ Go(Main, IF made = Parts THEN "start" ELSE "store")
             /\ call' = IF made = Parts THEN "init_failed" ELSE "init_partial"
             /\ UNCHANGED context
<1>1. /\ pc[Main] = "channel"
      /\ UNCHANGED <<shutdown, nodes, others, announcing, suppress, startup, listener, announced>>
  BY DEF InitChannel, entityVars
<1>2. CASE /\ context' = "zero" /\ Go(Main, "idle")
           /\ UNCHANGED <<active, channel, publishes, call>>
  <2>1. TypeOK'
    BY <1>1, <1>2 DEF Go, Lifecycle, Control, TypeOK, MainPlaces
  <2>2. NothingOutsideUp' /\ MainKnows'
    BY <1>1, <1>2 DEF Go, Lifecycle, Control, TypeOK, Tearing, Stopping,
       NothingOutsideUp, MainKnows, FreeingWorkers
  <2>3. ChannelInOrder'
    BY <1>1, <1>2 DEF Go, Lifecycle, Control, ChannelInOrder
  <2>4. ChannelIsWhole' /\ NodesAnnounced'
    BY <1>1, <1>2 DEF ChannelIsWhole, NodesAnnounced
  <2>5. ActiveCountsEntities'
    <3>1. FreeingWorkers' = FreeingWorkers /\ WaitSets' = WaitSets
      BY <1>1, <1>2, MainMoves DEF Lifecycle, Control, MainPlaces, WaitSets
    <3> QED
      BY <1>1, <1>2, <3>1, NothingCounted DEF Lifecycle
  <2> QED
    BY <2>1, <2>2, <2>3, <2>4, <2>5 DEF Lifecycle, Control
<1>3. ASSUME NEW made \in PartsMade, Made(made)
      PROVE  Lifecycle'
  <2>1. made \subseteq Parts /\ IsFiniteSet(made) /\ Cardinality(made) \in Nat
    BY <1>3, PartsAreFinite, FS_Subset, FS_CardinalityType DEF PartsMade
  <2>2. TypeOK'
    BY <1>1, <1>3, <2>1 DEF Go, Lifecycle, Control, TypeOK, MainPlaces, Tearing,
       Stopping
  <2>3. NothingOutsideUp' /\ MainKnows'
    BY <1>1, <1>3, <2>1 DEF Go, Lifecycle, Control, Tearing, Stopping, InInit,
       NothingOutsideUp, MainKnows, FreeingWorkers
  <2>4. ChannelInOrder'
    BY <1>1, <1>3, <2>1 DEF Go, Lifecycle, Control, TypeOK, MainKnows, ChannelInOrder
  <2>5. ChannelIsWhole' /\ NodesAnnounced'
    BY <1>1, <1>3, <2>1 DEF Lifecycle, Control, MainKnows, ChannelIsWhole,
       NodesAnnounced
  <2>6. ActiveCountsEntities'
    <3>1. Cardinality(made) \in Nat
      BY <2>1
    <3>2. channel = {} /\ Cardinality(channel) = 0
      BY <1>1, FS_EmptySet DEF Lifecycle, Control, ChannelInOrder
    <3>3. FreeingWorkers' = FreeingWorkers
      BY <1>3, MainMoves DEF Lifecycle, Control, MainPlaces, Tearing, Stopping
    <3>4. EntityCount' = EntityCount + Cardinality(made)
      BY <1>1, <1>3, <3>1, <3>2, <3>3, CountedIsFinite, CountByParts,
         CountByPartsNext DEF Lifecycle, Control, WaitSets
    <3> QED
      BY <1>3, <3>4 DEF Lifecycle, ActiveCountsEntities
  <2> QED
    BY <2>2, <2>3, <2>4, <2>5, <2>6 DEF Lifecycle, Control
<1> QED
  BY <1>1, <1>2, <1>3 DEF InitChannel, channelVars

\* The listener thread counts once it has its wait set (graph_discovery.cpp 264).
LEMMA StartListenerInv ==
  ASSUME Lifecycle, StartListener
  PROVE  Lifecycle'
<1>1. TypeOK'
  BY DEF StartListener, Go, entityVars, channelVars, Lifecycle, Control, TypeOK,
     MainPlaces, Tearing, Stopping
<1>2. NothingOutsideUp' /\ MainKnows'
  BY DEF StartListener, Go, entityVars, Lifecycle, Control, Tearing, Stopping, InInit,
     NothingOutsideUp, MainKnows, FreeingWorkers
<1>3. ChannelInOrder'
  BY DEF StartListener, Go, channelVars, Lifecycle, Control, TypeOK, ChannelInOrder
<1>4. ChannelIsWhole' /\ NodesAnnounced'
  BY DEF StartListener, Go, entityVars, channelVars, topicVars, Lifecycle, Control,
     ChannelIsWhole, NodesAnnounced
<1>5. ActiveCountsEntities'
  <2>1. FreeingWorkers' = FreeingWorkers /\ WaitSets' = WaitSets
    BY DEF StartListener, Go, Lifecycle, Control, ChannelInOrder, FreeingWorkers,
       WaitSets
  <2> QED
    BY <2>1, NothingCounted DEF Lifecycle, StartListener, entityVars, channelVars
<1> QED
  BY <1>1, <1>2, <1>3, <1>4, <1>5 DEF Lifecycle, Control

\* rmw_init succeeds only with a listener that has started, so with the whole
\* channel (graph_discovery.cpp 305).
LEMMA AwaitStartupInv ==
  ASSUME Lifecycle, AwaitStartup
  PROVE  Lifecycle'
<1>1. TypeOK'
  BY DEF AwaitStartup, Go, entityVars, channelVars, listenerVars, Lifecycle, Control,
     TypeOK, MainPlaces, Tearing, Stopping
<1>2. NothingOutsideUp' /\ MainKnows'
  BY DEF AwaitStartup, Go, entityVars, Lifecycle, Control, TypeOK, Tearing, Stopping,
     InInit, NothingOutsideUp, MainKnows, FreeingWorkers
<1>3. ChannelInOrder'
  BY DEF AwaitStartup, Go, Started, channelVars, listenerVars, Lifecycle, Control,
     ChannelInOrder
<1>4. ChannelIsWhole' /\ NodesAnnounced'
  BY DEF AwaitStartup, Started, entityVars, channelVars, listenerVars, topicVars,
     Lifecycle, Control, NothingOutsideUp, ChannelInOrder, ChannelIsWhole,
     NodesAnnounced
<1>5. ActiveCountsEntities'
  <2>1. FreeingWorkers' = FreeingWorkers /\ WaitSets' = WaitSets
    BY DEF AwaitStartup, Go, listenerVars, FreeingWorkers, WaitSets
  <2> QED
    BY <2>1, NothingCounted DEF Lifecycle, AwaitStartup, entityVars, channelVars
<1> QED
  BY <1>1, <1>2, <1>3, <1>4, <1>5 DEF Lifecycle, Control

\* The wait set is counted before rmw_init goes on (graph_discovery.cpp 265).
LEMMA ListenerStartInv ==
  ASSUME Lifecycle, ListenerStart
  PROVE  Lifecycle'
<1>1. TypeOK'
  BY DEF ListenerStart, entityVars, channelVars, Lifecycle, Control, TypeOK
<1>2. NothingOutsideUp' /\ MainKnows'
  BY DEF ListenerStart, entityVars, Lifecycle, Control, InInit, NothingOutsideUp,
     MainKnows, FreeingWorkers
<1>3. ChannelInOrder'
  BY DEF ListenerStart, channelVars, Lifecycle, Control, ChannelInOrder
<1>4. ChannelIsWhole' /\ NodesAnnounced'
  BY DEF ListenerStart, entityVars, channelVars, topicVars, Lifecycle, Control,
     ChannelIsWhole, NodesAnnounced
<1>5. ActiveCountsEntities'
  <2>1. FreeingWorkers' = FreeingWorkers /\ UNCHANGED <<nodes, others, channel>>
    BY DEF ListenerStart, entityVars, channelVars, FreeingWorkers
  <2>2. EntityCount' = EntityCount + WaitSets' - WaitSets
    BY <2>1, CountedIsFinite, CountByParts, CountByPartsNext DEF Lifecycle, Control, WaitSets
  <2>3. active' = active + WaitSets' - WaitSets
    BY DEF Lifecycle, Control, TypeOK, ListenerStart, WaitSets
  <2> QED
    BY <2>2, <2>3 DEF Lifecycle, ActiveCountsEntities
<1> QED
  BY <1>1, <1>2, <1>3, <1>4, <1>5 DEF Lifecycle, Control

\* In its loop the listener thread changes nothing but its place.
LEMMA LoopInv ==
  ASSUME Lifecycle,
         listener \in {"check", "wait", "reset", "take"},
         listener' \in {"check", "wait", "reset", "take", "leave"},
         UNCHANGED <<context, shutdown, entityVars, active, channelVars, startup, pc,
                     call, announced>>
  PROVE  Lifecycle'
<1>1. TypeOK'
  BY DEF entityVars, channelVars, Lifecycle, Control, TypeOK
<1>2. NothingOutsideUp' /\ MainKnows' /\ NodesAnnounced'
  BY DEF entityVars, channelVars, Lifecycle, Control, NothingOutsideUp,
     FreeingWorkers, MainKnows, InInit, NodesAnnounced
<1>3. ChannelInOrder' /\ ChannelIsWhole'
  BY DEF entityVars, channelVars, Lifecycle, Control, ChannelInOrder, ChannelIsWhole
<1>4. ActiveCountsEntities'
  BY NothingCounted DEF entityVars, channelVars, Lifecycle, FreeingWorkers, WaitSets
<1> QED
  BY <1>1, <1>2, <1>3, <1>4 DEF Lifecycle, Control

\* The wait set is uncounted when the thread ends (graph_discovery.cpp 297).
LEMMA ListenerLeaveInv ==
  ASSUME Lifecycle, ListenerLeave
  PROVE  Lifecycle'
<1>1. TypeOK'
  BY DEF ListenerLeave, entityVars, channelVars, Lifecycle, Control, TypeOK
<1>2. NothingOutsideUp' /\ MainKnows'
  BY DEF ListenerLeave, entityVars, Lifecycle, Control, InInit, NothingOutsideUp,
     MainKnows, FreeingWorkers
<1>3. ChannelInOrder'
  BY DEF ListenerLeave, channelVars, Lifecycle, Control, ChannelInOrder
<1>4. ChannelIsWhole' /\ NodesAnnounced'
  BY DEF ListenerLeave, entityVars, channelVars, topicVars, Lifecycle, Control,
     ChannelIsWhole, NodesAnnounced
<1>5. ActiveCountsEntities'
  <2>1. FreeingWorkers' = FreeingWorkers /\ UNCHANGED <<nodes, others, channel>>
    BY DEF ListenerLeave, entityVars, channelVars, FreeingWorkers
  <2>2. EntityCount' = EntityCount - 1
    BY <2>1, CountedIsFinite DEF Lifecycle, Control, EntityCount, FreeingWorkers, ListenerLeave
  <2> QED
    BY <2>2 DEF Lifecycle, ActiveCountsEntities, ListenerLeave
<1> QED
  BY <1>1, <1>2, <1>3, <1>4, <1>5 DEF Lifecycle, Control

\* The listener thread is told to stop and goes on (graph_discovery.cpp 316).
LEMMA StopListenerInv ==
  ASSUME Lifecycle, StopListener
  PROVE  Lifecycle'
<1>1. TypeOK'
  BY DEF StopListener, Signal, Go, entityVars, channelVars, Lifecycle, Control, TypeOK,
     MainPlaces, Tearing, Stopping
<1>2. NothingOutsideUp' /\ MainKnows'
  BY DEF StopListener, Signal, Go, entityVars, Lifecycle, Control, TypeOK, Tearing,
     Stopping, InInit, NothingOutsideUp, MainKnows, FreeingWorkers
<1>3. ChannelInOrder'
  BY DEF entityVars, StopListener, Signal, Go, channelVars, Lifecycle, Control, TypeOK,
     ChannelInOrder
<1>4. ChannelIsWhole' /\ NodesAnnounced'
  BY DEF StopListener, Signal, Go, entityVars, channelVars, topicVars, Lifecycle,
     Control, TypeOK, ChannelIsWhole, NodesAnnounced
<1>5. ActiveCountsEntities'
  <2>1. FreeingWorkers' = FreeingWorkers /\ WaitSets' = WaitSets
    BY DEF StopListener, Signal, Go, Lifecycle, Control, TypeOK, FreeingWorkers,
       WaitSets
  <2> QED
    BY <2>1, NothingCounted DEF Lifecycle, StopListener, entityVars, channelVars
<1> QED
  BY <1>1, <1>2, <1>3, <1>4, <1>5 DEF Lifecycle, Control

\* It is joined once it has ended, so it uses the channel no more
\* (graph_discovery.cpp 327).
LEMMA JoinInv ==
  ASSUME Lifecycle, Join
  PROVE  Lifecycle'
<1>1. TypeOK'
  BY DEF Join, Go, entityVars, channelVars, Lifecycle, Control, TypeOK, MainPlaces,
     Tearing
<1>2. NothingOutsideUp' /\ MainKnows'
  BY DEF Join, Go, entityVars, Lifecycle, Control, TypeOK, MainPlaces, Tearing, InInit,
     NothingOutsideUp, MainKnows, FreeingWorkers
<1>3. ChannelInOrder'
  BY DEF entityVars, Join, Joinable, Go, channelVars, Lifecycle, Control, ChannelInOrder
<1>4. ChannelIsWhole' /\ NodesAnnounced'
  BY DEF Join, Go, entityVars, channelVars, topicVars, Lifecycle, Control, TypeOK,
     MainPlaces, Tearing, MainKnows, ChannelIsWhole, NodesAnnounced
<1>5. ActiveCountsEntities'
  <2>1. FreeingWorkers' = FreeingWorkers /\ WaitSets' = WaitSets
    BY DEF Join, Go, FreeingWorkers, WaitSets
  <2> QED
    BY <2>1, NothingCounted DEF Lifecycle, Join, entityVars, channelVars
<1> QED
  BY <1>1, <1>2, <1>3, <1>4, <1>5 DEF Lifecycle, Control

\* No announcement is made any more (graph_discovery.cpp 339).
LEMMA UnsetCallbackInv ==
  ASSUME Lifecycle, UnsetCallback
  PROVE  Lifecycle'
<1>1. TypeOK'
  <2>1. /\ pc' \in [Workers \cup {Main} -> MainPlaces \cup WorkerPlaces]
        /\ pc'[Main] \in MainPlaces
    BY MainMoves DEF UnsetCallback, Lifecycle, Control, MainPlaces, Tearing
  <2>2. publishes' \in BOOLEAN
    BY DEF UnsetCallback, NoCallback
  <2> QED
    BY <2>1, <2>2 DEF UnsetCallback, entityVars, listenerVars, Lifecycle, Control, TypeOK
<1>2. NothingOutsideUp' /\ MainKnows'
  BY DEF UnsetCallback, Go, entityVars, Lifecycle, Control, Tearing, InInit,
     NothingOutsideUp, MainKnows, FreeingWorkers
<1>3. ChannelInOrder'
  BY DEF entityVars, UnsetCallback, Go, NoCallback, listenerVars, Lifecycle, Control,
     ChannelInOrder
<1>4. ChannelIsWhole' /\ NodesAnnounced'
  BY DEF UnsetCallback, Go, NoCallback, ChannelIsWhole, NodesAnnounced
<1>5. ActiveCountsEntities'
  <2>1. FreeingWorkers' = FreeingWorkers /\ WaitSets' = WaitSets
    BY DEF UnsetCallback, Go, listenerVars, FreeingWorkers, WaitSets
  <2> QED
    BY <2>1, NothingCounted DEF Lifecycle, UnsetCallback, entityVars
<1> QED
  BY <1>1, <1>2, <1>3, <1>4, <1>5 DEF Lifecycle, Control

\* Nor does any begin (graph_discovery.cpp 340).
LEMMA SuppressInv ==
  ASSUME Lifecycle, Suppress
  PROVE  Lifecycle'
<1>1. TypeOK'
  BY DEF Suppress, Go, entityVars, listenerVars, Lifecycle, Control, TypeOK,
     MainPlaces, Tearing
<1>2. NothingOutsideUp' /\ MainKnows'
  BY DEF Suppress, Go, entityVars, Lifecycle, Control, Tearing, InInit,
     NothingOutsideUp, MainKnows, FreeingWorkers
<1>3. ChannelInOrder'
  BY DEF Suppress, Go, entityVars, listenerVars, Lifecycle, Control, TypeOK, ChannelInOrder
<1>4. ChannelIsWhole' /\ NodesAnnounced'
  BY DEF Suppress, Go, entityVars, listenerVars, topicVars, Lifecycle, Control,
     TypeOK, ChannelIsWhole, NodesAnnounced
<1>5. ActiveCountsEntities'
  <2>1. FreeingWorkers' = FreeingWorkers /\ WaitSets' = WaitSets
    BY DEF Suppress, Go, listenerVars, FreeingWorkers, WaitSets
  <2> QED
    BY <2>1, NothingCounted DEF Lifecycle, Suppress, entityVars
<1> QED
  BY <1>1, <1>2, <1>3, <1>4, <1>5 DEF Lifecycle, Control

\* The parts are destroyed when neither the listener thread nor an announcement
\* needs them, and uncounted even if that fails (graph_discovery.cpp 341).
LEMMA DestroyChannelInv ==
  ASSUME Lifecycle, DestroyChannel
  PROVE  Lifecycle'
<1>1. TypeOK'
  <2>1. active' \in Int
    BY CountedIsFinite DEF Lifecycle, Control, TypeOK, DestroyChannel
  <2>2. pc' \in [Workers \cup {Main} -> MainPlaces \cup WorkerPlaces] /\ pc'[Main] \in MainPlaces
    BY DEF Lifecycle, Control, TypeOK, DestroyChannel, Go, MainPlaces
  <2>3. context' \in {"zero", "initializing", "up"} /\ shutdown' \in BOOLEAN
    BY DEF Lifecycle, Control, TypeOK, DestroyChannel, Zero
  <2> QED
    BY <2>1, <2>2, <2>3 DEF Lifecycle, Control, TypeOK, DestroyChannel, entityVars
<1>2. NothingOutsideUp' /\ MainKnows'
  BY DEF DestroyChannel, Zero, Go, entityVars, Lifecycle, Control, TypeOK, Tearing,
     Stopping, InInit, NothingOutsideUp, MainKnows, FreeingWorkers
<1>3. ChannelInOrder'
  BY DEF entityVars, DestroyChannel, MayDestroy, MutexFree, Go, Lifecycle, Control,
     ChannelInOrder
<1>4. ChannelIsWhole' /\ NodesAnnounced'
  BY DEF DestroyChannel, Lifecycle, Control, ChannelInOrder, ChannelIsWhole,
     NodesAnnounced
<1>5. ActiveCountsEntities'
  <2>1. Cardinality(channel') = 0
    BY FS_EmptySet DEF DestroyChannel
  <2>2. FreeingWorkers' = FreeingWorkers
    BY DEF DestroyChannel, Go, FreeingWorkers
  <2>3. EntityCount' = EntityCount - Cardinality(channel)
    BY <2>1, <2>2, CountedIsFinite, CountByParts, CountByPartsNext
    DEF Lifecycle, Control, DestroyChannel, entityVars, WaitSets
  <2> QED
    BY <2>3 DEF Lifecycle, ActiveCountsEntities, DestroyChannel
<1> QED
  BY <1>1, <1>2, <1>3, <1>4, <1>5 DEF Lifecycle, Control

\* rmw_shutdown only tells the listener thread to stop (rmw_init.cpp 339).
LEMMA ShutdownInv ==
  ASSUME Lifecycle, Shutdown
  PROVE  Lifecycle'
<1>1. TypeOK'
  BY DEF Shutdown, Go, entityVars, channelVars, listenerVars, Lifecycle, Control,
     TypeOK, MainPlaces, Tearing, Stopping
<1>2. NothingOutsideUp' /\ MainKnows'
  BY DEF Shutdown, Go, InInit, NothingOutsideUp, MainKnows
<1>3. ChannelInOrder'
  BY DEF entityVars, Shutdown, Go, channelVars, listenerVars, Lifecycle, Control, ChannelInOrder
<1>4. ChannelIsWhole' /\ NodesAnnounced'
  BY DEF Shutdown, ChannelIsWhole, NodesAnnounced
<1>5. ActiveCountsEntities'
  <2>1. FreeingWorkers' = FreeingWorkers /\ WaitSets' = WaitSets
    BY DEF Shutdown, Go, listenerVars, FreeingWorkers, WaitSets
  <2> QED
    BY <2>1, NothingCounted DEF Lifecycle, Shutdown, entityVars, channelVars
<1> QED
  BY <1>1, <1>2, <1>3, <1>4, <1>5 DEF Lifecycle, Control

\* rmw_context_fini begins with the channel (rmw_init.cpp 359).
LEMMA FiniInv ==
  ASSUME Lifecycle, Fini
  PROVE  Lifecycle'
<1>1. TypeOK'
  BY DEF Fini, Go, entityVars, channelVars, listenerVars, Lifecycle, Control, TypeOK,
     MainPlaces, Tearing, Stopping
<1>2. NothingOutsideUp' /\ MainKnows'
  BY DEF Fini, Go, InInit, NothingOutsideUp, MainKnows
<1>3. ChannelInOrder'
  BY DEF entityVars, Fini, Go, channelVars, listenerVars, Lifecycle, Control, ChannelInOrder
<1>4. ChannelIsWhole' /\ NodesAnnounced'
  BY DEF Fini, entityVars, channelVars, listenerVars, topicVars, Lifecycle, Control,
     ChannelIsWhole, NodesAnnounced
<1>5. ActiveCountsEntities'
  <2>1. FreeingWorkers' = FreeingWorkers /\ WaitSets' = WaitSets
    BY DEF Fini, Go, listenerVars, FreeingWorkers, WaitSets
  <2> QED
    BY <2>1, NothingCounted DEF Lifecycle, Fini, entityVars, channelVars
<1> QED
  BY <1>1, <1>2, <1>3, <1>4, <1>5 DEF Lifecycle, Control

\* A context goes only when it counts nothing, and as the count is right nothing
\* is left (rmw_init.cpp 382).
LEMMA FiniCheckInv ==
  ASSUME Lifecycle, FiniCheck
  PROVE  Lifecycle'
<1>1. active = 0 => nodes = {} /\ others = {} /\ FreeingWorkers = {}
  <2>1. WaitSets \in Nat
    BY DEF WaitSets
  <2>2. /\ Cardinality(nodes) \in Nat /\ Cardinality(others) \in Nat
        /\ Cardinality(channel) \in Nat /\ Cardinality(FreeingWorkers) \in Nat
    BY CountedIsFinite DEF Lifecycle, Control
  <2>3. active = Cardinality(nodes) + Cardinality(others) + Cardinality(channel)
                   + Cardinality(FreeingWorkers) + WaitSets
    BY CountByParts DEF Lifecycle, ActiveCountsEntities
  <2>4. ASSUME active = 0
        PROVE  /\ Cardinality(nodes) = 0 /\ Cardinality(others) = 0
               /\ Cardinality(FreeingWorkers) = 0
    <3> DEFINE n == Cardinality(nodes)
               o == Cardinality(others)
               c == Cardinality(channel)
               f == Cardinality(FreeingWorkers)
    <3>1. n \in Nat /\ o \in Nat /\ c \in Nat /\ f \in Nat
      BY <2>2
    <3>2. n + o + c + f + WaitSets = 0
      BY <2>3, <2>4
    <3> HIDE DEF n, o, c, f
    <3>3. n = 0 /\ o = 0 /\ f = 0
      BY <2>1, <3>1, <3>2
    <3> QED
      BY <3>3 DEF n, o, f
  <2> QED
    BY <2>4, CountedIsFinite, FS_EmptySet DEF Lifecycle, Control
<1>2. TypeOK'
  <2>1. /\ context' \in {"zero", context} /\ shutdown' \in {FALSE, shutdown}
        /\ pc' = [pc EXCEPT ![Main] = "idle"]
        /\ UNCHANGED <<entityVars, active, channelVars, listenerVars, call>>
    BY DEF FiniCheck, Zero, Go
  <2>2. /\ pc' \in [Workers \cup {Main} -> MainPlaces \cup WorkerPlaces]
        /\ pc'[Main] \in MainPlaces
    BY <2>1 DEF Lifecycle, Control, TypeOK, MainPlaces
  <2>3. UNCHANGED <<nodes, others, announcing, active, channel, publishes, suppress,
                    startup, listener, call>>
    BY <2>1 DEF entityVars, channelVars, listenerVars
  <2>4. context' \in {"zero", "initializing", "up"} /\ shutdown' \in BOOLEAN
    BY <2>1 DEF Lifecycle, Control, TypeOK
  <2> QED
    BY <2>2, <2>3, <2>4 DEF Lifecycle, Control, TypeOK
<1>3. NothingOutsideUp' /\ MainKnows'
  BY <1>1 DEF FiniCheck, MutexFree, MayFinalize, Zero, Go, entityVars, Lifecycle, Control, TypeOK,
     Tearing, Stopping, NothingOutsideUp, MainKnows, FreeingWorkers
<1>4. ChannelInOrder'
  BY <1>1 DEF entityVars, FiniCheck, Go, channelVars, listenerVars, Lifecycle, Control,
     ChannelInOrder
<1>5. ChannelIsWhole' /\ NodesAnnounced'
  BY <1>1, PartsAreFinite DEF FiniCheck, channelVars, listenerVars, Lifecycle, Control,
     ChannelInOrder, ChannelIsWhole, NodesAnnounced
<1>6. ActiveCountsEntities'
  <2>1. FreeingWorkers' = FreeingWorkers /\ WaitSets' = WaitSets
    BY MainMoves DEF Lifecycle, Control, MainPlaces, FiniCheck, listenerVars, WaitSets
  <2> QED
    BY <2>1, NothingCounted DEF Lifecycle, FiniCheck, entityVars, channelVars
<1> QED
  BY <1>2, <1>3, <1>4, <1>5, <1>6 DEF Lifecycle, Control

\* To announce a node takes the whole channel, and changes only who does what.
LEMMA StartAnnouncingInv ==
  ASSUME Lifecycle, NEW w \in Workers, NEW n \in Nodes, NEW s \in {"adding", "removing"},
         StartAnnouncing(w, n, s), Tells, context = "up", pc[w] = "idle",
         UNCHANGED <<context, shutdown, others, channelVars, listenerVars, call, topicVars>>
  PROVE  Lifecycle'
<1>1. TypeOK'
  BY ContextConstants DEF StartAnnouncing, Go, channelVars, listenerVars, Lifecycle,
     Control, TypeOK, WorkerPlaces
<1>2. NothingOutsideUp' /\ MainKnows'
  BY ContextConstants DEF StartAnnouncing, Go, Lifecycle, Control, InInit,
     NothingOutsideUp, MainKnows
<1>3. ChannelInOrder'
  BY ContextConstants DEF StartAnnouncing, Go, Tells, channelVars, listenerVars,
     Lifecycle, Control, ChannelInOrder
<1>4. ChannelIsWhole' /\ NodesAnnounced'
  BY ContextConstants DEF StartAnnouncing, Go, channelVars, listenerVars, topicVars,
     Lifecycle, Control, ChannelIsWhole, NodesAnnounced
<1>5. ActiveCountsEntities'
  <2>1. FreeingWorkers' = FreeingWorkers /\ WaitSets' = WaitSets
    BY DEF StartAnnouncing, Go, listenerVars, Lifecycle, Control, TypeOK,
       FreeingWorkers, WaitSets
  <2> QED
    BY <2>1, NothingCounted DEF StartAnnouncing, Lifecycle, channelVars
<1> QED
  BY <1>1, <1>2, <1>3, <1>4, <1>5 DEF Lifecycle, Control

\* A node that is not announced is counted at once; one that is, is only chosen
\* (rmw_node.cpp 117).
LEMMA CreateNodeInv ==
  ASSUME Lifecycle, NEW w \in Workers, NEW n \in Nodes, CreateNode(w, n)
  PROVE  Lifecycle'
<1>1. CASE Tells
  BY <1>1, StartAnnouncingInv DEF CreateNode, MayCreate
<1>2. CASE ~Tells
  <2>1. /\ nodes' = nodes \cup {n} /\ active' = active + 1
        /\ UNCHANGED <<announcing, pc, context, shutdown, others, channelVars,
                       listenerVars, call, topicVars>>
    BY <1>2 DEF CreateNode
  <2>2. TypeOK'
    BY <2>1 DEF channelVars, listenerVars, Lifecycle, Control, TypeOK
  <2>3. NothingOutsideUp' /\ MainKnows'
    BY <2>1 DEF CreateNode, MayCreate, Lifecycle, Control, InInit, NothingOutsideUp,
       MainKnows
  <2>4. ChannelInOrder'
    BY <2>1 DEF channelVars, listenerVars, Lifecycle, Control, ChannelInOrder
  <2>5. ChannelIsWhole'
    BY <2>1 DEF channelVars, listenerVars, Lifecycle, Control, ChannelIsWhole
  <2>6. NodesAnnounced'
    <3>1. ~publishes
      BY <1>2 DEF Tells, Lifecycle, Control, ChannelInOrder
    <3> QED
      BY <2>1, <3>1 DEF channelVars, NodesAnnounced
  <2>7. ActiveCountsEntities'
    <3>1. Cardinality(nodes') = Cardinality(nodes) + 1
      BY <2>1, CountedIsFinite, FS_AddElement DEF Lifecycle, Control, CreateNode
    <3>2. EntityCount' = EntityCount + 1
      BY <2>1, <3>1, CountedIsFinite
      DEF Lifecycle, Control, EntityCount, FreeingWorkers, channelVars, listenerVars
    <3> QED
      BY <2>1, <3>2 DEF Lifecycle, ActiveCountsEntities
  <2> QED
    BY <2>2, <2>3, <2>4, <2>5, <2>6, <2>7 DEF Lifecycle, Control
<1> QED
  BY <1>1, <1>2

\* A worker that frees a node it has taken out keeps the node counted.
LEMMA NodeLeaves ==
  ASSUME Lifecycle, NEW w \in Workers, NEW n \in nodes,
         pc[w] # "free", context = "up",
         Go(w, "free"),
         nodes' = nodes \ {n},
         active' = active - Uncounting[1],
         announcing' \in SUBSET announcing,
         NodesAnnounced',
         UNCHANGED <<context, shutdown, others, channelVars, listenerVars, call>>
  PROVE  Lifecycle'
<1>1. TypeOK'
  BY ContextConstants DEF Go, Uncounting, channelVars, listenerVars, Lifecycle,
     Control, TypeOK, WorkerPlaces
<1>2. NothingOutsideUp' /\ MainKnows'
  BY ContextConstants DEF Go, Lifecycle, Control, InInit, NothingOutsideUp, MainKnows
<1>3. ChannelInOrder'
  BY ContextConstants DEF Go, channelVars, listenerVars, Lifecycle, Control, ChannelInOrder
<1>4. ChannelIsWhole'
  BY ContextConstants DEF Go, channelVars, listenerVars, Lifecycle, Control, ChannelIsWhole
<1>5. ActiveCountsEntities'
  <2>1. FreeingWorkers' = FreeingWorkers \cup {w} /\ w \notin FreeingWorkers
    BY DEF Lifecycle, Control, TypeOK, FreeingWorkers, Go
  <2>2. Cardinality(FreeingWorkers') = Cardinality(FreeingWorkers) + 1
    BY <2>1, CountedIsFinite, FS_AddElement DEF Lifecycle, Control
  <2>3. Cardinality(nodes') = Cardinality(nodes) - 1
    BY CountedIsFinite, FS_RemoveElement DEF Lifecycle, Control
  <2>4. EntityCount' = EntityCount
    BY <2>2, <2>3, CountedIsFinite
    DEF Lifecycle, Control, EntityCount, FreeingWorkers, channelVars, listenerVars
  <2> QED
    BY <2>4 DEF Lifecycle, Control, TypeOK, ActiveCountsEntities, Uncounting
<1> QED
  BY <1>1, <1>2, <1>3, <1>4, <1>5 DEF Lifecycle, Control

\* A node that is out of the graph stays counted while it is freed
\* (rmw_node.cpp 164).
LEMMA DestroyNodeInv ==
  ASSUME Lifecycle, NEW w \in Workers, NEW n \in Nodes, DestroyNode(w, n)
  PROVE  Lifecycle'
<1>1. CASE Tells
  BY <1>1, StartAnnouncingInv DEF DestroyNode
<1>2. CASE ~Tells
  <2>1. NodesAnnounced'
    BY <1>2 DEF DestroyNode, channelVars, topicVars, Lifecycle, Control, NodesAnnounced
  <2> QED
    BY <1>2, <2>1, NodeLeaves DEF DestroyNode
<1> QED
  BY <1>1, <1>2

\* A node is counted once it is announced with the ones before it, and one that
\* is removed leaves whether or not that is told (rmw_node.cpp 119, 138, 168).
LEMMA PublishInv ==
  ASSUME Lifecycle, OneAnnouncer, NEW w \in Workers, Publish(w)
  PROVE  Lifecycle'
<1>1. w \in Announcers
  BY DEF Publish, Announcers
<1>2. PICK n \in Nodes : announcing = {n} /\ (n \in nodes <=> pc[w] = "removing")
  BY <1>1 DEF OneAnnouncer
<1>3. context = "up"
  BY <1>2 DEF Lifecycle, Control, NothingOutsideUp
<1>4. UNCHANGED <<context, shutdown, others, channelVars, listenerVars, call>>
  BY DEF Publish
<1>5. CASE pc[w] = "removing"
  <2>1. /\ Go(w, "free") /\ nodes' = nodes \ {n} /\ active' = active - Uncounting[1]
        /\ announcing' = {}
    BY <1>2, <1>5 DEF Publish
  <2>2. announced' = nodes' \/ announced' = announced
    BY <1>2, <1>5 DEF Publish, Tell
  <2>3. NodesAnnounced'
    BY <1>4, <2>1, <2>2 DEF channelVars, Lifecycle, Control, NodesAnnounced
  <2> QED
    BY <1>2, <1>3, <1>4, <1>5, <2>1, <2>3, NodeLeaves
<1>6. CASE pc[w] = "adding"
  <2>1. /\ Go(w, "idle") /\ announcing' = {} /\ n \notin nodes
        /\ \/ nodes' = nodes \cup {n} /\ active' = active + 1 /\ announced' = nodes'
           \/ UNCHANGED <<nodes, active, announced>>
    BY <1>2, <1>6 DEF Publish, Tell, AnnouncedWith
  <2>2. TypeOK'
    BY <1>4, <2>1, ContextConstants DEF Go, channelVars, listenerVars, Lifecycle,
       Control, TypeOK, MainPlaces
  <2>3. NothingOutsideUp' /\ MainKnows'
    BY <1>3, <1>4, <2>1, ContextConstants DEF Go, Lifecycle, Control, InInit,
       NothingOutsideUp, MainKnows
  <2>4. ChannelInOrder'
    BY <1>4, <2>1, ContextConstants DEF Go, channelVars, listenerVars, Lifecycle,
       Control, ChannelInOrder
  <2>5. ChannelIsWhole'
    BY <1>4, <2>1, ContextConstants DEF Go, channelVars, listenerVars, Lifecycle,
       Control, ChannelIsWhole
  <2>6. NodesAnnounced'
    BY <1>4, <2>1 DEF channelVars, Lifecycle, Control, NodesAnnounced
  <2>7. ActiveCountsEntities'
    <3>1. FreeingWorkers' = FreeingWorkers
      BY <1>6, <2>1 DEF Go, Lifecycle, Control, TypeOK, FreeingWorkers
    <3>2. CASE nodes' = nodes \cup {n} /\ active' = active + 1
      <4>1. Cardinality(nodes') = Cardinality(nodes) + 1
        BY <2>1, <3>2, CountedIsFinite, FS_AddElement DEF Lifecycle, Control
      <4>2. EntityCount' = EntityCount + 1
        BY <1>4, <3>1, <4>1, CountedIsFinite, CountByParts, CountByPartsNext
        DEF Lifecycle, Control, WaitSets, channelVars, listenerVars
      <4> QED
        BY <3>2, <4>2 DEF Lifecycle, ActiveCountsEntities
    <3>3. CASE UNCHANGED <<nodes, active>>
      BY <1>4, <3>1, <3>3, NothingCounted
      DEF Lifecycle, WaitSets, channelVars, listenerVars
    <3> QED
      BY <2>1, <3>2, <3>3
  <2> QED
    BY <2>2, <2>3, <2>4, <2>5, <2>6, <2>7 DEF Lifecycle, Control
<1> QED
  BY <1>5, <1>6 DEF Publish

\* It is uncounted last (rmw_node.cpp 176).
LEMMA FreeNodeInv ==
  ASSUME Lifecycle, NEW w \in Workers, FreeNode(w)
  PROVE  Lifecycle'
<1>1. TypeOK'
  BY DEF FreeNode, Go, entityVars, channelVars, listenerVars, Lifecycle, Control,
     TypeOK, MainPlaces
<1>2. NothingOutsideUp' /\ MainKnows'
  BY ContextConstants DEF FreeNode, Go, Lifecycle, Control, InInit, NothingOutsideUp,
     MainKnows, FreeingWorkers
<1>3. ChannelInOrder'
  BY DEF entityVars, FreeNode, Go, channelVars, listenerVars, Lifecycle, Control, ChannelInOrder
<1>4. ChannelIsWhole' /\ NodesAnnounced'
  BY ContextConstants DEF FreeNode, Go, entityVars, channelVars, listenerVars,
     topicVars, Lifecycle, Control, ChannelIsWhole, NodesAnnounced
<1>5. ActiveCountsEntities'
  <2>1. FreeingWorkers' = FreeingWorkers \ {w} /\ w \in FreeingWorkers
    BY DEF Lifecycle, Control, TypeOK, FreeingWorkers, FreeNode, Go
  <2>2. Cardinality(FreeingWorkers') = Cardinality(FreeingWorkers) - 1
    BY <2>1, CountedIsFinite, FS_RemoveElement DEF Lifecycle, Control
  <2>3. EntityCount' = EntityCount - 1
    BY <2>2, CountedIsFinite DEF Lifecycle, Control, EntityCount, FreeingWorkers,
       FreeNode, entityVars, channelVars, listenerVars
  <2> QED
    BY <2>3 DEF Lifecycle, ActiveCountsEntities, FreeNode, Uncounting
<1> QED
  BY <1>1, <1>2, <1>3, <1>4, <1>5 DEF Lifecycle, Control

\* A guard condition or a wait set is counted when it is made (rmw_wait.cpp 129).
LEMMA CreateOtherInv ==
  ASSUME Lifecycle, NEW w \in Workers, NEW e \in Others, CreateOther(w, e)
  PROVE  Lifecycle'
<1>1. TypeOK'
  BY DEF CreateOther, channelVars, listenerVars, Lifecycle, Control, TypeOK
<1>2. NothingOutsideUp' /\ MainKnows'
  BY DEF CreateOther, MayCreate, Lifecycle, Control, InInit, NothingOutsideUp,
     MainKnows
<1>3. ChannelInOrder'
  BY DEF CreateOther, channelVars, listenerVars, Lifecycle, Control, ChannelInOrder
<1>4. ChannelIsWhole' /\ NodesAnnounced'
  BY DEF CreateOther, channelVars, listenerVars, topicVars, Lifecycle, Control,
     ChannelIsWhole, NodesAnnounced
<1>5. ActiveCountsEntities'
  <2>1. Cardinality(others') = Cardinality(others) + 1
    BY CountedIsFinite, FS_AddElement DEF Lifecycle, Control, CreateOther
  <2>2. EntityCount' = EntityCount + 1
    BY <2>1, CountedIsFinite DEF Lifecycle, Control, EntityCount, FreeingWorkers,
       CreateOther, channelVars, listenerVars
  <2> QED
    BY <2>2 DEF Lifecycle, ActiveCountsEntities, CreateOther
<1> QED
  BY <1>1, <1>2, <1>3, <1>4, <1>5 DEF Lifecycle, Control

\* It is uncounted when it is destroyed (rmw_wait.cpp 149).
LEMMA DestroyOtherInv ==
  ASSUME Lifecycle, NEW w \in Workers, NEW e \in Others, DestroyOther(w, e)
  PROVE  Lifecycle'
<1>1. TypeOK'
  BY DEF DestroyOther, channelVars, listenerVars, Lifecycle, Control, TypeOK
<1>2. NothingOutsideUp' /\ MainKnows'
  BY DEF DestroyOther, Lifecycle, Control, InInit, NothingOutsideUp, MainKnows
<1>3. ChannelInOrder'
  BY DEF DestroyOther, channelVars, listenerVars, Lifecycle, Control, ChannelInOrder
<1>4. ChannelIsWhole' /\ NodesAnnounced'
  BY DEF DestroyOther, channelVars, listenerVars, topicVars, Lifecycle, Control,
     ChannelIsWhole, NodesAnnounced
<1>5. ActiveCountsEntities'
  <2>1. Cardinality(others') = Cardinality(others) - 1
    BY CountedIsFinite, FS_RemoveElement DEF Lifecycle, Control, DestroyOther
  <2>2. EntityCount' = EntityCount - 1
    BY <2>1, CountedIsFinite DEF Lifecycle, Control, EntityCount, FreeingWorkers,
       DestroyOther, channelVars, listenerVars
  <2> QED
    BY <2>2 DEF Lifecycle, ActiveCountsEntities, DestroyOther
<1> QED
  BY <1>1, <1>2, <1>3, <1>4, <1>5 DEF Lifecycle, Control

\* What the discovery topic carries concerns none of it, nor does standing still.
LEMMA ElsewhereInv ==
  ASSUME Lifecycle,
         UNCHANGED <<context, shutdown, entityVars, active, channelVars, startup,
                     listener, pc, call, announced>>
  PROVE  Lifecycle'
<1>1. Control'
  BY DEF entityVars, channelVars, Lifecycle, Control, TypeOK, NothingOutsideUp,
     FreeingWorkers, MainKnows, InInit,
     ChannelInOrder, ChannelIsWhole, NodesAnnounced
<1>2. ActiveCountsEntities'
  BY NothingCounted DEF entityVars, channelVars, Lifecycle, FreeingWorkers, WaitSets
<1> QED
  BY <1>1, <1>2 DEF Lifecycle

-----------------------------------------------------------------------------

\* A program starts without a context.
LEMMA InitInv == Init => IInv
<1> SUFFICES ASSUME Init
             PROVE  IInv
  OBVIOUS
<1>1. TypeOK
  <2>1. pc = [t \in Workers \cup {Main} |-> "idle"] /\ "idle" \in MainPlaces
    BY DEF Init, MainPlaces
  <2>2. pc \in [Workers \cup {Main} -> MainPlaces \cup WorkerPlaces] /\ pc[Main] \in MainPlaces
    BY <2>1
  <2>3. /\ context \in {"zero", "initializing", "up"}
        /\ listener \in {"none", "starting", "check", "wait", "reset", "take", "leave", "done"}
    BY DEF Init
  <2>4. /\ nodes \in SUBSET Nodes /\ others \in SUBSET Others /\ channel \in SUBSET Parts
        /\ active \in Int
    BY DEF Init
  <2>5. /\ shutdown \in BOOLEAN /\ publishes \in BOOLEAN /\ suppress \in BOOLEAN
        /\ announcing \in SUBSET Nodes
    BY DEF Init
  <2>6. /\ startup \in {"unset", "true", "false"}
        /\ call \in {"none", "init_failed", "init_partial", "shutdown", "fini"}
    BY DEF Init
  <2> QED
    BY <2>2, <2>3, <2>4, <2>5, <2>6 DEF TypeOK
<1>2. NothingOutsideUp /\ MainKnows
  BY DEF Init, NothingOutsideUp, FreeingWorkers, MainKnows, Tearing, Stopping
<1>3. ChannelInOrder /\ ChannelIsWhole /\ NodesAnnounced
  BY DEF Init, ChannelInOrder, ChannelIsWhole, NodesAnnounced
<1>4. ActiveCountsEntities
  <2>1. nodes = {} /\ others = {} /\ channel = {} /\ FreeingWorkers = {} /\ WaitSets = 0
    BY DEF Init, FreeingWorkers, WaitSets
  <2> QED
    BY <2>1, FS_EmptySet, CountByParts DEF Init, ActiveCountsEntities
<1>5. OneAnnouncer
  BY DEF Init, OneAnnouncer, Announcers
<1> QED
  BY <1>1, <1>2, <1>3, <1>4, <1>5 DEF IInv, Lifecycle, Control

\* No step of a thread or of the discovery topic breaks the invariant.
LEMMA LifecycleNext == IInv /\ [Next]_vars => Lifecycle'
<1> SUFFICES ASSUME Lifecycle, OneAnnouncer, [Next]_vars
             PROVE  Lifecycle'
  BY DEF IInv
<1>1. CASE InitContext \/ Shutdown \/ Fini
  BY <1>1, InitContextInv, ShutdownInv, FiniInv
<1>2. CASE LifecycleStep
  BY <1>2, InitChannelInv, StartListenerInv, AwaitStartupInv, StopListenerInv, JoinInv,
     UnsetCallbackInv, SuppressInv, DestroyChannelInv, FiniCheckInv DEF LifecycleStep
<1>3. CASE ListenerStep \/ ListenerWaitFails
  <2>1. CASE ListenerCheck
    BY <2>1, LoopInv DEF ListenerCheck, entityVars, channelVars, topicVars
  <2>2. CASE ListenerWake
    BY <2>2, LoopInv DEF ListenerWake, entityVars, channelVars, topicVars
  <2>3. CASE ListenerWaitFails
    BY <2>3, LoopInv DEF ListenerWaitFails, entityVars, channelVars, topicVars
  <2>4. CASE ListenerReset
    BY <2>4, LoopInv DEF ListenerReset, entityVars, channelVars, topicVars
  <2>5. CASE ListenerTake
    BY <2>5, LoopInv DEF ListenerTake, entityVars, channelVars
  <2> QED
    BY <1>3, <2>1, <2>2, <2>3, <2>4, <2>5, ListenerStartInv, ListenerLeaveInv DEF ListenerStep
<1>4. ASSUME NEW w \in Workers, WorkerStep(w)
      PROVE  Lifecycle'
  <2>1. CASE CreateAfterShutdown(w)
    BY <2>1, ElsewhereInv DEF CreateAfterShutdown, vars, entityVars, channelVars
  <2> QED
    BY <1>4, <2>1, CreateNodeInv, DestroyNodeInv, PublishInv, FreeNodeInv, CreateOtherInv,
       DestroyOtherInv DEF WorkerStep
<1>5. ASSUME NEW r \in Participants, (r \in Remotes /\ RemoteAnnounces(r)) \/ Deliver(r)
      PROVE  Lifecycle'
  BY <1>5, ElsewhereInv DEF RemoteAnnounces, Deliver, entityVars, channelVars, listenerVars
<1>6. CASE UNCHANGED vars
  BY <1>6, ElsewhereInv DEF vars, entityVars, channelVars
<1> QED
  BY <1>1, <1>2, <1>3, <1>4, <1>5, <1>6 DEF Next, Participants

\* What does not touch a node or a worker leaves the announcer alone.
LEMMA OthersAnnounceNot ==
  ASSUME OneAnnouncer, UNCHANGED <<nodes, announcing>>,
         \A w \in Workers : pc'[w] = pc[w]
  PROVE  OneAnnouncer'
  BY DEF OneAnnouncer, Announcers

\* With the mutex free nobody announces anything.
LEMMA FreeMeansNobody ==
  ASSUME OneAnnouncer, MutexFree
  PROVE  Announcers = {}
  BY DEF OneAnnouncer, MutexFree

\* The mutex keeps a second worker from announcing, and the nodes as they are
\* until the first has done so (rmw_node.cpp 87, 160).
LEMMA AnnouncerNext == IInv /\ [Next]_vars => OneAnnouncer'
<1> SUFFICES ASSUME TypeOK, OneAnnouncer, [Next]_vars
             PROVE  OneAnnouncer'
  BY DEF IInv, Lifecycle, Control
<1>1. ASSUME NEW s, Go(Main, s)
      PROVE  \A w \in Workers : pc'[w] = pc[w]
  BY <1>1, ContextConstants DEF Go, TypeOK
<1>2. CASE InitContext \/ Shutdown \/ Fini
  BY <1>1, <1>2, OthersAnnounceNot DEF InitContext, Shutdown, Fini, entityVars
<1>3. CASE LifecycleStep
  <2>1. UNCHANGED <<nodes, announcing>>
    BY <1>3 DEF LifecycleStep, InitChannel, StartListener, AwaitStartup, StopListener,
       Join, UnsetCallback, Suppress, DestroyChannel, FiniCheck, entityVars
  <2>2. \E s : Go(Main, s)
    BY <1>3 DEF LifecycleStep, InitChannel, StartListener, AwaitStartup, StopListener,
       Signal, Join, UnsetCallback, Suppress, DestroyChannel, FiniCheck
  <2> QED
    BY <1>1, <2>1, <2>2, OthersAnnounceNot
<1>4. CASE ListenerStep \/ ListenerWaitFails
  BY <1>4, OthersAnnounceNot DEF ListenerStep, ListenerWaitFails, ListenerStart,
     ListenerCheck, ListenerWake, ListenerReset, ListenerTake, ListenerLeave, entityVars
<1>5. ASSUME NEW w \in Workers, NEW n \in Nodes, CreateNode(w, n) \/ DestroyNode(w, n)
      PROVE  OneAnnouncer'
  <2>1. MutexFree /\ Announcers = {} /\ pc[w] = "idle"
    BY <1>5, FreeMeansNobody DEF CreateNode, DestroyNode, MayCreate
  <2>2. CASE \E s \in {"adding", "removing"} :
               /\ StartAnnouncing(w, n, s)
               /\ n \in nodes <=> s = "removing"
    <3>1. PICK s \in {"adding", "removing"} :
            StartAnnouncing(w, n, s) /\ (n \in nodes <=> s = "removing")
      BY <2>2
    <3>2. Announcers' = {w} /\ pc'[w] = s
      BY <2>1, <3>1, ContextConstants DEF StartAnnouncing, Go, TypeOK, Announcers
    <3>3. announcing' = {n} /\ nodes' = nodes
      BY <3>1 DEF StartAnnouncing
    <3> QED
      BY <3>1, <3>2, <3>3 DEF OneAnnouncer
  <2>3. CASE UNCHANGED pc \/ Go(w, "free")
    <3>1. Announcers' = {}
      BY <2>1, <2>3, ContextConstants DEF Go, TypeOK, Announcers
    <3> QED
      BY <3>1 DEF OneAnnouncer
  <2> QED
    BY <1>5, <2>2, <2>3 DEF CreateNode, DestroyNode
<1>6. ASSUME NEW w \in Workers, Publish(w)
      PROVE  OneAnnouncer'
  <2>1. Announcers = {w}
    BY <1>6 DEF Publish, OneAnnouncer, Announcers
  <2>2. Announcers' = {}
    BY <1>6, <2>1 DEF Publish, Go, TypeOK, Announcers
  <2> QED
    BY <2>2 DEF OneAnnouncer
<1>7. ASSUME NEW w \in Workers, FreeNode(w)
      PROVE  OneAnnouncer'
  <2>1. Announcers' = Announcers /\ \A v \in Announcers : pc'[v] = pc[v]
    BY <1>7 DEF FreeNode, Go, TypeOK, Announcers
  <2> QED
    BY <1>7, <2>1 DEF FreeNode, entityVars, OneAnnouncer
<1>8. ASSUME NEW w \in Workers,
             \/ CreateAfterShutdown(w)
             \/ \E e \in Others : CreateOther(w, e) \/ DestroyOther(w, e)
      PROVE  OneAnnouncer'
  BY <1>8, OthersAnnounceNot DEF CreateAfterShutdown, CreateOther, DestroyOther, vars
<1>9. CASE (\E r \in Remotes : RemoteAnnounces(r)) \/ (\E r \in Participants : Deliver(r))
  BY <1>9, OthersAnnounceNot DEF RemoteAnnounces, Deliver, entityVars
<1>10. CASE UNCHANGED vars
  BY <1>10, OthersAnnounceNot DEF vars
<1> QED
  BY <1>2, <1>3, <1>4, <1>5, <1>6, <1>7, <1>8, <1>9, <1>10 DEF Next, WorkerStep

\* No step breaks the invariant.
LEMMA NextInv == IInv /\ [Next]_vars => IInv'
  BY LifecycleNext, AnnouncerNext DEF IInv

\* The invariant holds in every state of every behaviour.
THEOREM Invariance == Spec => []IInv
<1> QED
  BY InitInv, NextInv, PTL DEF Spec

\* The listener thread and the announcements use no part of the channel that has
\* been destroyed, or not been made.
THEOREM ChannelOutlivesUse == Spec => []UsesLiveChannel
<1>1. IInv => UsesLiveChannel
  BY DEF IInv, Lifecycle, Control, ChannelInOrder, UsesLiveChannel, Looping, Parts
<1> QED
  BY <1>1, Invariance, PTL

\* active_entities counts what there is, through every failure.
THEOREM CountIsExact == Spec => []ActiveCountsEntities
<1>1. IInv => ActiveCountsEntities
  BY DEF IInv, Lifecycle
<1> QED
  BY <1>1, Invariance, PTL

\* When a context goes, by rmw_context_fini or because rmw_init fails, no entity
\* is left, not the listener's wait set nor a node that is being freed.
THEOREM ContextGoesLast == Spec => []ContextOutlivesEntities
<1>1. IInv => ContextOutlivesEntities
  <2> SUFFICES ASSUME IInv, context = "zero"
               PROVE  EntityCount = 0
    BY DEF ContextOutlivesEntities
  <2>1. nodes = {} /\ others = {} /\ FreeingWorkers = {} /\ channel = {}
    BY DEF IInv, Lifecycle, Control, NothingOutsideUp, ChannelInOrder
  <2>2. WaitSets = 0
    BY <2>1 DEF IInv, Lifecycle, Control, ChannelInOrder, WaitSets, Parts
  <2> QED
    BY <2>1, <2>2, FS_EmptySet, CountByParts
<1> QED
  BY <1>1, Invariance, PTL

\* A context in use has all of the channel and a listener, or nothing of it.
THEOREM ChannelAllOrNothing == Spec => []ChannelIsWhole
<1>1. IInv => ChannelIsWhole
  BY DEF IInv, Lifecycle, Control
<1> QED
  BY <1>1, Invariance, PTL

\* As long as a context has its publish callback, that is unless rmw_init left it
\* without a channel or an early rmw_context_fini has taken the channel away, every
\* node in it has been announced to the other participants until shutdown, whatever
\* else fails.
THEOREM EveryNodeAnnounced == Spec => []NodesAnnounced
<1>1. IInv => NodesAnnounced
  BY DEF IInv, Lifecycle, Control
<1> QED
  BY <1>1, Invariance, PTL

=============================================================================
