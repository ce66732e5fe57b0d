--------------------------- MODULE ContextLifecycle ---------------------------
(***************************************************************************)
(* An rmw context: rmw_init, rmw_shutdown, rmw_context_fini, the entities  *)
(* applications create in it, and the graph discovery channel it owns: a   *)
(* node, a publisher, a subscription, a guard condition and a listener     *)
(* thread that takes the other participants' announcements.                *)
(*                                                                         *)
(* One thread (Main) calls the three lifecycle functions, as rmw requires; *)
(* Workers create and destroy entities while it does; remote participants  *)
(* announce themselves; the listener thread runs its loop.  A critical     *)
(* section of the context's mutex is one action, except that announcing a *)
(* node splits it in two: the choice to announce, then the announcement.   *)
(* Each access to what is shared without the mutex is one action, too      *)
(* (thread_is_running, the listener's guard condition, the startup         *)
(* promise, publish_callback, suppress_graph_updates).                     *)
(***************************************************************************)
EXTENDS Integers, FiniteSetsExt

CONSTANTS
  Main,            \* the thread calling rmw_init, rmw_shutdown, rmw_context_fini
  Workers,         \* the threads creating and destroying entities
  Nodes,           \* nodes they may create
  Others,          \* guard conditions and wait sets they may create
  Self,            \* this participant
  Remotes,         \* the other participants
  MaxVersion,      \* bound: announcements of each of those
  Failing,         \* what may fail: a part of the channel, "thread", "wait_set",
                   \* "dds", "wait", "destroy", "publish"
  EarlyFini        \* is rmw_context_fini also called before rmw_shutdown?

Parts == {"node", "pub", "sub", "gc"}

ASSUME ContextConstants ==
  /\ Main \notin Workers
  /\ Nodes \cap Others = {}
  /\ IsFiniteSet(Nodes) /\ IsFiniteSet(Others) /\ IsFiniteSet(Workers)
  /\ Self \notin Remotes
  /\ MaxVersion \in Nat
  /\ Failing \subseteq Parts \cup {"thread", "wait_set", "dds", "wait", "destroy", "publish"}
  /\ EarlyFini \in BOOLEAN

Participants == Remotes \cup {Self}

\* The outcomes of something that may fail.
Outcomes(what) == IF what \in Failing THEN {TRUE, FALSE} ELSE {TRUE}

VARIABLES
  context,   \* "zero", "initializing" or "up": rmw_init has returned OK
  shutdown,  \* impl->shutdown
  nodes,     \* impl->nodes, without the channel's own
  others,    \* the other entities of the application
  active,    \* impl->active_entities
  channel,   \* the parts of the channel that exist: graph_node, common.pub, ...
  publishes, \* common.publish_callback is set
  suppress,  \* impl->suppress_graph_updates
  announcing, \* the node being announced, with the context's mutex held: one at most
  running,   \* common.thread_is_running
  trigger,   \* the trigger value of common.listener_thread_gc
  startup,   \* the promise of the listener thread: "unset", "true", "false"
  listener,  \* where the listener thread is: "none" when there is none to join
  woken,     \* its locals: what rmw_wait found active, out of {"sub", "gc"}
  pc,        \* where Main and the workers are
  call,      \* what Main is tearing the channel down for
  announced, \* the nodes of the last announcement this participant made
  version,   \* per remote: the number of its last announcement
  inFlight,  \* participants whose last announcement has not arrived yet
  inbox,     \* the discovery subscription's history: one announcement
  graph      \* graph_cache: per remote, the announcement last taken in

entityVars   == <<nodes, others, announcing>>
channelVars  == <<channel, publishes, suppress>>
listenerVars == <<running, trigger, startup, listener, woken>>
topicVars    == <<announced, version, inFlight, inbox, graph>>
vars == <<context, shutdown, nodes, others, active, channel, publishes, suppress,
          announcing, running, trigger, startup, listener, woken, pc, call, announced,
          version, inFlight, inbox, graph>>

Empty == [from |-> Self, version |-> 0]   \* stands for no announcement

-----------------------------------------------------------------------------
(* rmw_init.                                                               *)

Go(t, where) == pc' = [pc EXCEPT ![t] = where]

\* Everything up to the graph channel: options, the context object, the DDS
\* participant, its GUID and the graph guard condition.  A failure undoes it
\* all, before any other thread can have seen the context.
InitContext ==
  /\ context = "zero"
  /\ pc[Main] = "idle"
  /\ \E ok \in Outcomes("dds") :
       IF ok THEN context' = "initializing" /\ Go(Main, "channel")
             ELSE UNCHANGED <<context, pc>>
  /\ UNCHANGED <<shutdown, entityVars, active, channelVars, listenerVars, call, topicVars>>

\* The parts are made in order; the subscription is attempted even without a
\* publisher, the guard condition only with both.
PartsMade ==
  {made \in SUBSET Parts :
     /\ "node" \in made
     /\ "gc" \in made => {"pub", "sub"} \subseteq made
     /\ Parts \ made \subseteq Failing
          \cup (IF {"pub", "sub"} \subseteq made THEN {} ELSE {"gc"})}

\* initialize_graph_channel, to the creation of the listener thread.  Without
\* all the parts it returns the result of finalize_graph_channel.  It suppresses
\* graph updates while it makes them, which no other thread can see yet.
InitChannel ==
  /\ pc[Main] = "channel"
  /\ \/ /\ "node" \in Failing
        /\ context' = "zero"
        /\ Go(Main, "idle")
        /\ UNCHANGED <<active, channel, publishes, running, call, inFlight>>
     \/ \E made \in PartsMade :
          /\ channel' = made
          /\ active' = active + Cardinality(made)
          /\ publishes' = (made = Parts)
          /\ running' = (made = Parts)
          /\ inFlight' = IF "sub" \in made
                         THEN {r \in Remotes : version[r] > 0} ELSE inFlight
          /\ Go(Main, IF made = Parts THEN "start" ELSE "store")
          /\ call' = IF made = Parts THEN "init_failed" ELSE "init_partial"
          /\ UNCHANGED context
  /\ UNCHANGED <<shutdown, entityVars, suppress, trigger, startup, listener,
                 woken, announced, version, inbox, graph>>

\* std::thread, which may throw.
StartListener ==
  /\ pc[Main] = "start"
  /\ \E ok \in Outcomes("thread") :
       /\ running' = ok
       /\ listener' = IF ok THEN "starting" ELSE listener
       /\ startup' = "unset"
       /\ Go(Main, IF ok THEN "await" ELSE "store")
  /\ UNCHANGED <<context, shutdown, entityVars, active, channelVars, trigger,
                 woken, call, topicVars>>

\* (Slip: the thread is not waited for.)
StartedAtOnce == {TRUE}

\* startup_done.get(), once the thread has kept its promise.
Started == {ok \in BOOLEAN : startup = IF ok THEN "true" ELSE "false"}

\* The context is the application's, or torn down again.
AwaitStartup ==
  /\ pc[Main] = "await"
  /\ \E ok \in Started :
       /\ context' = IF ok THEN "up" ELSE context
       /\ Go(Main, IF ok THEN "idle" ELSE "store")
  /\ UNCHANGED <<shutdown, entityVars, active, channelVars, listenerVars, call, topicVars>>

-----------------------------------------------------------------------------
(* The listener thread.                                                    *)

\* Its wait set, counted like the application's.  The context is not shut down
\* yet, as rmw_init waits for this step.
ListenerStart ==
  /\ listener = "starting"
  /\ \E ok \in Outcomes("wait_set") :
       IF ok
       THEN /\ active' = active + 1
            /\ startup' = "true"
            /\ listener' = "check"
            /\ UNCHANGED running
       ELSE /\ running' = FALSE
            /\ startup' = "false"
            /\ listener' = "done"
            /\ UNCHANGED active
  /\ UNCHANGED <<context, shutdown, entityVars, channelVars, trigger, woken, pc, call, topicVars>>

\* while (thread_is_running).
ListenerCheck ==
  /\ listener = "check"
  /\ listener' = IF running THEN "wait" ELSE "leave"
  /\ UNCHANGED <<context, shutdown, entityVars, active, channelVars, running,
                 trigger, startup, woken, pc, call, topicVars>>

\* rmw_wait, without a timeout, up to the return of the zzdds wait.
ListenerWake ==
  /\ listener = "wait"
  /\ LET ready == (IF inbox # Empty THEN {"sub"} ELSE {}) \cup (IF trigger THEN {"gc"} ELSE {})
     IN  ready # {} /\ woken' = ready
  /\ listener' = "reset"
  /\ UNCHANGED <<context, shutdown, entityVars, active, channelVars, running,
                 trigger, startup, pc, call, topicVars>>

\* A wait that fails ends the loop.
ListenerWaitFails ==
  /\ listener = "wait"
  /\ "wait" \in Failing
  /\ listener' = "leave"
  /\ UNCHANGED <<context, shutdown, entityVars, active, channelVars, running,
                 trigger, startup, woken, pc, call, topicVars>>

\* The rest of rmw_wait: a guard condition found active is reset.
ListenerReset ==
  /\ listener = "reset"
  /\ trigger' = IF "gc" \in woken THEN FALSE ELSE trigger
  /\ listener' = IF "sub" \in woken THEN "take" ELSE "check"
  /\ woken' = {}
  /\ UNCHANGED <<context, shutdown, entityVars, active, channelVars, running,
                 startup, pc, call, topicVars>>

\* (Slip: the sender is compared the wrong way round.)
IsOwn(from) == from = Self

\* Is an announcement one of another participant?
IsForeign(from) == from # Self

\* One announcement is taken; this participant's own are dropped.
ListenerTake ==
  /\ listener = "take"
  /\ inbox' = Empty
  /\ graph' = IF inbox # Empty /\ IsForeign(inbox.from)
              THEN [graph EXCEPT ![inbox.from] = inbox.version] ELSE graph
  /\ listener' = "check"
  /\ UNCHANGED <<context, shutdown, entityVars, active, channelVars, running, trigger,
                 startup, woken, pc, call, announced, version, inFlight>>

\* The wait set is destroyed and the thread ends.
ListenerLeave ==
  /\ listener = "leave"
  /\ active' = active - 1
  /\ listener' = "done"
  /\ UNCHANGED <<context, shutdown, entityVars, channelVars, running, trigger,
                 startup, woken, pc, call, topicVars>>

ListenerStep ==
  ListenerStart \/ ListenerCheck \/ ListenerWake \/ ListenerReset \/ ListenerTake \/ ListenerLeave

-----------------------------------------------------------------------------
(* stop_graph_listener and finalize_graph_channel.                         *)

\* (Slip: the guard condition is triggered before the flag is cleared.)
SignalBefore ==
  \/ /\ pc[Main] = "store"
     /\ trigger' = (trigger \/ "gc" \in channel)
     /\ Go(Main, "trigger")
     /\ UNCHANGED running
  \/ /\ pc[Main] = "trigger"
     /\ running' = FALSE
     /\ Go(Main, "join")
     /\ UNCHANGED trigger

\* thread_is_running is cleared, then the guard condition triggered.
Signal ==
  \/ /\ pc[Main] = "store"
     /\ running' = FALSE
     /\ Go(Main, "trigger")
     /\ UNCHANGED trigger
  \/ /\ pc[Main] = "trigger"
     /\ trigger' = (trigger \/ "gc" \in channel)
     /\ Go(Main, "join")
     /\ UNCHANGED running

StopListener ==
  /\ Signal
  /\ UNCHANGED <<context, shutdown, entityVars, active, channelVars, startup,
                 listener, woken, call, topicVars>>

\* (Slip: a thread that still runs is not waited for.)
JoinableEarly == TRUE

Joinable == listener \in {"none", "done"}

\* The thread, if there is one, is joined; this is all of rmw_shutdown.
Join ==
  /\ pc[Main] = "join"
  /\ Joinable
  /\ listener' = IF listener = "done" THEN "none" ELSE listener
  /\ Go(Main, IF call = "shutdown" THEN "idle" ELSE "unset")
  /\ UNCHANGED <<context, shutdown, entityVars, active, channelVars, running,
                 trigger, startup, woken, call, topicVars>>

\* (Slip: publish_callback stays set.)
KeepCallback == publishes

NoCallback == FALSE

UnsetCallback ==
  /\ pc[Main] = "unset"
  /\ publishes' = NoCallback
  /\ Go(Main, "suppress")
  /\ UNCHANGED <<context, shutdown, entityVars, active, channel, suppress,
                 listenerVars, call, topicVars>>

\* From here to the end of finalize_graph_channel no thread announces anything.
Suppress ==
  /\ pc[Main] = "suppress"
  /\ suppress' = TRUE
  /\ Go(Main, "destroy")
  /\ UNCHANGED <<context, shutdown, entityVars, active, channel, publishes,
                 listenerVars, call, topicVars>>

\* The state of a context that is gone.
Zero ==
  /\ context' = "zero"
  /\ shutdown' = FALSE
  /\ graph' = [r \in Remotes |-> 0]
  /\ announced' = {}

\* No thread holds the context's mutex to announce a node.
MutexFree == announcing = {}

\* (Slip: the discovery entities are destroyed without the mutex.)
DestroyAtOnce == TRUE

\* rmw_destroy_subscription, the first of the destructions, takes the mutex.
MayDestroy == MutexFree

\* The parts of the channel are destroyed and uncounted, which may fail and
\* still destroys them; finalize_graph_channel returns to its caller.
DestroyChannel ==
  /\ pc[Main] = "destroy"
  /\ MayDestroy
  /\ channel' = {}
  /\ suppress' = FALSE
  /\ active' = active - Cardinality(channel)
  /\ trigger' = FALSE
  /\ inbox' = Empty
  /\ inFlight' = {}
  /\ \E ok \in Outcomes("destroy") :
       /\ Go(Main, IF call = "fini" /\ ok THEN "check" ELSE "idle")
       /\ CASE call = "init_failed" \/ (call = "init_partial" /\ ~ok) -> Zero
            [] call = "init_partial" /\ ok ->
                 context' = "up" /\ UNCHANGED <<shutdown, graph, announced>>
            [] OTHER -> UNCHANGED <<context, shutdown, graph, announced>>
  /\ UNCHANGED <<entityVars, publishes, running, startup, listener, woken, call, version>>

-----------------------------------------------------------------------------
(* rmw_shutdown and rmw_context_fini.                                      *)

Shutdown ==
  /\ context = "up"
  /\ pc[Main] = "idle"
  /\ MutexFree
  /\ shutdown' = TRUE
  /\ call' = "shutdown"
  /\ Go(Main, "store")
  /\ UNCHANGED <<context, entityVars, active, channelVars, listenerVars, topicVars>>

\* rmw_context_fini finalizes the channel before it looks at anything else.
Fini ==
  /\ context = "up"
  /\ pc[Main] = "idle"
  /\ EarlyFini \/ shutdown
  /\ call' = "fini"
  /\ Go(Main, "store")
  /\ UNCHANGED <<context, shutdown, entityVars, active, channelVars, listenerVars, topicVars>>

\* (Slip: entities do not keep the context.)
MayFinalizeAny == shutdown

MayFinalize == shutdown /\ active = 0

\* It is rejected, or the context goes with all it owns.
FiniCheck ==
  /\ pc[Main] = "check"
  /\ MutexFree
  /\ IF MayFinalize THEN Zero ELSE UNCHANGED <<context, shutdown, graph, announced>>
  /\ Go(Main, "idle")
  /\ UNCHANGED <<entityVars, active, channelVars, listenerVars, call, version, inFlight, inbox>>

-----------------------------------------------------------------------------
(* The application's entities.                                             *)

MayCreate(w) == context = "up" /\ pc[w] = "idle" /\ MutexFree /\ ~shutdown

\* Does a change to the nodes go to add_node_graph or remove_node_graph of
\* rmw_dds_common, and from there to publish_callback?
Tells == ~suppress /\ publishes

\* After rmw_shutdown nothing can be created: the calls return null.
CreateAfterShutdown(w) ==
  /\ context = "up"
  /\ pc[w] = "idle"
  /\ shutdown
  /\ UNCHANGED vars

\* A worker comes to the announcement of a node, and keeps the mutex.
StartAnnouncing(w, n, where) ==
  /\ announcing' = {n}
  /\ Go(w, where)
  /\ UNCHANGED <<nodes, active>>

\* rmw_create_node.
CreateNode(w, n) ==
  /\ MayCreate(w)
  /\ n \notin nodes
  /\ IF Tells
     THEN StartAnnouncing(w, n, "adding")
     ELSE nodes' = nodes \cup {n} /\ active' = active + 1 /\ UNCHANGED <<announcing, pc>>
  /\ UNCHANGED <<context, shutdown, others, channelVars, listenerVars, call, topicVars>>

\* (Slip: the node is uncounted before its memory is freed.)
UncountAtOnce == <<1, 0>>

\* What the two steps of rmw_destroy_node take off the count.
Uncounting == <<0, 1>>

\* rmw_destroy_node: out of the context and its graph, then freed and uncounted.
DestroyNode(w, n) ==
  /\ context = "up"
  /\ pc[w] = "idle"
  /\ MutexFree
  /\ n \in nodes
  /\ IF Tells
     THEN StartAnnouncing(w, n, "removing")
     ELSE /\ nodes' = nodes \ {n}
          /\ active' = active - Uncounting[1]
          /\ Go(w, "free")
          /\ UNCHANGED announcing
  /\ UNCHANGED <<context, shutdown, others, channelVars, listenerVars, call, topicVars>>

\* (Slip: the node is announced without the ones before it.)
AnnouncedAlone == announcing

AnnouncedWith == nodes \cup announcing

\* This participant announces the nodes it has now.
Tell(these) == announced' = these /\ inFlight' = inFlight \cup {Self}

\* A node that cannot be announced is not created; one that is destroyed leaves
\* the context whether or not the rest hears of it.
Publish(w) ==
  /\ announcing' = {}
  /\ \/ /\ pc[w] = "adding"
        /\ Go(w, "idle")
        /\ \/ nodes' = nodes \cup announcing /\ active' = active + 1 /\ Tell(AnnouncedWith)
           \/ /\ FALSE \in Outcomes("publish")
              /\ UNCHANGED <<nodes, active, announced, inFlight>>
     \/ /\ pc[w] = "removing"
        /\ Go(w, "free")
        /\ nodes' = nodes \ announcing
        /\ active' = active - Uncounting[1]
        /\ \/ Tell(nodes \ announcing)
           \/ FALSE \in Outcomes("publish") /\ UNCHANGED <<announced, inFlight>>
  /\ UNCHANGED <<context, shutdown, others, channelVars, listenerVars, call,
                 version, inbox, graph>>

FreeNode(w) ==
  /\ pc[w] = "free"
  /\ active' = active - Uncounting[2]
  /\ Go(w, "idle")
  /\ UNCHANGED <<context, shutdown, entityVars, channelVars, listenerVars, call, topicVars>>

\* rmw_create_guard_condition and rmw_create_wait_set.
CreateOther(w, e) ==
  /\ MayCreate(w)
  /\ e \notin others
  /\ others' = others \cup {e}
  /\ active' = active + 1
  /\ UNCHANGED <<context, shutdown, nodes, announcing, channelVars, listenerVars,
                 pc, call, topicVars>>

\* rmw_destroy_guard_condition and rmw_destroy_wait_set, uncounted last.
DestroyOther(w, e) ==
  /\ context = "up"
  /\ pc[w] = "idle"
  /\ e \in others
  /\ others' = others \ {e}
  /\ active' = active - 1
  /\ UNCHANGED <<context, shutdown, nodes, announcing, channelVars, listenerVars,
                 pc, call, topicVars>>

-----------------------------------------------------------------------------
(* The discovery topic.                                                    *)

\* A remote participant announces itself.
RemoteAnnounces(r) ==
  /\ version[r] < MaxVersion
  /\ version' = [version EXCEPT ![r] = @ + 1]
  /\ inFlight' = IF "sub" \in channel THEN inFlight \cup {r} ELSE inFlight
  /\ UNCHANGED <<context, shutdown, entityVars, active, channelVars, listenerVars,
                 pc, call, announced, inbox, graph>>

\* An announcement, this participant's own included, arrives in the discovery
\* subscription, whose history keeps the last one.
Deliver(r) ==
  /\ r \in inFlight
  /\ "sub" \in channel
  /\ inFlight' = inFlight \ {r}
  /\ inbox' = [from |-> r, version |-> IF r = Self THEN 1 ELSE version[r]]
  /\ UNCHANGED <<context, shutdown, entityVars, active, channelVars, listenerVars,
                 pc, call, announced, version, graph>>

-----------------------------------------------------------------------------

Init ==
  /\ context = "zero"
  /\ shutdown = FALSE
  /\ nodes = {}
  /\ others = {}
  /\ active = 0
  /\ channel = {}
  /\ publishes = FALSE
  /\ suppress = FALSE
  /\ announcing = {}
  /\ running = FALSE
  /\ trigger = FALSE
  /\ startup = "unset"
  /\ listener = "none"
  /\ woken = {}
  /\ pc = [t \in Workers \cup {Main} |-> "idle"]
  /\ call = "none"
  /\ announced = {}
  /\ version = [r \in Remotes |-> 0]
  /\ inFlight = {}
  /\ inbox = Empty
  /\ graph = [r \in Remotes |-> 0]

\* Main inside one of the lifecycle functions.
LifecycleStep ==
  \/ InitChannel \/ StartListener \/ AwaitStartup
  \/ StopListener \/ Join \/ UnsetCallback \/ Suppress \/ DestroyChannel \/ FiniCheck

WorkerStep(w) ==
  \/ CreateAfterShutdown(w)
  \/ \E n \in Nodes : CreateNode(w, n) \/ DestroyNode(w, n)
  \/ Publish(w) \/ FreeNode(w)
  \/ \E e \in Others : CreateOther(w, e) \/ DestroyOther(w, e)

Next ==
  \/ InitContext \/ Shutdown \/ Fini \/ LifecycleStep
  \/ ListenerStep \/ ListenerWaitFails
  \/ \E w \in Workers : WorkerStep(w)
  \/ \E r \in Remotes : RemoteAnnounces(r)
  \/ \E r \in Participants : Deliver(r)

Spec == Init /\ [][Next]_vars

\* The two threads run on when they can, and so does a worker that holds the
\* context's mutex; the application's calls, the other participants and the
\* failures of a wait owe nothing.
FairSpec ==
  /\ Spec /\ WF_vars(LifecycleStep) /\ WF_vars(ListenerStep)
  /\ WF_vars(\E w \in Workers : Publish(w))

-----------------------------------------------------------------------------
(* Correctness.                                                            *)

\* The listener thread is inside the loop that uses the channel's parts.
Looping == listener \in {"starting", "check", "wait", "reset", "take"}

\* No part of the channel is used after it is gone: the listener thread is
\* joined first, no announcement begins any more, and one that a worker has begun
\* is over, although finalize_graph_channel forbids them without the mutex.
UsesLiveChannel ==
  /\ Looping => channel = Parts
  /\ publishes \/ announcing # {} => "pub" \in channel

\* The entities there are: the application's, the channel's, those being freed
\* and the listener's wait set.
EntityCount ==
  Cardinality(nodes) + Cardinality(others) + Cardinality(channel)
    + Cardinality({w \in Workers : pc[w] = "free"})
    + (IF listener \in {"check", "wait", "reset", "take", "leave"} THEN 1 ELSE 0)

\* active_entities counts the entities there are, through every rollback and
\* every failed destruction, so that a context can be finalized in the end.
ActiveCountsEntities == active = EntityCount

\* No entity outlives its context, not even one a worker is still freeing with
\* the context's allocator while rmw_context_fini runs.
ContextOutlivesEntities == context = "zero" => EntityCount = 0

\* rmw_init returns OK only with a channel and a listener that serves it.
InitMeansChannel ==
  context = "up" /\ ~shutdown => channel = Parts /\ publishes /\ listener \notin {"none", "starting"}

\* Whatever fails, a context the application works with has all of the channel,
\* with a listener that has started, or nothing of it.
ChannelIsWhole ==
  context = "up" /\ ~shutdown /\ pc[Main] = "idle" =>
    \/ channel = Parts /\ publishes /\ listener \notin {"none", "starting"}
    \/ channel = {} /\ ~publishes /\ listener = "none"

\* As long as a context has its publish callback (rmw_init may return without one,
\* and an early rmw_context_fini takes it away), every node in it has been
\* announced to the others until shutdown, although announcements may fail.
NodesAnnounced == context = "up" /\ ~shutdown /\ publishes => nodes \subseteq announced

\* A lifecycle function returns: the listener always notices it has to stop.
LifecycleCallsReturn == pc[Main] # "idle" ~> pc[Main] = "idle"

\* An announcement that arrives is taken in unless a later one has replaced it
\* first, or the listener stops: it is told to, or a wait of its fails.
AnnouncementTakenIn ==
  \A r \in Remotes : \A v \in 1 .. MaxVersion :
    (inbox = [from |-> r, version |-> v])
      ~> \/ graph[r] = v
         \/ inbox \notin {Empty, [from |-> r, version |-> v]}
         \/ ~running \/ listener \in {"leave", "done"}
=============================================================================
