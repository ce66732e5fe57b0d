--------------------------- MODULE EndpointLifecycle ---------------------------
(***************************************************************************)
(* Creating and destroying the endpoints of a context: publishers and      *)
(* subscriptions, and the clients and services made of one of each.        *)
(*                                                                         *)
(* A creation holds the context's mutex to its end and undoes all it has   *)
(* made when a step of it fails; zzdds may call a reader's listener from   *)
(* the moment the reader exists.  A destruction takes the mutex only to    *)
(* leave the graph, and does the rest beside other threads, which may      *)
(* destroy the node or finalize the context as soon as these let them.     *)
(* rmw_context_fini finalizes the graph channel before it looks whether it *)
(* may finalize the context, and suppresses graph updates meanwhile.       *)
(* Each thread has a list of steps still to do, as a client or a service   *)
(* is created and destroyed by the functions of its two ends.  What zzdds  *)
(* returns from deletions is only reported by the code and is left out.    *)
(***************************************************************************)
EXTENDS Integers, Sequences, FiniteSets

CONSTANTS
  Pubs, Subs,    \* publishers and subscriptions
  Pairs,         \* clients and services
  First, Second, \* their ends, in the order of their creation: the client's
                 \* publisher and subscription, the service's the other way round
  Nodes,         \* the nodes of the context
  Threads,       \* application threads
  None,          \* no thread, no node
  Failing,       \* what may fail: parts, "announce", "register", "finalize"
                 \* (the graph channel) and "guid" (of a reader, when it goes)
  EarlyFini      \* is rmw_context_fini also called before rmw_shutdown?

Endpoints == Pubs \cup Subs

\* What an endpoint is made of, in the order of its creation; "entity" is the
\* DDS writer or reader, "memory" the handle and, of a publisher, the impl.
Order(e) ==
  IF e \in Pubs THEN <<"topic", "entity", "memory">>
  ELSE <<"topic", "filter", "impl", "entity", "condition", "memory">>

Parts == {"topic", "filter", "impl", "entity", "condition", "memory"}
DdsParts == {"topic", "filter", "entity", "condition"}

ASSUME EndpointConstants ==
  /\ Pubs \cap Subs = {}
  /\ Pairs \cap Endpoints = {}
  /\ First \in [Pairs -> Endpoints]
  /\ Second \in [Pairs -> Endpoints]
  /\ \A p \in Pairs : First[p] \in Pubs <=> Second[p] \in Subs
  /\ IsFiniteSet(Nodes) /\ IsFiniteSet(Endpoints)
  /\ None \notin Threads \cup Nodes
  /\ Failing \subseteq Parts \cup {"announce", "register", "finalize", "guid"}
  /\ EarlyFini \in BOOLEAN

VARIABLES
  up,         \* the context exists
  shutdown,   \* impl->shutdown
  mutex,      \* the thread that holds the context's mutex
  nodes,      \* the nodes that exist
  parts,      \* per endpoint: the parts that exist
  owner,      \* impl->node
  listening,  \* subscriptions whose reader has its listener
  registered, \* impl->publishers, subscriptions, clients and services
  localGuids, \* impl->local_publication_guids
  cache,      \* the endpoints whose entry is in graph_cache
  leftover,   \* those with an entry of an earlier life, now destroyed, in it
  publishes,  \* common.publish_callback is set
  suppress,   \* impl->suppress_graph_updates
  finishing,  \* the thread inside rmw_context_fini
  active,     \* impl->active_entities
  held,       \* endpoints and pairs the application has been given
  todo        \* per thread: the steps left of the call it is in

finiVars == <<publishes, suppress, finishing>>
contextVars == <<up, shutdown, nodes, finiVars>>
endpointVars == <<parts, owner, listening>>
graphVars == <<registered, localGuids, cache, leftover>>
vars == <<up, shutdown, mutex, nodes, parts, owner, listening, registered,
          localGuids, cache, leftover, publishes, suppress, finishing,
          active, held, todo>>

-----------------------------------------------------------------------------
(* The steps of a call.                                                    *)

Steps(names, e, n) == [i \in DOMAIN names |-> [do |-> names[i], on |-> e, node |-> n]]

Creating(e, n) == Steps(<<"begin", "make", "announce">>, e, n)
Destroying(e, n) == Steps(<<"detach", "unlisten", "delete", "free">>, e, n)

\* Thread t is at a step of this name, on e.
At(t, name, e) == todo[t] # <<>> /\ Head(todo[t]).do = name /\ Head(todo[t]).on = e

Next1(t) == Head(todo[t])
Done(t) == todo' = [todo EXCEPT ![t] = Tail(@)]

Locked(t) == mutex = None \/ mutex = t
Outcomes(what) == IF what \in Failing THEN {TRUE, FALSE} ELSE {TRUE}

\* (Slip: the end that has been created stays.)
KeepFirst(rest) == <<>>

\* What is left to do after a creation has failed, with rest after it: nothing,
\* or to destroy the first end of a client or service.
AfterFailure(rest) ==
  IF rest # <<>> /\ Head(rest).do = "register"
  THEN Destroying(First[Head(rest).on], Head(rest).node) ELSE <<>>

\* The creation of e fails k steps before the end of its own: what it has made
\* is undone, and the mutex is held until then.
Fail(t, e, k) ==
  todo' = [todo EXCEPT ![t] = Steps(<<"undo">>, e, Next1(t).node)
                                \o AfterFailure(SubSeq(@, k + 1, Len(@)))]

-----------------------------------------------------------------------------
(* rmw_create_publisher and rmw_create_subscription.                       *)

\* (Slip: a context that is shut down goes on creating.)
RefusesNone == FALSE

Refuses == shutdown

\* The mutex is taken, and a context that is shut down creates nothing.
Begin(t, e) ==
  /\ At(t, "begin", e)
  /\ mutex = None
  /\ IF Refuses
     THEN /\ todo' = [todo EXCEPT ![t] = AfterFailure(SubSeq(@, 4, Len(@)))]
          /\ UNCHANGED <<mutex, owner>>
     ELSE /\ mutex' = t
          /\ owner' = [owner EXCEPT ![e] = Next1(t).node]
          /\ Done(t)
  /\ UNCHANGED <<contextVars, parts, listening, graphVars, active, held>>

\* The part to be made now.
Missing(e) == Order(e)[Cardinality(parts[e]) + 1]

\* The parts are made one after the other; the reader comes with its listener.
Make(t, e) ==
  /\ At(t, "make", e)
  /\ \E ok \in Outcomes(Missing(e)) :
       IF ok
       THEN /\ parts' = [parts EXCEPT ![e] = @ \cup {Missing(e)}]
            /\ listening' = IF e \in Subs /\ Missing(e) = "entity"
                            THEN listening \cup {e} ELSE listening
            /\ IF Cardinality(parts[e]) + 1 = Len(Order(e)) THEN Done(t) ELSE UNCHANGED todo
       ELSE Fail(t, e, 2) /\ UNCHANGED <<parts, listening>>
  /\ UNCHANGED <<contextVars, mutex, owner, graphVars, active, held>>

\* (Slip: an announcement that is refused leaves the endpoint in the cache.)
CacheKept(e) == {e}

\* What a refused announcement leaves in the graph cache.
LeftInCache(e) == {}

\* What an endpoint has in the graph cache: nothing while updates are suppressed.
Entry(e) == IF suppress THEN {} ELSE {e}

\* The endpoint enters the context's sets and its graph, which is announced;
\* if that is refused, or its GUID cannot be had, it is undone.
Announce(t, e) ==
  /\ At(t, "announce", e)
  /\ \E ok \in Outcomes("announce") :
       IF ok
       THEN /\ registered' = registered \cup {e}
            /\ localGuids' = localGuids \cup ({e} \cap Pubs)
            /\ cache' = cache \cup Entry(e)
            /\ active' = active + 1
            /\ held' = IF Len(todo[t]) = 1 THEN held \cup {e} ELSE held
            /\ mutex' = None
            /\ Done(t)
       ELSE /\ cache' = cache \cup (Entry(e) \cap LeftInCache(e))
            /\ Fail(t, e, 1)
            /\ UNCHANGED <<registered, localGuids, active, held, mutex>>
  /\ UNCHANGED <<contextVars, endpointVars, leftover>>

\* (Slip: the impl goes with the handle.)
UndoneWithImpl(part) == IF part = "memory" THEN {"memory", "impl"} ELSE {part}

Undone(part) == {part}

\* The parts go in the reverse order; then the mutex is released.
Undo(t, e) ==
  /\ At(t, "undo", e)
  /\ IF parts[e] = {}
     THEN /\ mutex' = None
          /\ owner' = [owner EXCEPT ![e] = None]
          /\ Done(t)
          /\ UNCHANGED <<parts, listening>>
     ELSE LET last == CHOOSE i \in DOMAIN Order(e) :
                        /\ Order(e)[i] \in parts[e]
                        /\ \A j \in DOMAIN Order(e) : Order(e)[j] \in parts[e] => j <= i
          IN  /\ parts' = [parts EXCEPT ![e] = @ \ Undone(Order(e)[last])]
              /\ listening' = IF Order(e)[last] = "entity" THEN listening \ {e} ELSE listening
              /\ UNCHANGED <<mutex, owner, todo>>
  /\ UNCHANGED <<contextVars, graphVars, active, held>>

-----------------------------------------------------------------------------
(* rmw_destroy_publisher and rmw_destroy_subscription.                     *)

\* (Slip: the endpoint is uncounted when it leaves the graph.)
UncountsEarly(step) == step = "detach"

\* The step that takes the endpoint off active_entities.
Uncounts(step) == step = "free"

ActiveAfter(step) == active - (IF Uncounts(step) THEN 1 ELSE 0)

\* (Slip: a publisher's GUID is asked of its writer again.)
GuidAsked(e) == Outcomes("guid")

\* A publisher's GUID is kept with it; a subscription's is asked of its reader.
GuidKnown(e) == IF e \in Subs THEN Outcomes("guid") ELSE {TRUE}

\* Out of the context's sets and its graph, under the mutex; the entry in the
\* graph cache stays if the GUID cannot be had or updates are suppressed.
Detach(t, e) ==
  /\ At(t, "detach", e)
  /\ mutex = None
  /\ registered' = registered \ {e}
  /\ localGuids' = localGuids \ {e}
  /\ cache' = cache \ {e}
  /\ \E known \in GuidKnown(e) :
       leftover' = IF known /\ ~suppress THEN leftover ELSE leftover \cup ({e} \cap cache)
  /\ active' = ActiveAfter("detach")
  /\ Done(t)
  /\ UNCHANGED <<contextVars, mutex, endpointVars, held>>

\* The listener is removed before anything it uses.
Unlisten(t, e) ==
  /\ At(t, "unlisten", e)
  /\ listening' = listening \ {e}
  /\ Done(t)
  /\ UNCHANGED <<contextVars, mutex, parts, owner, graphVars, active, held>>

Delete(t, e) ==
  /\ At(t, "delete", e)
  /\ parts' = [parts EXCEPT ![e] = @ \ DdsParts]
  /\ Done(t)
  /\ UNCHANGED <<contextVars, mutex, owner, listening, graphVars, active, held>>

\* The memory goes last, and the context may go after it.
Free(t, e) ==
  /\ At(t, "free", e)
  /\ parts' = [parts EXCEPT ![e] = {}]
  /\ owner' = [owner EXCEPT ![e] = None]
  /\ active' = ActiveAfter("free")
  /\ Done(t)
  /\ UNCHANGED <<contextVars, mutex, listening, graphVars, held>>

-----------------------------------------------------------------------------
(* rmw_create_client, rmw_create_service and their destruction.            *)

\* (Slip: the mutex is still held when the ends are destroyed.)
KeepMutex(t) == t

\* The mutex when a client or service could not be registered.
MutexAfterThrow(t) == None

\* With both ends there, the client or service is allocated and registered, or
\* its ends are destroyed again.
Register(t, p) ==
  /\ At(t, "register", p)
  /\ mutex = None
  /\ \E ok \in Outcomes("register") :
       IF ok
       THEN /\ registered' = registered \cup {p}
            /\ held' = held \cup {p}
            /\ Done(t)
            /\ UNCHANGED mutex
       ELSE /\ todo' = [todo EXCEPT ![t] = Destroying(Second[p], Next1(t).node)
                                             \o Destroying(First[p], Next1(t).node)]
            /\ mutex' = MutexAfterThrow(t)
            /\ UNCHANGED <<registered, held>>
  /\ UNCHANGED <<contextVars, endpointVars, localGuids, cache, leftover, active>>

Unregister(t, p) ==
  /\ At(t, "unregister", p)
  /\ mutex = None
  /\ registered' = registered \ {p}
  /\ Done(t)
  /\ UNCHANGED <<contextVars, mutex, endpointVars, localGuids, cache, leftover, active, held>>

\* The memory of the client or service is freed with a copy of the allocator.
Release(t, p) ==
  /\ At(t, "release", p)
  /\ Done(t)
  /\ UNCHANGED <<contextVars, mutex, endpointVars, graphVars, active, held>>

-----------------------------------------------------------------------------
(* The application's calls.                                                *)

Idle(t) == todo[t] = <<>> /\ finishing # t

\* The endpoints a step is about.
Concerns(on) == IF on \in Pairs THEN {First[on], Second[on]} ELSE {on}
Busy == UNION {UNION {Concerns(todo[t][i].on) : i \in DOMAIN todo[t]} : t \in Threads}
Given == UNION {Concerns(h) : h \in held}

\* The end of a client or service is nobody's publisher or subscription.
Single(e) == \A p \in Pairs : e \notin Concerns(p)

Call(t, steps) ==
  /\ Idle(t)
  /\ todo' = [todo EXCEPT ![t] = steps]
  /\ UNCHANGED <<contextVars, mutex, endpointVars, graphVars, active>>

CreateEndpoint(t, e, n) ==
  /\ Single(e) /\ e \notin Busy \cup Given
  /\ n \in nodes
  /\ Call(t, Creating(e, n))
  /\ UNCHANGED held

CreatePair(t, p, n) ==
  /\ Concerns(p) \cap (Busy \cup Given) = {}
  /\ n \in nodes
  /\ Call(t, Creating(First[p], n) \o Creating(Second[p], n) \o Steps(<<"register">>, p, n))
  /\ UNCHANGED held

DestroyEndpoint(t, e) ==
  /\ e \in held
  /\ Call(t, Destroying(e, owner[e]))
  /\ held' = held \ {e}

DestroyPair(t, p) ==
  /\ p \in held
  /\ LET n == owner[First[p]] IN
     Call(t, Steps(<<"unregister">>, p, n) \o Destroying(Second[p], n)
               \o Destroying(First[p], n) \o Steps(<<"release">>, p, n))
  /\ held' = held \ {p}

\* (Slip: only the clients, the services and the publishers of a node count.)
OwnsNoSubscription(n) == \E e \in registered \cap Pubs : owner[e] = n

\* node_owns_entities.
NodeOwnsEntities(n) ==
  \E r \in registered : \E e \in Concerns(r) : owner[e] = n

\* A thread is creating something on the node: the application keeps the node
\* as long as it does, as it does the handle of any call under way.
CreatingOn(n) ==
  \E t \in Threads : \E i \in DOMAIN todo[t] :
    todo[t][i].do \in {"begin", "make", "announce", "undo", "register"} /\ todo[t][i].node = n

\* rmw_destroy_node, rejected while the node owns something.
DestroyNode(t, n) ==
  /\ Idle(t)
  /\ n \in nodes
  /\ ~CreatingOn(n)
  /\ mutex = None
  /\ ~NodeOwnsEntities(n)
  /\ nodes' = nodes \ {n}
  /\ active' = active - 1
  /\ UNCHANGED <<up, shutdown, mutex, finiVars, endpointVars, graphVars, held, todo>>

Shutdown(t) ==
  /\ Idle(t)
  /\ up
  /\ mutex = None
  /\ shutdown' = TRUE
  /\ UNCHANGED <<up, mutex, nodes, finiVars, endpointVars, graphVars, active, held, todo>>

-----------------------------------------------------------------------------
(* rmw_context_fini, called by one thread at a time.  The channel's own    *)
(* node and endpoints belong to ContextLifecycle and are not counted here. *)

\* finalize_graph_channel unsets the callback and suppresses graph updates,
\* both without the mutex, so it may be in the middle of another's creation.
Fini(t) ==
  /\ Idle(t)
  /\ up
  /\ EarlyFini \/ shutdown
  /\ finishing = None
  /\ finishing' = t
  /\ publishes' = FALSE
  /\ suppress' = TRUE
  /\ UNCHANGED <<up, shutdown, mutex, nodes, endpointVars, graphVars, active, held, todo>>

\* The channel is gone; if not all of it went well, so does the call.
EndSuppression(t) ==
  /\ finishing = t
  /\ suppress
  /\ suppress' = FALSE
  /\ \E ok \in Outcomes("finalize") : finishing' = IF ok THEN t ELSE None
  /\ UNCHANGED <<up, shutdown, mutex, nodes, publishes, endpointVars, graphVars,
                 active, held, todo>>

\* The context goes, or the call is rejected.
FiniCheck(t) ==
  /\ finishing = t
  /\ ~suppress
  /\ mutex = None
  /\ IF shutdown /\ active = 0 THEN up' = FALSE ELSE UNCHANGED up
  /\ finishing' = None
  /\ UNCHANGED <<shutdown, mutex, nodes, publishes, suppress, endpointVars, graphVars,
                 active, held, todo>>

-----------------------------------------------------------------------------

Init ==
  /\ up = TRUE
  /\ shutdown = FALSE
  /\ mutex = None
  /\ nodes = Nodes
  /\ parts = [e \in Endpoints |-> {}]
  /\ owner = [e \in Endpoints |-> None]
  /\ listening = {}
  /\ registered = {}
  /\ localGuids = {}
  /\ cache = {}
  /\ leftover = {}
  /\ publishes = TRUE
  /\ suppress = FALSE
  /\ finishing = None
  /\ active = Cardinality(Nodes)
  /\ held = {}
  /\ todo = [t \in Threads |-> <<>>]

EndpointStep(t, e) ==
  \/ Begin(t, e) \/ Make(t, e) \/ Announce(t, e) \/ Undo(t, e)
  \/ Detach(t, e) \/ Unlisten(t, e) \/ Delete(t, e) \/ Free(t, e)

PairStep(t, p) == Register(t, p) \/ Unregister(t, p) \/ Release(t, p)

FiniStep(t) == EndSuppression(t) \/ FiniCheck(t)

Step(t) ==
  \/ \E e \in Endpoints : EndpointStep(t, e)
  \/ \E p \in Pairs : PairStep(t, p)
  \/ FiniStep(t)

AppCall(t) ==
  \/ \E e \in Endpoints, n \in Nodes : CreateEndpoint(t, e, n)
  \/ \E p \in Pairs, n \in Nodes : CreatePair(t, p, n)
  \/ \E e \in Endpoints : DestroyEndpoint(t, e)
  \/ \E p \in Pairs : DestroyPair(t, p)
  \/ \E n \in Nodes : DestroyNode(t, n)
  \/ Shutdown(t)
  \/ Fini(t)

Next == \E t \in Threads : Step(t) \/ AppCall(t)

Spec == Init /\ [][Next]_vars

\* A thread inside a call runs on, and gets a mutex that is free again and
\* again.  No call has to be made.
FairSpec == Spec /\ \A t \in Threads : SF_vars(Step(t))

-----------------------------------------------------------------------------
(* Correctness.                                                            *)

\* A reader with its listener installed has the impl its listener works on,
\* while it is created, undone and destroyed (rmw_data_plane.cpp 1022).
ListenerFindsImpl == \A e \in listening : "impl" \in parts[e]

\* The entries that may stay although their endpoint has been destroyed while
\* graph updates were not suppressed: rmw_destroy_subscription needs a GUID.
MayStay == IF "guid" \in Failing THEN Subs ELSE {}

\* The publications this participant takes for its own are those there are,
\* whatever fails and whatever is suppressed.  The graph it tells of is that of
\* the endpoints it has up to the first rmw_context_fini, save for entries whose
\* GUID could not be had.  A context that is finalized only after its shutdown
\* suppresses no endpoint's entry, as a creation shutdown has not refused holds
\* the mutex shutdown takes; what may stay are entries of those destroyed.
GraphIsExact ==
  /\ localGuids = registered \cap Pubs
  /\ cache \subseteq registered \cap Endpoints
  /\ publishes \/ ~EarlyFini => cache = registered \cap Endpoints
  /\ publishes => leftover \subseteq MayStay

\* No call works on a node or a context that is gone.  An endpoint keeps its
\* node until the last use its own destruction makes of it, even while another
\* thread destroys the node as soon as rmw_destroy_node lets it, and it keeps
\* the context although a destruction releases the mutex long before it is
\* done; only the memory of a client or service is freed after its ends, with
\* an allocator copied before.
OwnersOutliveUse ==
  \A t \in Threads : \A i \in DOMAIN todo[t] :
    /\ todo[t][i].do \in {"begin", "announce", "detach"} => todo[t][i].node \in nodes
    /\ todo[t][i].do # "release" => up

\* Nothing is left of an endpoint the application does not have once no call
\* works on it: every way a creation can fail, in either end of a client or
\* service, gives back all it had made.
NothingLeaks ==
  \A e \in Endpoints \ (Busy \cup Given) :
    parts[e] = {} /\ owner[e] = None /\ e \notin registered

\* A call returns: none waits for a mutex its own thread holds.
CallsReturn == \A t \in Threads : ~Idle(t) ~> Idle(t)
=============================================================================
