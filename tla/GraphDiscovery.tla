---------------------------- MODULE GraphDiscovery ----------------------------
(***************************************************************************)
(* How endpoints of other participants come into the graph and leave it.   *)
(*                                                                         *)
(* zzdds puts a sample into the built-in reader of its kind when it meets  *)
(* a remote writer or reader, hears of it again, or loses it.  Nobody is   *)
(* told of these samples: every query of the graph takes them all before   *)
(* it answers, and triggers the graph guard condition if they changed      *)
(* something.  A watcher waits for that guard condition and queries when   *)
(* it wakes; other threads query when they like.                           *)
(*                                                                         *)
(* One thread at a time takes samples, holding the context's mutex, and    *)
(* enters them into the graph cache one by one; the cache has a lock of    *)
(* its own, so that other threads read it between two of these steps.      *)
(***************************************************************************)
EXTENDS Integers

CONSTANTS
  Writers, Readers, \* endpoints of other participants
  Hidden,           \* those on the topic ros_discovery_info
  Unreadable,       \* those whose description cannot be read
  Threads, Watcher, \* the threads that query; one is the watcher
  Failing,          \* what may fail: "take", "return" (of a loan)
  MaxChanges        \* bound: how often endpoints come, go or are heard of again

Remote == Writers \cup Readers
Kinds == {"writer", "reader"}
Kind(e) == IF e \in Writers THEN "writer" ELSE "reader"

\* The endpoints a query should tell of.
Visible == Remote \ (Hidden \cup Unreadable)

ASSUME DiscoveryConstants ==
  /\ Writers \cap Readers = {}
  /\ Hidden \subseteq Remote /\ Unreadable \subseteq Remote
  /\ Watcher \in Threads
  /\ Failing \subseteq {"take", "return"}
  /\ MaxChanges \in Nat

VARIABLES
  present,  \* the endpoints there are
  changes,  \* how often endpoints have come, gone or been heard of again
  inbox,    \* per kind: the samples not taken yet, numbered as they came
  batch,    \* per thread: the samples it has taken and not gone through
  changed,  \* per thread: its refresh has changed the graph so far
  known,    \* discovered_writer_instances and discovered_reader_instances
  cache,    \* the remote endpoints in graph_cache
  guard,    \* the graph guard condition is triggered
  phase,    \* per thread: where it is in a query (see Phases)
  half,     \* per thread: what it has read of the other kind
  steady,   \* history, per thread: what has not come or gone during its query
  view,     \* what the watcher's last query answered
  failed    \* history: a refresh has failed

remoteVars == <<present, changes, inbox>>
graphVars == <<known, cache>>
loopVars == <<batch, changed>>
vars == <<present, changes, inbox, batch, changed, known, cache, guard, phase, half,
          steady, view, failed>>

\* A thread has a loan of samples and goes through them.
Loops == {"publications", "subscriptions"}

\* A thread holds the context's mutex: it goes through the publications, is
\* about to take the subscriptions, goes through them, and is about to tell.
Locked == Loops \cup {"next", "tell"}

\* A query waits for the mutex, refreshes the graph, and reads the cache: all of
\* it, or what is left to read of it.
Phases == {"idle", "refresh", "read"} \cup Locked \cup Kinds

-----------------------------------------------------------------------------
(* The other participants, and zzdds.                                      *)

Sample(e, what) == [on |-> e, what |-> what, n |-> changes + 1]

\* A sample joins the inbox; those of the same endpoint may give way to it.
Deliver(s) ==
  \E displace \in BOOLEAN :
    inbox' = [inbox EXCEPT ![Kind(s.on)] =
                (IF displace THEN {o \in @ : o.on # s.on} ELSE @) \cup {s}]

\* An endpoint comes, or comes back after it had been lost, or goes.
ComeOrGo(e) ==
  /\ changes < MaxChanges
  /\ changes' = changes + 1
  /\ present' = IF e \in present THEN present \ {e} ELSE present \cup {e}
  /\ Deliver(Sample(e, IF e \in present THEN "gone" ELSE "data"))
  /\ steady' = [t \in Threads |-> steady[t] \ {e}]
  /\ UNCHANGED <<graphVars, loopVars, guard, phase, half, view, failed>>

\* An endpoint is heard of again.
HearAgain(e) ==
  /\ e \in present
  /\ changes < MaxChanges
  /\ changes' = changes + 1
  /\ Deliver(Sample(e, "data"))
  /\ UNCHANGED <<present, graphVars, loopVars, guard, phase, half, steady, view, failed>>

-----------------------------------------------------------------------------
(* refresh_discovered_endpoints and consume_reader.                        *)

Goes(t, where) == phase' = [phase EXCEPT ![t] = where]

\* (Slip: a query goes on although its refresh has failed.)
ReadAnyway == "read"

\* Where a query goes whose refresh has failed: it returns the error.
AfterFailure == "idle"

\* The refresh of a thread fails, and nobody is told of what it did take in.
GiveUp(t) ==
  /\ Goes(t, AfterFailure)
  /\ batch' = [batch EXCEPT ![t] = {}]
  /\ steady' = [steady EXCEPT ![t] = IF AfterFailure = "idle" THEN {} ELSE @]
  /\ failed' = TRUE

\* The samples of a kind are lent by zzdds, if there are any.
TakeBatch(t, kind, loop, next) ==
  /\ \/ /\ inbox[kind] = {}
        /\ Goes(t, next)
        /\ UNCHANGED <<inbox, batch, steady, failed>>
     \/ /\ inbox[kind] # {}
        /\ Goes(t, loop)
        /\ batch' = [batch EXCEPT ![t] = inbox[kind]]
        /\ inbox' = [inbox EXCEPT ![kind] = {}]
        /\ UNCHANGED <<steady, failed>>
     \/ /\ "take" \in Failing
        /\ GiveUp(t)
        /\ UNCHANGED inbox
  /\ UNCHANGED <<present, changes, graphVars, guard, half, view>>

\* (Slip: the context's mutex is not locked.)
AnyTime == TRUE

\* No thread holds the context's mutex.
Unlocked == \A u \in Threads : phase[u] \notin Locked

TakePublications(t) ==
  /\ phase[t] = "refresh"
  /\ Unlocked
  /\ changed' = [changed EXCEPT ![t] = FALSE]
  /\ TakeBatch(t, "writer", "publications", "next")

\* Only if all went well with the publications.
TakeSubscriptions(t) ==
  /\ phase[t] = "next"
  /\ TakeBatch(t, "reader", "subscriptions", "tell")
  /\ UNCHANGED changed

\* (Slips: an instance is not recorded; only the last sample counts as a change.)
RecordNothing(e) == known
OnlyNow(before, now) == now

Recorded(e) == known \cup {e}
Accumulate(before, now) == before \/ now
Skipped == Hidden

\* The samples on from s, which comes first.
Rest(t, s) == batch' = [batch EXCEPT ![t] = @ \ {s}]

\* A not-alive change: the endpoint goes, if its instance was recorded.
Remove(t, s) ==
  /\ s.what = "gone"
  /\ Rest(t, s)
  /\ IF s.on \in known
     THEN /\ known' = known \ {s.on}
          /\ cache' = cache \ {s.on}
          /\ changed' = [changed EXCEPT ![t] = Accumulate(@, s.on \in cache)]
     ELSE UNCHANGED <<graphVars, changed>>
  /\ UNCHANGED <<phase, steady, failed>>

Add(t, s) ==
  /\ s.what = "data"
  /\ s.on \notin Unreadable
  /\ Rest(t, s)
  /\ IF s.on \in Skipped
     THEN UNCHANGED <<graphVars, changed>>
     ELSE /\ known' = Recorded(s.on)
          /\ cache' = cache \cup {s.on}
          /\ changed' = [changed EXCEPT ![t] = Accumulate(@, s.on \notin cache)]
  /\ UNCHANGED <<phase, steady, failed>>

\* The loop is left at a sample that cannot be read, and what follows it in the
\* batch is dropped.
Break(t, s) ==
  /\ s.what = "data"
  /\ s.on \in Unreadable
  /\ GiveUp(t)
  /\ UNCHANGED <<graphVars, changed>>

\* One turn of the loop over a batch.
Consume(t) ==
  /\ phase[t] \in Loops
  /\ \E s \in batch[t] :
       /\ \A o \in batch[t] : s.n <= o.n
       /\ Remove(t, s) \/ Add(t, s) \/ Break(t, s)
  /\ UNCHANGED <<remoteVars, guard, half, view>>

\* The loan is given back after the loop.
ReturnLoan(t) ==
  /\ phase[t] \in Loops
  /\ batch[t] = {}
  /\ \/ /\ Goes(t, IF phase[t] = "publications" THEN "next" ELSE "tell")
        /\ UNCHANGED <<batch, steady, failed>>
     \/ "return" \in Failing /\ GiveUp(t)
  /\ UNCHANGED <<remoteVars, graphVars, changed, guard, half, view>>

\* The refresh is over; the graph guard condition tells of what it changed.
Tell(t) ==
  /\ phase[t] = "tell"
  /\ guard' = (guard \/ changed[t])
  /\ Goes(t, "read")
  /\ UNCHANGED <<remoteVars, graphVars, loopVars, half, steady, view, failed>>

-----------------------------------------------------------------------------
(* The queries, and what wakes the watcher.                                *)

Ask(t) ==
  /\ phase[t] = "idle"
  /\ Goes(t, "refresh")
  /\ steady' = [steady EXCEPT ![t] = Visible]

\* A thread queries.
Query(t) ==
  /\ t # Watcher
  /\ Ask(t)
  /\ UNCHANGED <<remoteVars, graphVars, loopVars, guard, half, view, failed>>

\* The watcher's wait ends, which resets the guard condition (see WaitSet).
Wake(t) ==
  /\ t = Watcher
  /\ guard
  /\ Ask(t)
  /\ guard' = FALSE
  /\ UNCHANGED <<remoteVars, graphVars, loopVars, half, view, failed>>

\* The endpoints of a kind that are in the cache, which has a lock of its own.
Cached(kind) == {e \in cache : Kind(e) = kind}

\* A query for clients or services reads the cache twice, for the endpoints of
\* one kind first.  (Bound: the watcher asks for topics, in one read.)
ReadHalf(t) ==
  /\ t # Watcher
  /\ phase[t] = "read"
  /\ \E kind, rest \in Kinds :
       /\ kind # rest
       /\ half' = [half EXCEPT ![t] = Cached(kind)]
       /\ Goes(t, rest)
  /\ UNCHANGED <<remoteVars, graphVars, loopVars, guard, steady, view, failed>>

\* What the query of a thread would answer now.
Answer(t) == IF phase[t] = "read" THEN cache ELSE half[t] \cup Cached(phase[t])

\* The query reads the cache, or what is left to read of it, and returns.
Read(t) ==
  /\ phase[t] \in Kinds \cup {"read"}
  /\ Goes(t, "idle")
  /\ half' = [half EXCEPT ![t] = {}]
  /\ view' = IF t = Watcher THEN Answer(t) ELSE view
  /\ steady' = [steady EXCEPT ![t] = {}]
  /\ UNCHANGED <<remoteVars, graphVars, loopVars, guard, failed>>

\* An announcement of nodes arrives, or an own endpoint is created (see
\* ContextLifecycle and EndpointLifecycle).
Notify ==
  /\ ~guard
  /\ guard' = TRUE
  /\ UNCHANGED <<remoteVars, graphVars, loopVars, phase, half, steady, view, failed>>

Init ==
  /\ present = {}
  /\ changes = 0
  /\ inbox = [k \in Kinds |-> {}]
  /\ batch = [t \in Threads |-> {}]
  /\ changed = [t \in Threads |-> FALSE]
  /\ known = {}
  /\ cache = {}
  /\ guard = FALSE
  /\ phase = [t \in Threads |-> "idle"]
  /\ half = [t \in Threads |-> {}]
  /\ steady = [t \in Threads |-> {}]
  /\ view = {}
  /\ failed = FALSE

Refresh(t) ==
  TakePublications(t) \/ TakeSubscriptions(t) \/ Consume(t) \/ ReturnLoan(t) \/ Tell(t)

Step(t) == Refresh(t) \/ ReadHalf(t) \/ Read(t) \/ Wake(t)

Next ==
  \/ \E e \in Remote : ComeOrGo(e) \/ HearAgain(e)
  \/ \E t \in Threads : Step(t) \/ Query(t)
  \/ Notify

Spec == Init /\ [][Next]_vars

\* Every thread runs, and gets the mutex in the end when it waits for it; the
\* threads beside the watcher query again and again.
FairSpec ==
  /\ Spec
  /\ \A t \in Threads : WF_vars(Step(t)) /\ WF_vars(Query(t)) /\ SF_vars(TakePublications(t))

-----------------------------------------------------------------------------
(* Correctness.                                                            *)

\* The samples of e that are not in the graph yet.
Waiting(e) == {s \in inbox[Kind(e)] \cup UNION {batch[t] : t \in Threads} : s.on = e}

\* The last of a set of samples of e, or if there is none, the graph, tells that
\* e is there.
TellsPresent(e, samples) ==
  IF samples = {} THEN e \in cache
  ELSE \E s \in samples : s.what = "data" /\ \A o \in samples : o.n <= s.n

\* The built-in topic samples populate the graph, and departed endpoints leave
\* it: no sample is lost between zzdds and the graph, in whatever batches they
\* are taken, and nothing else gets in (graph_discovery.cpp 80-206).
GraphIsCurrent ==
  /\ \A e \in Visible : TellsPresent(e, Waiting(e)) <=> e \in present
  /\ cache \subseteq Visible

\* A query that returns OK answers with every endpoint that was there during
\* all of the query and with none that was away during all of it, although
\* other queries take samples at the same time, change the graph sample by
\* sample while it reads, also between the two reads of a query for clients or
\* services (rmw_graph.cpp 341-352 and 493-526).
AnswersAreCurrent ==
  \A t \in Threads : phase[t] \in Kinds \cup {"read"} =>
    \A e \in steady[t] : e \in Answer(t) <=> e \in present

\* A watcher that sleeps until the graph guard condition is triggered comes to
\* know what came or went, whoever took the sample, unless a refresh failed.
WatcherLearns ==
  \A e \in Visible :
    /\ <>[](e \in present) => <>(e \in view \/ failed)
    /\ <>[](e \notin present) => <>[](e \notin view) \/ <>failed
===============================================================================
