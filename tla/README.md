# rmw_zzdds in TLA+

`rmw_zzdds_cpp` implements the ROS 2 middleware interface (`rmw`) on top of
the C API of zzdds, a DDS implementation. This directory models what of it is
concurrent, fallible or spread over several parties, checks the models with
TLC on small instances, and proves with TLAPS their safety properties, and what
the conversions of names, QoS, timeouts and service messages do, for every value
of the constants and inputs. Paths below are relative to
`rmw_zzdds_cpp/src/` unless they start with a directory.

## The system

zzdds itself is not in the repository. What the code relies on of it (status
changes and listener calls, sample histories, matching, wait sets) is modelled
from how the code uses it and marked external in `PROJECT.json`.

| Component | State | Operations | Hard part | Correct when |
|---|---|---|---|---|
| QoS events, `rmw_event.cpp` | per endpoint, under `event_mutex`: statuses last read, guard conditions, counts, callbacks; the zzdds listener mask | listener calls, `rmw_*_event_init`, `rmw_take_event`, `rmw_event_set_callback`, matched counts | a change is seen by whoever reads first; listeners are installed and callbacks invoked outside the lock | every change is counted once, told at most once and eventually, and taken once |
| Liveliness events, `rmw_event.cpp` | as above; the status at the last take is kept inside the stored one | as above | the listener compares statuses, and takes and other listeners overtake it; changes cancel out | every lasting change is signalled; surplus events are explained by the reads that came first |
| Context and graph channel, `rmw_init.cpp`, `graph_discovery.cpp`, `rmw_node.cpp`, `rmw_guard_condition.cpp` | `ContextImpl`: sets of entities, `active_entities`, the discovery publisher, subscription, guard condition and listener thread | init, shutdown, fini, nodes, guard conditions, wait sets, announcements | partial initialization, joining a thread that waits, entities freed while the context goes | no use after destruction, exact count, calls return, nodes are announced |
| Wait sets, `rmw_wait.cpp` | the conditions attached to a wait set, guard condition triggers | `rmw_wait`, `rmw_trigger_guard_condition` | one-shot triggers reset after the wait; rollback of attached conditions | no signal lost, none reported twice, nothing stays attached |
| Endpoints, `rmw_data_plane.cpp`, `rmw_service.cpp` | DDS entities and memory of an endpoint, context sets, graph cache | creation and destruction of publishers, subscriptions, clients, services | rollbacks at every step, a listener live from the creation of the reader, destruction mostly outside the mutex | nothing leaks, the graph is exact, node and context outlive their last use |
| Services, `rmw_service.cpp` | next sequence number, ready count of the reply writer | send and take requests and responses, availability | the four ends of a client and a server match at different times; all clients hear all responses | a client told that it may ask gets an answer, its own, once |
| Remote discovery, `graph_discovery.cpp`, `rmw_graph.cpp` | instances and graph cache | refresh by every query, queries | batches shared by concurrent queries, failing half way | no sample lost, answers current, watchers woken |
| Publishing, taking and loans, `rmw_data_plane.cpp` | loaned messages of an endpoint, GUIDs of local publishers, raw loans of zzdds | seven take functions, publish, borrow, publish loaned, return | the filter for local samples asks zzdds and the context one after the other; failures after a sample has been taken out; memory is reused | every sample has one fate, every lent message one end |
| Conversions: names, QoS, timeouts, service messages, serialized sizes | none | pure functions | boundaries, inverses | what goes through comes back; what cannot be represented is refused |
| Type support, code generation, `unsupported.cpp` | none | | | not modelled: byte layout, casts, constant answers |

The parts meet in few places. The context's `mutex` orders creation, the
leaving half of destruction, node operations and refreshes. `active_entities`
is atomic and is all `rmw_context_fini` looks at. The graph guard condition is
triggered by local changes, by the listener thread and by refreshes, and is
waited for in `rmw_wait`, which also attaches the guard conditions of events.
`reliable_writer_ready_count`, which decides whether a service is available,
is kept by a zzdds listener of `rmw_event.cpp`.

## Modules

Every module has one action per handler or critical section. A critical
section of a mutex is one action; what the code does between two of them, or
without a lock, is an action of its own.

**EventAccounting** (`rmw_event.cpp`, `endpoint_impl.hpp`): one endpoint.
`zz`, `pending` and `mask` belong to zzdds, which records a change, releases
its lock and only then calls the listener. `stored`, `eventCount`,
`eventReported`, `guards`, `callbacks` are the fields of the endpoint.
`Listener`, `CountMatched`, `InitCreateGuard`, `InitComputeMask`,
`InitInstall`, `InitFinish`, `TakeEvent`, `SetCallback`, `AfterSetCallback`
and `InvokeCallback` are its sections. The two booleans `SerialInit` and
`Reinit` are the application's discipline: without `SerialInit`, event
initialization overlaps every other call. A status change of zzdds between the reading
and the resetting of a take needs no step of its own: the resetting touches neither
zzdds's status nor the calls it owes, so the change may as well come after it, and
`EveryChangeCounted` and `ImplementsLedger` are what would fail if it got lost. **EventLedger** is what an endpoint
promises of an event type, without threads or zzdds: what happened, was
announced, reported and taken; `ImplementsLedger` states the refinement, with
`happened` the events zzdds has counted and `announced`, `reported` the two
counters.

**LivelinessEvents** (`rmw_event.cpp` 91-94, 120-129, 194-198, 402-416): the
liveliness changed event of a subscription, with the same sections as in
EventAccounting but another count. zzdds passes its status as it is when it
makes the call, and the listener runs later. `Base` is the computation of the
status at the last take out of the stored one; the history `atTake` is that
status, and `BaseIsLastTake` says they agree. `seen`, `since` and `overtaken`
remember what the properties are about.

**ContextLifecycle** (`rmw_init.cpp`, `graph_discovery.cpp`, `rmw_node.cpp`,
`rmw_guard_condition.cpp`): `Main` calls the lifecycle functions, workers
create and destroy entities beside it, the listener thread runs its loop, and
other participants announce themselves. The accesses made without the mutex
(`thread_is_running`, the startup promise, `publish_callback`,
`suppress_graph_updates`, the trigger) are actions of their own. A node that is
announced is created or destroyed in two steps of one critical section: the test of
`suppress_graph_updates` and of the callback (`CreateNode`, `DestroyNode`), and the
announcement (`Publish`). In between the worker has the mutex, `announcing` names the
node, and `finalize_graph_channel` may clear the callback and suppress updates, but not
destroy the discovery entities, which takes the mutex. What a `std::function` does that
is cleared *while* it is being called is undefined behaviour of the program, and has no
step here. What `rmw_dds_common` does without a callback is taken to be all it does
with one but the publishing. The discovery subscription keeps one sample, as the
code's QoS for it says, so an announcement may replace an unread one.
`EarlyFini` says whether `rmw_context_fini` is also called before
`rmw_shutdown`: such a call is rejected, but only after it has torn down the
graph channel, so nodes are no longer announced after it.

**WaitSet** (`rmw_wait.cpp`): waiters with a wait set each, guard conditions
that may be shared, and levels (read conditions, and event guard conditions,
which stay triggered until a take). Attaching, each kind of failure with its
rollback, the wait, detaching, and the reset that follows are separate.

**EndpointLifecycle** (`rmw_data_plane.cpp`, `rmw_service.cpp`,
`rmw_node.cpp`): a thread has a list of steps still to do, so that clients and
services run the very steps of their two endpoints. A creation holds the mutex
from `Begin` to `Announce` or the end of `Undo`; a destruction only in
`Detach`. `Undone` and `Order` carry the order of the rollbacks.
`rmw_context_fini` is three steps, `Fini`, `EndSuppression` and `FiniCheck`: between the
first two graph updates are suppressed, without the mutex, and the call may be rejected
after them. `cache` are the endpoints whose entry is in the graph cache, `leftover` those
whose entry has stayed there after their destruction, because updates were suppressed or
the GUID of a reader could not be had. The entities of the graph channel itself are left
to ContextLifecycle.

**ServiceProtocol** (`rmw_service.cpp`): clients, servers, the two topics
between them and the matching of their four ends, with the availability test
in two steps as in the code (matched readers, then the ready count). A take of a
response (`StartTake`, `TakeNext`, `TakeNone`) is the loop of
`take_service_message`, one sample at a time with no lock between them; `Verdicts` are
its exits: a sample without data ends the call with nothing, a message that is too short
or cannot be deserialized ends it with an error, the response to another client is
dropped and the loop goes on, and an own one is given. Samples that are no messages
come from `Stray`.

**GraphDiscovery** (`graph_discovery.cpp` 52-206, `rmw_graph.cpp`): the samples
of the built-in readers, refreshes and queries, and a watcher of the graph guard
condition. A refresh locks the context's mutex, takes the writers' samples
(`TakePublications`), goes through them one by one (`Consume`), gives them back
(`ReturnLoan`), does the same for the readers (`TakeSubscriptions`), and triggers the
guard condition (`Tell`). The graph cache has a lock of its own, so others read it
between any two turns of the loop. A new sample of an endpoint may displace unread
ones or not, whatever history the built-in readers keep; samples are numbered as
they come, so that an inbox is a set and its order is not lost.

A query for clients or services reads the cache twice, for the requests and for
the replies (`ReadHalf`, `Read`), each read under the cache's own lock.

**DataPath** (`rmw_data_plane.cpp` 235-550, 726-870, 1141-1480): one subscription,
publishers of its own participant and of others, threads that take, lend,
publish and destroy. A take gets a raw loan of zzdds (`TakeSample`), asks zzdds
for the GUID of the publisher, looks it up in the context, and then copies or
lends the data, each a step of its own because publishers come and go between
them. Messages are memory and may be used again. **SampleStream** is what a
subscription promises whoever takes from it: each sample that waits is taken out
in order and delivered, hidden as one of the participant's own, found to carry
no data, or lost with an error; `DeliversStream` states the refinement.

**Conversions**: the pure functions of `rmw_data_plane.cpp` (QoS, topic names,
acknowledgment timeouts), `rmw_wait.cpp` (timeouts), `rmw_service.cpp` (topics of
a service, headers of its messages), `rmw_graph.cpp` (names in answers) and
`rmw_serialization.cpp` (lengths and capacities). Names are sequences of
characters because what the functions promise is about prefixes and suffixes; a
request number is eight bytes made by shifts of a `uint64_t`. No run uses the
module: it has no state, and its theorems cover all inputs.

The modules stand beside one another rather than in one composition; where one
needs another it has the other's promise as an action. `Wake` in
GraphDiscovery and the listener's wait in ContextLifecycle are what WaitSet
shows of `rmw_wait`; levels in WaitSet stand for the event guard conditions of
EventAccounting and LivelinessEvents and for the samples of DataPath; the ready
count of ServiceProtocol is kept by the listener of `rmw_event.cpp` 455-465;
`Notify` in GraphDiscovery is the announcement of ContextLifecycle and
EndpointLifecycle; the publishers that come and go in DataPath do so by the steps
of EndpointLifecycle, of which it keeps the two that matter to a take: the entry
of the GUID in the context and the end of the writer.

## Runs

| Run | Instance | Shows |
|---|---|---|
| `events` | two event types of one endpoint, two application threads, two zzdds threads, one occurrence each, an installation that may fail; initialization kept apart from other calls | every change counted once, told once and eventually, taken once; counters ordered; the trigger mirrors the count; no initialization displaces the listener of another; refinement of the ledger |
| `events_count_during_init` | one matched type with two matches, initialization overlapping everything | **violation** of `EveryChangeCounted` |
| `liveliness` | two writers, two zzdds threads, one application thread, failing reads and installations | lasting and cancelled changes are signalled and told, surplus events explained |
| `context` | two workers, two nodes, another entity, a remote participant, everything may fail, early fini | safety of the channel, exact count of entities, nodes announced, lifecycle calls return, announcements are taken in |
| `context_partial_init` | the discovery publisher cannot be created | **violation** of `InitMeansChannel` |
| `wait_shared` | two waiters sharing a guard condition and a level, every failure | no signal lost, none reported twice, nothing stays attached, work is done |
| `endpoints` | a client or a service, of the same two endpoints, and a subscription on a node, two threads, every step may fail, a reader may have no GUID when it goes, `rmw_context_fini` at any time | nothing leaks, the graph as exact as suppression and lost GUIDs let it be, node and context outlive their use, calls return |
| `service_one_server` | two clients, one of which asks for the server, a thread that sends and one that takes, a departing server, failing sends, takes and responses, a sample that is no message | own answers only, exact ready count, an assured request is answerable, never lost without an error, and answered |
| `service_two_servers` | one client, two servers | **violation** of `AssuredIsAnswerable` |
| `data_path` | a publisher of this and of another participant, two threads, two samples, two messages, five take functions, every failure | every sample has one fate, every lent message one end, waiting samples are taken |
| `graph_discovery` | a remote writer, reader and discovery writer, a watcher and another querying thread, failing takes and returns | no sample lost, answers current, watcher learns |
| `graph_lost_batch` | one writer whose description cannot be read | **violation** of `GraphIsCurrent` |

`rmw_take_with_info` and `rmw_take_serialized_message`, which `data_path` leaves out
to stay small, have no step that another of the five functions has not.

### Bounds

The bounds are small because the interesting cases are: two threads are enough
for any pair of critical sections to interleave, and every variable shared by
three parties (listener, taker, initializer) has all three. Counters are
bounded in the guards of the environment only: `MaxTotal` occurrences per
status (one of each of two types, where the matched one adds an unmatch; two in
the run with a violation), `MaxWriters`, `MaxChanges` and `MaxOwed` of the
liveliness status (two: a change and the one that cancels it, each with a
listener call), `MaxWritten` samples (two, so that one hides the other), `MaxVersion`
announcements per participant (one: those of this participant and of the remote one
displace each other), `MaxItems` samples behind a level, `MaxRequests` numbers
of a client (one: a failed send uses it up; the theorems are for any number and for
any threads that send and take at once),
`MaxStrays` samples that are no messages (one, which may come before, between or after
two responses), `MaxChanges` comings and goings of remote endpoints (three, enough
to come, leave and come back, the last two in one batch; the theorems are for any). The watcher of GraphDiscovery asks for
topics, in one read; the other thread also asks in two. `size_t` subtraction is not cut off: the
counters are integers and `CountersOrdered` says that they never pass one
another.

Run `events` keeps initialization apart from other calls, reads status without
failure and initializes an event once; the safety of the accounting and the
refinement under overlapping and repeated initialization and failing reads are
what the theorems below cover.

### Fairness

* Events: zzdds makes the listener calls it owes, and a thread inside an rmw
  function gets to its end, since no section waits for anything but a mutex
  whose holder never blocks. Nothing makes an application call anything.
* Context: the thread inside a lifecycle function, the listener thread and a worker
  that has the mutex run on when they can. Applications and other participants owe
  nothing.
* Wait sets: a waiter waits again after each return, as an executor does.
  Strong fairness of `Attach` and `Wake` says that zzdds does not fail, and
  waits do not time out, every single time.
* Endpoints: strong fairness of a thread's steps, since a mutex that is free
  again and again is acquired in the end; no call has to be made.
* Services: discovery completes, servers serve, clients take; nobody has to
  ask or to send, and a server may go. Strong fairness of `TakeNext` says that zzdds
  does not fail every take.
* Liveliness: as for the other events.
* Data path: a call that has begun runs on. Strong fairness of `BeginTake` with
  `rmw_take` and of `TakeSample` says that the application takes again and again
  and that zzdds does not fail every time. No failure is ever owed.
* Discovery: threads run, and the threads beside the watcher query again and
  again. Without that assumption nothing takes the samples (see below). Strong
  fairness of `TakePublications`: the context's mutex is let go after each refresh,
  and who waits for it gets it in the end.

## What is proved

`EventAccounting_proof.tla` proves, for any number of event types, threads and
callbacks, any bound, and with or without the application's discipline and
failing reads or installations:

* `TypeCorrect`, `CountersStayOrdered`, `TakesHandOutEveryChangeOnce`,
  `TriggerMirrorsCount`: invariants of run `events`.
* `EventAccountingInvariant`: the inductive invariant `IInv` they follow from.
* `TriggerGoesOnlyWithTake`: the action property `TriggerClearedByTake`.
  `OnlyTakeUntriggers` goes through every other action; `TakeSettles` says what
  a take leaves.

The second part of the module proves `AccountingImplementsLedger`, the refinement of
EventLedger. `NextMaps` maps each action: a status change happens one event
(`ChangeHappens`), a critical section that counts announces
(`CountMaps`), the end of an initialization announces if nothing was announced
before (`InitFinishMaps`), a registration reports (`AfterSetCallbackMaps`), a
take closes the page (`TakeMaps`), and every other step is a stutter.

The three invariants are not inductive alone. A read replaces the stored
status by zzdds's and adds the difference to the untaken changes; if zzdds
could be behind what was read before, the untaken events would shrink below
what is already counted. `IInv` adds `ZzddsAhead`: total and events of zzdds
are never below those stored, which holds because matches and unmatches only
add events. `ReadAddsChanges` states what a read does under `IInv`,
`UncountedIsRoom` that what is counted then fits, and `CountKeepsInvariant`
is the common step of the listener and the matched counts; `NextKeepsIInv` has
one step per action. That the untaken events of a read are among those the
ledger has open (`ReadShowsUntaken`) needs `ZzddsAhead` and `TakesAddUp`
together. The proofs rest on the assumption `EventConstants` only.

The last part of the module proves the two invariants of run `events` that need the
application's discipline, as hypotheses of the theorems:

* `ListenersStay`, under `SerialInit`: `ListenerStaysInstalled`, whatever fails and
  however often an event is initialized. `OneInitializes` says that a thread inside
  `event_init` is alone, so that the mask it has computed still is the set of types
  with a guard condition when it is installed, and that only types in the mask are
  owed listener calls or initialized.
* `EveryChangeIsCounted`, under `SerialInit`, without repeated initialization and with
  status reads that succeed: `EveryChangeCounted`. `AllIsCounted` adds what holds on
  the way there: nothing is counted before the listener is installed, and when
  `event_init` reaches its second critical section, either nothing is counted or
  everything that is owed no call. `UntakenIsTheRest` is the fact behind it: what is
  untaken changes with the status and with a take only, never with a read.

The module ends with `CallbacksAreToldOnce`, the invariant `ReportedIsTold`, for any
number of threads and whatever fails. `InFlight` counts the events of the calls decided
and not made as pairs of a thread and a number, so one thread's move changes it by
the size of its own part (`OneThreadMoves`), which library facts on finite sets give
without a sum over the threads. The set is finite since only what was decided is in
it, so nothing is assumed about the number of threads. `CountTells` and `CallDecided`
are the steps that report, `NoCallNoChange` all that leave the sums alone.

`LivelinessEvents_proof.tla` proves, for any number of threads and writers, with
failing reads in listeners and failing installations, with and without repeated
initialization:

* `EveryChangeIsSignalled`: the invariant `ChangesAreSignalled` of run
  `liveliness`.
* `StoredHoldsLastTake`: the comment at `rmw_event.cpp` 402, that the stored status
  holds the one at the last take "as its counts minus its untaken changes", and
  that no callback is told of more than was counted.

Its `IInv` says where a change that is not signalled yet still is: owed by zzdds,
or passed to a listener that will count it when it runs. `EstimateMissesNothing`
is the point of it: a listener that runs after others counts nothing only if the
status it was called with is that at the last take. These two assume `"init"
\notin Failing`: with a failing read, `rmw_subscription_event_init` goes on
without the changes from before the listener was installed.

* `SurplusStaysExplained`: the invariant `SurplusIsExplained`, whatever reads and
  installations fail.

Its invariant `SInv` says that neither the status nor what is stored of it is further
from the status at the last take than the changes since can have moved it (`Drift`),
and that what is counted, and what listeners under way will count, is explained by those
changes and by the calls a take or an initialization has overtaken (`Explained`).
`ListenersCounted` gives the number of listeners that run, a finite set by the
assumption that zzdds has finitely many threads.

`ContextLifecycle_proof.tla` proves, for any number of nodes, workers, announcing
threads and failures, with and without early calls of `rmw_context_fini`, the five
safety invariants of run `context`: `ChannelOutlivesUse`, `CountIsExact`,
`ContextGoesLast`, `ChannelAllOrNothing`, `EveryNodeAnnounced`. None is inductive.
The invariant `Control` says, for each place of the main thread, which parts of the
channel exist, which flags are set and where the listener can be (`MainKnows`); that
the parts are made and destroyed in one order, and not while a node is being announced
(`ChannelInOrder`); and that nothing runs outside a context (`NothingOutsideUp`). The
count of entities is proved on top of it, since what a failing `rmw_init` still has to
give back depends on where it is. `OneAnnouncer` says what the mutex is for: one worker
at most announces a node, and the nodes stay as they are until it has (`PublishInv`,
`AnnouncerNext`). `EveryNodeAnnounced` has the premise of its property, that the context
has its publish callback: after a partial initialization or an early `rmw_context_fini`
nothing is announced.

`WaitSet_proof.tla` proves the three properties of run `wait_shared`
(`WaitSetsAreEmptied`, `NoSignalIsLost`, `GuardsAreOneShot`) for any number of waiters,
guard conditions and levels, however they are shared. Its `IInv` adds to the types that
a waiter attaches and finds conditions of its own call only (`OwnConditions`), that it
has found nothing before its wait returns (`FoundByWait`), and that a guard condition that
is up was set since it was last reported (`UpIsFresh`): the history that makes
`OneShot` inductive.

`ServiceProtocol_proof.tla` proves for any number of clients, servers, threads and
numbers: `NobodyElsesAnswers` and `ReadyCountComesRight`, and `OneServerAnswers` and
`OneServerLosesNone` under their hypothesis that there is one server, which run
`service_two_servers` shows to be needed. Requests are recognized by their numbers, so
`NumbersUsedOnce` says where the numbers of a client are and that the next is beyond
them, and `MessagesAreGenuine` traces every response back to a request. `ReadyCounted` is
what makes the ready count exact: count + arrivals zzdds still owes - departures it still
owes = ready writers. `OnlyServerReady` follows the single server from the reader found
to the response. `AssuredKnownOf` says where an assured request is as long as its server
lives, and `Genuine` what a reader may hold besides responses: samples that are no
messages, which no request is.

`DataPath_proof.tla` proves, for any number of publishers, threads and messages:

* `EveryLoanIsAccounted`: the invariant `LoansAccounted` of run `data_path`. What is
  not visible in it is the memory a thread has recorded as a loan but not handed out:
  `MessagesAccounted` follows each message from a hand into the loans and back, and
  `DestroyedAlone` says that the thread that destroys an endpoint is alone with it, so
  that walking its loans meets no other thread. `HoldsRaw` says where a thread has a raw
  loan of zzdds, and `RawAccounted` counts those threads.
* `StreamIsDelivered`: the refinement of SampleStream. `NextSeen` has a lemma for each
  action that shows which step of the abstract stream it is: a sample is taken off
  (`TakeSampleSeen`), its fate decided by the lookup (`LookUpPublisherSeen`,
  `CheckPublisherSeen`), the reading (`ReadSampleSeen`) or the recording of the loan
  (`LoanStepsSeen`), and everything else is a stutter.

The only assumption is `DataPathConstants`, which has the threads finite: their
number is counted.

`EndpointLifecycle_proof.tla` proves the four safety invariants of run `endpoints`, for
any number of threads, nodes, endpoints, clients and services, whatever fails:
`ListenersFindImpl`, `GraphStaysExact` (with early calls of `rmw_context_fini`, as in
the run, and without them, when the graph is exact up to the end), `OwnersStay`, `NothingIsLeaked`.
None of them says what the steps a thread has left will do, so none is inductive. `IInv`
adds:

* `ListsOK`, about the lists of steps alone: what is begun on an endpoint is carried on
  and done once (`Carried`), nothing is carried on that was not begun (`Entered`), a
  client or service is registered last, after both its ends, and freed last
  (`Registers`). The lists the calls begin with have it (`CreatingBothOK`,
  `DestroyingWholeOK`), their rests keep it (`TailOK`), and so do the lists that replace
  them when a creation fails (`FailureLeaves`).
* `StepsFit`: a step finds its endpoint as it expects it, down to the parts that exist,
  which are always the first of `Order` (`PartsUpTo`); an undo can therefore start after
  any failure.
* `Exclusive`, `HeldAreLive`, `RestIsFresh`: every endpoint is one thread's, the
  application's, or not there at all. `OthersUndisturbed` is the common part of all
  steps: what one thread does to its own endpoints leaves the lists of the others fit.
* `OwnersThere` and `CountIsExact`: a registered endpoint keeps its node;
  `active_entities` is the number of nodes, of registered endpoints and of those with a
  `free` still to do. With the count at 0 only the memory of clients and services can
  be left to free (`FiniInv`), which is why `rmw_context_fini` may destroy the context
  beside a destruction.

`GraphIsExact` is proved on top of `IInv`, by the invariant `GInv`. If
`rmw_context_fini` comes only after the shutdown, an endpoint is not registered without
its entry because a creation that shutdown has not refused holds the mutex shutdown
needs (`CreationsHoldMutex`), and nobody but a finalizing thread suppresses updates
(`OnlyFiniSuppresses`).

Its assumption is `EndpointConstants`: nodes and endpoints are finite, and the ends of
a client or service are a publisher and a subscription.

`GraphDiscovery_proof.tla` proves, for any number of endpoints and threads, with failing
takes and returns, and whichever samples displace others:

* `GraphStaysCurrent`: the invariant `GraphIsCurrent` of run `graph_discovery`.
* `AnswersStayCurrent`: `AnswersAreCurrent`, for one read of the cache and for two.

The theorems assume `Unreadable = {}`; run `graph_lost_batch` shows that neither holds
without. `GraphIsCurrent` says what the *last* waiting sample of an endpoint tells, so
its `IInv` keeps the samples in order (`InOrder`: the numbers of an endpoint's
samples differ, and what is lent is older than what is in the inbox) and in one
place (`OneRefresh`, `InPlace`: only the thread with the mutex has a loan, of the
kind it goes through). `RestSays` is the point of a turn of the loop: when the first of
some samples enters the graph, the rest say what they said with it. For answers
the invariant must speak of a refresh that is half done: the cache may be wrong
about an endpoint that left and came back before the query began, until the loop
gets to its second sample. `SteadyIsTold` says that what is lent to a thread tells
the truth about what has not come or gone since its query began, and that nothing
waits elsewhere that tells otherwise, from the moment the refresh reaches its kind;
at the end of the loop nothing is lent, and it is the cache that tells the truth.
`HalfIsRight` carries that to the second read.

The theorems about Conversions are for all inputs; they stand with the proofs of the
components that convert:

* `TimeoutsAreExact` (`WaitSet_proof.tla`): `rmw_wait` and `rmw_publisher_wait_for_all_acked` check for
  overflow in different ways and accept the same timeouts, those that have a
  `DDS_Duration_t`, which is then exactly what was asked for. Only the latter knows
  `RMW_DURATION_INFINITE`; `rmw_wait` refuses it, and waits forever for a null
  pointer.
* `ReportedQosIsStable`, `ExplicitQosIsKept` (`DataPath_proof.tla`): the QoS an endpoint reports can be
  given to another, which then reports the same; what is asked for explicitly is
  reported as asked.
* `SerializingKeepsBuffersValid` (`DataPath_proof.tla`): `rmw_serialize` leaves a valid buffer in every
  case, and on failure the length it had.
* `RequestNumbersComeBack`, `ServiceMessagesComeBack` (`ServiceProtocol_proof.tla`): the eight bytes of a number
  decode to it for every `int64_t`, and GUID, number and payload are found again.
  The proof goes byte by byte: `DivideTwice` and `NextByte` split a division by a
  power of 256, `ShiftedIn` puts a byte back, and `CastsComeBack` is the
  conversion between `int64_t` and `uint64_t`.
* `TopicNamesComeBack`, `ServiceNamesComeBack` (`ServiceProtocol_proof.tla`): a ROS topic name is found again in its
  DDS name unless it begins with `/rq` or `/rr`; both topics of a service are
  found to be those of that service and never shown as topics.

Every safety property the passing runs check, invariants, action properties and
refinements, is stated by a theorem. Only model-checked is all liveness: TLAPS does
not reason about fairness and `ENABLED` here.

## Findings

* `events_count_during_init`: `rmw_event.cpp` 71-72 promises that every change
  is counted exactly once. A matched count between the creation of the guard
  condition (512) and the installation of the listener (520) makes
  `event_count` positive, and the catch-up at 527 is then skipped. The same
  happens without any overlap when `event_init` fails to install the listener, a
  matched count follows, and `event_init` is called again: the guard condition it
  left makes the count positive. `EveryChangeIsCounted` therefore excludes
  repeated initialization.
* `context_partial_init`: `graph_discovery.cpp` 236-242 returns the result of
  the cleanup, so `rmw_init` returns OK without a channel; the comment at
  308-309 warns of this for the other branch.
* `service_two_servers`: availability combines the matched reader of one
  server with the ready writer of another (`rmw_service.cpp` 481), so the race
  the comment at 469-471 describes is not closed with two servers.
  `service_one_server` shows that it is with one.
* `graph_lost_batch`: a sample that cannot be read ends the loop over its
  batch (`graph_discovery.cpp` 118); the samples behind it never populate the
  graph or remove anything, against `docs/architecture.md` 24-26.

Other limits of what the code promises, seen while modelling, for which no run stands:

* The mask of the listener is computed under the lock and installed after it
  (`rmw_event.cpp` 476-484), so two initializations of different events of an endpoint at
  the same time may leave the older mask installed, without the event initialized last,
  although 79-80 says that the listener of every initialized event stays installed. No
  property covers it: `ListenerStaysInstalled` and `ListenersStay` are about
  initializations one after the other. TLC shows it for two events of one
  endpoint with `SerialInit = FALSE`.
* Of two waiters that share a guard condition, the first to return resets it
  for both, so the other may not report it; `WorkIsSignalled` says that one does.
* A watcher of the graph guard condition learns of remote endpoints only if
  other threads query or nodes are announced after the endpoints are known; and
  what a refresh changed before it failed is told to nobody. `WatcherLearns`
  says so.
* A rejected `rmw_context_fini` has already torn down the graph channel, and while it
  did so creations and destructions of other threads left the graph cache as it was.
* An unread announcement of another participant may be displaced by a later one of
  somebody else (`graph_discovery.cpp` 225-228); `AnnouncementTakenIn` allows it.
* A take of a response that meets a sample without data returns OK with nothing, though
  an own response may wait behind it (`rmw_service.cpp` 112); the next take finds it.
* A liveliness listener that a take or the initialization has overtaken counts a
  change that was handed out already, so an event may be triggered with no change
  to show. The comment at `rmw_event.cpp` 91-94 describes takes; the initialization
  does the same. `SurplusIsExplained` bounds it. That comment is also the reason
  why zzdds is modelled to pass its status as it is when it makes the call.
* `ignore_local_publications` looks up the publishers there are: samples that are
  still untaken when their local publisher is destroyed are shown, since its GUID
  leaves the context first. When zzdds cannot tell the GUID, a take with message
  info loses the sample with an error.
* `rmw_take_sequence` that fails half way leaves `taken` at the samples it has
  taken and the sizes of the sequences as they were.
* Topics whose names begin with `/rq` or `/rr`, such as `/rrbot/state`, are taken for
  topics of services and are not listed (`rmw_graph.cpp` 163).
* `rmw_get_service_names_and_types` reads the names of all nodes and then asks for
  the services of each, so a node that leaves in between makes it fail.
* `docs/architecture.md` 48-52 says that loaning is not supported; the code lends
  memory of its own, as `docs/feature-status.md` 18 says.

## Not modelled, and the plan

Left to model:

* Content filters: `rmw_subscription_set_content_filter` and its getter replace
  and read the expression of a topic whose filtering is inside zzdds; the filter's
  creation and rollback are steps of EndpointLifecycle.
* `rmw_get_service_names_and_types`, a loop over nodes with two reads each, and the
  nodes in the graph cache, which belong to `rmw_dds_common`.
* A take that fails in the listener thread of the graph channel.
* Type names and the limit on the length of names, among the conversions.

Left out for good: the code generators and the byte layout of CDR, type
support resolution, constant answers of `unsupported.cpp`, build scripts. The
`std::bad_alloc` of standard containers after an insertion (`rmw_node.cpp` 130,
`rmw_data_plane.cpp` 648) is not modelled: it needs the allocator to fail inside
a library.
