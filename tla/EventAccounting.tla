--------------------------- MODULE EventAccounting ---------------------------
(***************************************************************************)
(* The QoS events of one rmw_zzdds endpoint (a publisher or a              *)
(* subscription), as rmw_event.cpp keeps them.                             *)
(*                                                                         *)
(* zzdds records a status change and, after it has released its own lock,  *)
(* calls the listener installed for that status.  The listener, take,      *)
(* initialization and the matched counts each read the zzdds status under  *)
(* event_mutex and account for what they find.  A critical section of      *)
(* event_mutex is one action; whatever the code does between two critical  *)
(* sections (installing the zzdds listener, invoking the application's     *)
(* callback) is an action of its own, so every interleaving of them is     *)
(* explored.                                                               *)
(*                                                                         *)
(* The statuses are the counted ones: matched (a match raises total and    *)
(* current, an unmatch lowers current) and the ones that only count        *)
(* occurrences.  Liveliness changed, whose listener compares snapshots     *)
(* instead of counting, is not one of them.                                *)
(***************************************************************************)
EXTENDS Integers, FiniteSetsExt

CONSTANTS
  Types,           \* the event types of the endpoint
  MatchedTypes,    \* those whose status is a matched status
  AppThreads,      \* application threads calling the rmw functions
  Dispatchers,     \* zzdds threads running listeners
  Callbacks,       \* callbacks (with their user data) an application registers
  NoCallback,      \* the null callback
  MaxTotal,        \* bound: occurrences (or matches) of each status
  SerialInit,      \* does the application keep event_init apart from other calls?
  Reinit,          \* does it initialize an event type more than once?
  ReadOutcomes,    \* outcomes of a zzdds status getter (TRUE: RETCODE_OK)
  InstallOutcomes  \* outcomes of installing a zzdds listener

ASSUME EventConstants ==
  /\ Types # {}
  /\ MatchedTypes \subseteq Types
  /\ AppThreads \cap Dispatchers = {}
  /\ NoCallback \notin Callbacks
  /\ MaxTotal \in Nat
  /\ SerialInit \in BOOLEAN
  /\ Reinit \in BOOLEAN
  /\ ReadOutcomes \subseteq BOOLEAN
  /\ InstallOutcomes \subseteq BOOLEAN

Threads == AppThreads \cup Dispatchers

VARIABLES
  zz,            \* zzdds: its status per type, changed by no rmw code
  mask,          \* zzdds: the types its listener is installed for
  pending,       \* zzdds: listener calls it still has to make, per type
  stored,        \* impl->publication_matched, ...: the status last read
  guards,        \* impl->event_guards: "null", "off" or "on" (triggered)
  callbacks,     \* impl->event_callbacks and event_user_data
  eventCount,    \* impl->event_count: untaken events counted
  eventReported, \* impl->event_reported: those a callback was told about
  ready,         \* the rmw_event_t of the type is initialized
  pc,            \* where each thread is
  frame,         \* its local variables (see Frames)
  taken,         \* history: sum of the changes takes have handed out
  settled,       \* history: sum of eventReported at each take
  told           \* history: events the callbacks were told about

zzddsVars  == <<zz, mask, pending>>
countVars  == <<stored, eventCount, eventReported>>
threadVars == <<pc, frame>>
history    == <<taken, settled, told>>
vars == <<zz, mask, pending, stored, guards, callbacks, eventCount,
          eventReported, ready, pc, frame, taken, settled, told>>

-----------------------------------------------------------------------------
(* Statuses.                                                               *)

Status == [total : Nat, current : Int]
Stored == [total : Nat, current : Int, totalChange : Int, currentChange : Int]

\* The locals of a thread: the type it works on, the listener mask it has
\* computed, and the callback it is about to invoke with its argument.
Frames == [type : Types, mask : SUBSET Types,
           callback : Callbacks \cup {NoCallback}, events : Nat]

NoFrame == [type |-> CHOOSE type \in Types : TRUE, mask |-> {},
            callback |-> NoCallback, events |-> 0]

\* The frame of a thread about to invoke a callback.
CallFrame(type, callback, events) ==
  [type |-> type, mask |-> {}, callback |-> callback, events |-> events]

\* (Slip: the changes since the last read replace the untaken ones.)
AddChangesReplacing(s, now) ==
  [total         |-> now.total,
   current       |-> now.current,
   totalChange   |-> now.total - s.total,
   currentChange |-> now.current - s.current]

\* add_changes: the stored status after reading `now`, its changes computed
\* from the counts.
AddChanges(s, now) ==
  [total         |-> now.total,
   current       |-> now.current,
   totalChange   |-> s.totalChange + (now.total - s.total),
   currentChange |-> s.currentChange + (now.current - s.current)]

\* read_status: the stored status of a type after a read with outcome ok.
ReadStatus(type, ok) ==
  IF ok THEN AddChanges(stored[type], zz[type]) ELSE stored[type]

\* untaken_events.
UntakenEvents(type, s) ==
  IF type \in MatchedTypes
  THEN s.totalChange + (s.totalChange - s.currentChange)
  ELSE s.totalChange

\* uncounted_events, on a stored status s that has just been read.
UncountedEvents(type, s) ==
  LET untaken == UntakenEvents(type, s)
  IN  IF untaken > eventCount[type] THEN untaken - eventCount[type] ELSE 0

-----------------------------------------------------------------------------
(* zzdds.                                                                  *)

\* A status change: recorded under zzdds's lock, with a listener call to
\* follow if one is installed for the type.
Change(type, now) ==
  /\ zz' = [zz EXCEPT ![type] = now]
  /\ pending' = [pending EXCEPT ![type] = IF type \in mask THEN @ + 1 ELSE @]
  /\ UNCHANGED <<mask, countVars, guards, callbacks, ready, threadVars, history>>

\* A match, or an occurrence of a status that only counts them.
Occur(type) ==
  /\ zz[type].total < MaxTotal
  /\ Change(type, [total   |-> zz[type].total + 1,
                   current |-> IF type \in MatchedTypes
                               THEN zz[type].current + 1 ELSE 0])

Unmatch(type) ==
  /\ type \in MatchedTypes
  /\ zz[type].current > 0
  /\ Change(type, [zz[type] EXCEPT !.current = @ - 1])

-----------------------------------------------------------------------------
(* Counting.                                                               *)

\* A thread is back in its caller, its locals gone.
Return(t) ==
  /\ pc' = [pc EXCEPT ![t] = "idle"]
  /\ frame' = [frame EXCEPT ![t] = NoFrame]

\* The rest of a critical section that found `added` uncounted events, with s
\* the status just read: count_events_locked when there are any, after which
\* thread t has a callback to invoke if one is registered.
Count(t, type, s, added) ==
  /\ stored' = [stored EXCEPT ![type] = s]
  /\ IF added = 0
     THEN UNCHANGED <<eventCount, eventReported, guards, threadVars>>
     ELSE /\ eventCount' = [eventCount EXCEPT ![type] = @ + added]
          /\ guards' = [guards EXCEPT ![type] = "on"]
          /\ IF callbacks[type] = NoCallback
             THEN UNCHANGED <<eventReported, threadVars>>
             ELSE /\ eventReported' = [eventReported EXCEPT ![type] = @ + added]
                  /\ pc' = [pc EXCEPT ![t] = "call"]
                  /\ frame' = [frame EXCEPT ![t] = CallFrame(type, callbacks[type], added)]

\* A zzdds listener for a counted status: on_counted_status, on_status.  The
\* outcome of the read is ignored.
Listener(d, type) ==
  /\ pc[d] = "idle"
  /\ pending[type] > 0
  /\ pending' = [pending EXCEPT ![type] = @ - 1]
  /\ \E ok \in ReadOutcomes :
       LET s == ReadStatus(type, ok)
       IN  Count(d, type, s, UncountedEvents(type, s))
  /\ UNCHANGED <<zz, mask, callbacks, ready, history>>

\* No thread is inside event_init.
NoInit == \A t \in AppThreads : pc[t] \notin {"compute", "install", "finish"}

\* rmw_publisher_count_matched_subscriptions and its subscription twin:
\* read_matched_count.  A failed read changes nothing.
CountMatched(t, type) ==
  /\ pc[t] = "idle"
  /\ SerialInit => NoInit
  /\ type \in MatchedTypes
  /\ TRUE \in ReadOutcomes
  /\ LET s == ReadStatus(type, TRUE)
     IN  Count(t, type, s, IF guards[type] = "null" THEN 0 ELSE UncountedEvents(type, s))
  /\ UNCHANGED <<zzddsVars, callbacks, ready, history>>

\* The callback runs, outside event_mutex.
InvokeCallback(t) ==
  /\ pc[t] = "call"
  /\ told' = [told EXCEPT ![frame[t].type] = @ + frame[t].events]
  /\ Return(t)
  /\ UNCHANGED <<zzddsVars, countVars, guards, callbacks, ready, taken, settled>>

-----------------------------------------------------------------------------
(* rmw_*_event_init: initialize_event.                                     *)

\* First critical section: the guard condition, unless an earlier
\* initialization made it.
InitCreateGuard(t, type) ==
  /\ pc[t] = "idle"
  /\ Reinit \/ guards[type] = "null"
  /\ SerialInit => \A u \in AppThreads : pc[u] = "idle"
  /\ guards' = [guards EXCEPT ![type] = IF @ = "null" THEN "off" ELSE @]
  /\ pc' = [pc EXCEPT ![t] = "compute"]
  /\ frame' = [frame EXCEPT ![t] = [NoFrame EXCEPT !.type = type]]
  /\ UNCHANGED <<zzddsVars, countVars, callbacks, ready, history>>

\* (Slip: the listener is installed for the type being initialized only.)
ListenerMaskOfType(t) == {frame[t].type}

\* The types a listener is installed for: every one with a guard condition.
ListenerMask(t) == {type \in Types : guards[type] # "null"}

\* apply_publisher_listener, subscription_listener: the mask is computed from
\* the guards under event_mutex ...
InitComputeMask(t) ==
  /\ pc[t] = "compute"
  /\ pc' = [pc EXCEPT ![t] = "install"]
  /\ frame' = [frame EXCEPT ![t].mask = ListenerMask(t)]
  /\ UNCHANGED <<zzddsVars, countVars, guards, callbacks, ready, history>>

\* ... and the listener is installed with it after the mutex is released.  If
\* that fails, so does event_init, and the guard condition stays.
InitInstall(t) ==
  /\ pc[t] = "install"
  /\ \E ok \in InstallOutcomes :
       IF ok
       THEN /\ mask' = frame[t].mask
            /\ pc' = [pc EXCEPT ![t] = "finish"]
            /\ frame' = [frame EXCEPT ![t].mask = {}]
       ELSE /\ Return(t)
            /\ UNCHANGED mask
  /\ UNCHANGED <<zz, pending, countVars, guards, callbacks, ready, history>>

\* (Slips: changes from before the event existed are not counted; or they are
\* counted again on top of what has been counted.)
InitialCountZero(type, s) == eventCount[type]
InitialCountTwice(type, s) == eventCount[type] + UntakenEvents(type, s)

\* Changes from before the event existed are counted if nothing has been.
InitialCount(type, s) ==
  IF eventCount[type] = 0 THEN UntakenEvents(type, s) ELSE eventCount[type]

InitialTrigger(n) == IF n = 0 THEN "off" ELSE "on"

\* Second critical section.  The outcome of the read is ignored.
InitFinish(t) ==
  /\ pc[t] = "finish"
  /\ LET type == frame[t].type IN
     \E ok \in ReadOutcomes :
       LET s == ReadStatus(type, ok)
           n == InitialCount(type, s)
       IN  /\ stored' = [stored EXCEPT ![type] = s]
           /\ eventCount' = [eventCount EXCEPT ![type] = n]
           /\ guards' = [guards EXCEPT ![type] = InitialTrigger(n)]
           /\ ready' = [ready EXCEPT ![type] = TRUE]
  /\ Return(t)
  /\ UNCHANGED <<zzddsVars, eventReported, callbacks, history>>

-----------------------------------------------------------------------------
(* rmw_take_event and rmw_event_set_callback, on an initialized event.     *)

\* The application may use the event of a type.
MayUse(t, type) ==
  /\ pc[t] = "idle"
  /\ ready[type]
  /\ SerialInit => NoInit

\* (Slips: the number of events reported to a callback survives a take; a take
\* leaves the guard condition triggered.)
ForgetCountedEvents(type) ==
  /\ eventCount' = [eventCount EXCEPT ![type] = 0]
  /\ guards' = [guards EXCEPT ![type] = "off"]
  /\ UNCHANGED eventReported

KeepTrigger(type) ==
  /\ eventCount' = [eventCount EXCEPT ![type] = 0]
  /\ eventReported' = [eventReported EXCEPT ![type] = 0]
  /\ UNCHANGED guards

\* The end of a take: no event is counted any more.
ForgetEvents(type) ==
  /\ eventCount' = [eventCount EXCEPT ![type] = 0]
  /\ eventReported' = [eventReported EXCEPT ![type] = 0]
  /\ guards' = [guards EXCEPT ![type] = "off"]

\* (Slip: a take hands out the stored status without reading zzdds.)
StatusAtLastRead(type) == stored[type]

\* The status a take hands out.
StatusToTake(type) == ReadStatus(type, TRUE)

\* A failed read returns an error and changes nothing.
TakeEvent(t, type) ==
  /\ MayUse(t, type)
  /\ TRUE \in ReadOutcomes
  /\ LET s == StatusToTake(type) IN
     /\ stored' = [stored EXCEPT ![type] = [total |-> s.total, current |-> s.current,
                                            totalChange |-> 0, currentChange |-> 0]]
     /\ taken' = [taken EXCEPT ![type] = [total   |-> @.total + s.totalChange,
                                          current |-> @.current + s.currentChange]]
  /\ settled' = [settled EXCEPT ![type] = @ + eventReported[type]]
  /\ ForgetEvents(type)
  /\ UNCHANGED <<zzddsVars, callbacks, ready, threadVars, told>>

SetCallback(t, type, callback) ==
  /\ MayUse(t, type)
  /\ callbacks' = [callbacks EXCEPT ![type] = callback]
  /\ pc' = [pc EXCEPT ![t] = "after_set"]
  /\ frame' = [frame EXCEPT ![t] = [NoFrame EXCEPT !.type = type]]
  /\ UNCHANGED <<zzddsVars, countVars, guards, ready, history>>

\* (Slips: a new callback is told of every untaken event; or is told of the
\* rest without a note being made of it.)
EveryEvent(type) == eventCount[type]
ReportedBefore(type, callback) == eventReported[type]

\* The counted events no callback has been told about.
Unreported(type) == eventCount[type] - eventReported[type]

\* event_reported once the callback, if there is one, is told of the rest.
ReportedAfter(type, callback) ==
  IF callback = NoCallback THEN eventReported[type] ELSE eventCount[type]

\* after_set_callback: a critical section of its own, so the callback it finds
\* may be one another thread has registered since.
AfterSetCallback(t) ==
  /\ pc[t] = "after_set"
  /\ LET type == frame[t].type
         callback == callbacks[type]
         unreported == IF callback = NoCallback THEN 0
                       ELSE Unreported(type)
     IN  /\ eventReported' = [eventReported EXCEPT ![type] = ReportedAfter(type, callback)]
         /\ IF unreported = 0
            THEN Return(t)
            ELSE /\ pc' = [pc EXCEPT ![t] = "call"]
                 /\ frame' = [frame EXCEPT ![t] = CallFrame(type, callback, unreported)]
  /\ UNCHANGED <<zzddsVars, stored, eventCount, guards, callbacks, ready, history>>

-----------------------------------------------------------------------------

Init ==
  /\ zz = [type \in Types |-> [total |-> 0, current |-> 0]]
  /\ mask = {}
  /\ pending = [type \in Types |-> 0]
  /\ stored = [type \in Types |-> [total |-> 0, current |-> 0,
                                   totalChange |-> 0, currentChange |-> 0]]
  /\ guards = [type \in Types |-> "null"]
  /\ callbacks = [type \in Types |-> NoCallback]
  /\ eventCount = [type \in Types |-> 0]
  /\ eventReported = [type \in Types |-> 0]
  /\ ready = [type \in Types |-> FALSE]
  /\ pc = [t \in Threads |-> "idle"]
  /\ frame = [t \in Threads |-> NoFrame]
  /\ taken = [type \in Types |-> [total |-> 0, current |-> 0]]
  /\ settled = [type \in Types |-> 0]
  /\ told = [type \in Types |-> 0]

AppStep(t) ==
  \/ \E type \in Types :
       \/ CountMatched(t, type)
       \/ InitCreateGuard(t, type)
       \/ TakeEvent(t, type)
       \/ \E callback \in Callbacks \cup {NoCallback} : SetCallback(t, type, callback)
  \/ InitComputeMask(t)
  \/ InitInstall(t)
  \/ InitFinish(t)
  \/ AfterSetCallback(t)

Next ==
  \/ \E type \in Types : Occur(type) \/ Unmatch(type)
  \/ \E d \in Dispatchers, type \in Types : Listener(d, type)
  \/ \E t \in AppThreads : AppStep(t)
  \/ \E t \in Threads : InvokeCallback(t)

Spec == Init /\ [][Next]_vars

(***************************************************************************)
(* Fairness.  zzdds eventually makes every listener call it owes, and a    *)
(* thread inside an rmw function runs on to its end (no section blocks: a  *)
(* mutex holder never waits).  Changes and new calls owe nothing.          *)
(***************************************************************************)
Fairness ==
  /\ \A type \in Types : WF_vars(\E d \in Dispatchers : Listener(d, type))
  /\ \A t \in Threads : WF_vars(InvokeCallback(t))
  /\ \A t \in AppThreads :
       WF_vars(InitComputeMask(t) \/ InitInstall(t) \/ InitFinish(t) \/ AfterSetCallback(t))

FairSpec == Spec /\ Fairness
-----------------------------------------------------------------------------
(* Correctness.                                                            *)

\* Every variable has its type.
TypeOK ==
  /\ zz \in [Types -> Status]
  /\ mask \subseteq Types
  /\ pending \in [Types -> Nat]
  /\ stored \in [Types -> Stored]
  /\ guards \in [Types -> {"null", "off", "on"}]
  /\ callbacks \in [Types -> Callbacks \cup {NoCallback}]
  /\ eventCount \in [Types -> Nat]
  /\ eventReported \in [Types -> Nat]
  /\ ready \in [Types -> BOOLEAN]
  /\ pc \in [Threads -> {"idle", "compute", "install", "finish", "after_set", "call"}]
  /\ frame \in [Threads -> Frames]
  /\ taken \in [Types -> [total : Int, current : Int]]
  /\ settled \in [Types -> Nat]
  /\ told \in [Types -> Nat]

\* The events a status stands for: matches and unmatches, or occurrences.
Events(type, s) ==
  IF type \in MatchedTypes THEN s.total + (s.total - s.current) ELSE s.total

\* The untaken events zzdds and the stored status hold between them: what a
\* take would hand out now.
UntakenNow(type) == UntakenEvents(type, ReadStatus(type, TRUE))

Initializing(type) ==
  \E t \in AppThreads : pc[t] \in {"compute", "install", "finish"} /\ frame[t].type = type

\* The counters never pass one another: a callback has been told of no more
\* events than were counted, and no more were counted than are untaken.  The
\* code subtracts them as size_t (rmw_event.cpp 344 and 445), and an event
\* counted but not there would be a wakeup with nothing to take.
CountersOrdered ==
  \A type \in Types : /\ eventReported[type] <= eventCount[type]
                       /\ eventCount[type] <= UntakenEvents(type, stored[type])

\* Nothing is taken twice or lost by a take: the changes handed out so far and
\* the untaken ones add up to the status last read from zzdds.
TakesAddUp ==
  \A type \in Types :
    /\ taken[type].total + stored[type].totalChange = stored[type].total
    /\ taken[type].current + stored[type].currentChange = stored[type].current

\* An event's guard condition is triggered exactly while counted events are
\* untaken, so rmw_wait neither sleeps on a counted event nor wakes for none.
GuardMirrorsCount ==
  \A type \in Types : guards[type] = "on" <=> eventCount[type] # 0

\* Every change is counted exactly once (the comment at rmw_event.cpp 65): once
\* an event is initialized and zzdds owes it no listener call, the count is
\* the number of untaken events, including changes from before it existed.
EveryChangeCounted ==
  \A type \in Types :
    ready[type] /\ pending[type] = 0 /\ ~Initializing(type)
      => eventCount[type] = UntakenNow(type)

\* The listener for every initialized event stays installed (rmw_event.cpp 80).
ListenerStaysInstalled ==
  \A type \in Types : ready[type] /\ ~Initializing(type) => type \in mask

\* The events thread t is about to tell a callback of, each with its thread.
EventsOfCall(t, type) ==
  IF pc[t] = "call" /\ frame[t].type = type THEN {t} \X (1 .. frame[t].events) ELSE {}

\* How many events are in callback invocations that are decided and not made.
EventsInFlight(type) == UNION {EventsOfCall(t, type) : t \in Threads}
InFlight(type) == Cardinality(EventsInFlight(type))

\* event_reported counts what callbacks were really told: over all takes, the
\* events it counted are those of the calls made and of the calls decided.
ReportedIsTold ==
  \A type \in Types :
    told[type] + InFlight(type) = settled[type] + eventReported[type]

\* A triggered guard condition goes quiet only in a take, and the take that
\* does it leaves nothing behind.
TriggerClearedByTake ==
  [][\A type \in Types :
       guards[type] = "on" /\ guards'[type] # "on"
         => /\ taken'[type] = zz[type]
            /\ UntakenEvents(type, stored'[type]) = 0]_vars

\* A registered callback is eventually told of every event that is not taken
\* first, and the calls that tell it are made.
EventuallyTold ==
  \A type \in Types :
    (callbacks[type] # NoCallback /\ UntakenNow(type) > 0)
      ~> \/ callbacks[type] = NoCallback
         \/ eventReported[type] = UntakenNow(type) /\ InFlight(type) = 0

-----------------------------------------------------------------------------
(* What an endpoint promises of each event: the abstract ledger.           *)

Ledger ==
  INSTANCE EventLedger WITH
    happened  <- [type \in Types |-> Events(type, zz[type])],
    taken     <- [type \in Types |-> Events(type, taken[type])],
    announced <- eventCount,
    reported  <- eventReported

\* The accounting implements the ledger.
ImplementsLedger == Ledger!Spec
=============================================================================
