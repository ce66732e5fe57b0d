--------------------------- MODULE LivelinessEvents ---------------------------
(***************************************************************************)
(* The liveliness changed event of one subscription (rmw_event.cpp).       *)
(*                                                                         *)
(* Its status counts the matched writers that are alive and those that are *)
(* not; changes may cancel out, so the events cannot be computed from it.  *)
(* The listener counts one when the status zzdds passes to it differs from *)
(* the one at the last take.  zzdds reads that status when it makes the    *)
(* call, and the listener may run long after: concurrent listeners and     *)
(* takes overtake it.  As in EventAccounting a critical section of         *)
(* event_mutex is one action, and each step between two of them another.   *)
(***************************************************************************)
EXTENDS Integers, FiniteSets

CONSTANTS
  AppThreads,   \* application threads calling the rmw functions
  Dispatchers,  \* zzdds threads running listeners
  MaxWriters,   \* bound: matched writers
  MaxChanges,   \* bound: status changes between takes
  MaxOwed,      \* bound: listener calls owed at once
  Reinit,       \* is an initialized event initialized again?
  Failing       \* what may fail: the status read of a "listener" or of an
                   \* "init", the "install" of the listener

ASSUME LivelinessConstants ==
  /\ AppThreads \cap Dispatchers = {}
  /\ IsFiniteSet(Dispatchers)
  /\ MaxWriters \in Nat
  /\ MaxChanges \in Nat
  /\ MaxOwed \in Nat
  /\ Reinit \in BOOLEAN
  /\ Failing \subseteq {"listener", "init", "install"}

Threads == AppThreads \cup Dispatchers

\* The outcomes of something that may fail.
Outcomes(what) == IF what \in Failing THEN {TRUE, FALSE} ELSE {TRUE}

VARIABLES
  zz,            \* zzdds: the status, changed by no rmw code
  installed,     \* zzdds: the listener is installed for it
  owed,          \* zzdds: listener calls it still has to make
  stored,        \* impl->liveliness_changed
  guard,         \* its event_guards entry: "null", "off" or "on" (triggered)
  callback,      \* its event_callbacks entry is set
  eventCount,    \* its event_count
  eventReported, \* its event_reported
  ready,         \* the rmw_event_t is initialized
  pc,            \* where each thread is
  passed,        \* per thread in a listener, the status zzdds passed
  events,        \* per thread about to invoke the callback, its argument
  atTake,        \* history: the status at the last take
  seen,          \* history: since then a listener call has seen another one
  since,         \* history: changes since the last take
  overtaken      \* history: the listener calls overtaken by the last take, or
                    \* since then by an initialization that counted

zzddsVars == <<zz, installed, owed>>
countVars == <<guard, eventCount, eventReported>>
localVars == <<pc, passed, events>>
history   == <<atTake, seen, since, overtaken>>
vars == <<zz, installed, owed, stored, guard, callback, eventCount, eventReported,
          ready, pc, passed, events, atTake, seen, since, overtaken>>

-----------------------------------------------------------------------------

Status == [alive : Int, notAlive : Int]
NoStatus == [alive |-> 0, notAlive |-> 0]

Go(t, where) == pc' = [pc EXCEPT ![t] = where]

\* add_changes.
AddChanges(s, now) ==
  [alive          |-> now.alive,
   notAlive       |-> now.notAlive,
   aliveChange    |-> s.aliveChange + (now.alive - s.alive),
   notAliveChange |-> s.notAliveChange + (now.notAlive - s.notAlive)]

\* read_status: the stored status after a read with outcome ok.
ReadStatus(ok) == IF ok THEN AddChanges(stored, zz) ELSE stored

Size(n) == IF n < 0 THEN 0 - n ELSE n

\* untaken_events: an estimate from the net changes.
UntakenEvents(s) ==
  IF Size(s.aliveChange) > Size(s.notAliveChange)
  THEN Size(s.aliveChange) ELSE Size(s.notAliveChange)

\* (Slip: the status read last.)
LastRead(s) == [alive |-> s.alive, notAlive |-> s.notAlive]

\* What the stored status holds of the one at the last take.
Base(s) == [alive    |-> s.alive - s.aliveChange,
            notAlive |-> s.notAlive - s.notAliveChange]

-----------------------------------------------------------------------------
(* zzdds.                                                                  *)

\* A change of the status, with a listener call to follow.
Change(now) ==
  /\ since < MaxChanges
  /\ owed < MaxOwed
  /\ zz' = now
  /\ owed' = IF installed THEN owed + 1 ELSE owed
  /\ since' = since + 1
  /\ UNCHANGED <<installed, stored, countVars, callback, ready, localVars,
                 atTake, seen, overtaken>>

\* A writer is matched, is lost, recovers, or leaves.
WriterMatched == zz.alive + zz.notAlive < MaxWriters /\ Change([zz EXCEPT !.alive = @ + 1])
WriterLost ==
  zz.alive > 0 /\ Change([alive |-> zz.alive - 1, notAlive |-> zz.notAlive + 1])
WriterRecovers ==
  zz.notAlive > 0 /\ Change([alive |-> zz.alive + 1, notAlive |-> zz.notAlive - 1])
WriterLeaves ==
  \/ zz.alive > 0 /\ Change([zz EXCEPT !.alive = @ - 1])
  \/ zz.notAlive > 0 /\ Change([zz EXCEPT !.notAlive = @ - 1])

ZzddsChanges == WriterMatched \/ WriterLost \/ WriterRecovers \/ WriterLeaves

\* zzdds calls the listener, with the status it has now.
CallListener(d) ==
  /\ pc[d] = "idle"
  /\ owed > 0
  /\ owed' = owed - 1
  /\ Go(d, "listen")
  /\ passed' = [passed EXCEPT ![d] = zz]
  /\ seen' = (seen \/ zz # atTake)
  /\ UNCHANGED <<zz, installed, stored, countVars, callback, ready, events,
                 atTake, since, overtaken>>

\* The listener calls that changes so far have caused and that have not counted.
Underway == owed + Cardinality({d \in Dispatchers : pc[d] = "listen"})

-----------------------------------------------------------------------------
(* The listener and the callback.                                          *)

\* liveliness_changed_listener, on_status.  The outcome of the read is ignored.
Listener(d) ==
  /\ pc[d] = "listen"
  /\ passed' = [passed EXCEPT ![d] = NoStatus]
  /\ \E ok \in Outcomes("listener") :
       /\ stored' = ReadStatus(ok)
       /\ IF passed[d] = Base(stored')
          THEN Go(d, "idle") /\ UNCHANGED <<countVars, events>>
          ELSE /\ eventCount' = eventCount + 1
               /\ guard' = "on"
               /\ IF callback
                  THEN /\ eventReported' = eventReported + 1
                       /\ events' = [events EXCEPT ![d] = 1]
                       /\ Go(d, "call")
                  ELSE Go(d, "idle") /\ UNCHANGED <<eventReported, events>>
  /\ UNCHANGED <<zzddsVars, callback, ready, history>>

\* The callback runs, outside event_mutex.
InvokeCallback(t) ==
  /\ pc[t] = "call"
  /\ events' = [events EXCEPT ![t] = 0]
  /\ Go(t, "idle")
  /\ UNCHANGED <<zzddsVars, stored, countVars, callback, ready, passed, history>>

-----------------------------------------------------------------------------
(* rmw_subscription_event_init.                                            *)

InitCreateGuard(t) ==
  /\ pc[t] = "idle"
  /\ Reinit \/ ~ready
  /\ guard' = IF guard = "null" THEN "off" ELSE guard
  /\ Go(t, "install")
  /\ UNCHANGED <<zzddsVars, stored, callback, eventCount, eventReported, ready,
                 passed, events, history>>

InitInstall(t) ==
  /\ pc[t] = "install"
  /\ \E ok \in Outcomes("install") :
       /\ installed' = (installed \/ ok)
       /\ Go(t, IF ok THEN "finish" ELSE "idle")
  /\ UNCHANGED <<zz, owed, stored, countVars, callback, ready, passed, events, history>>

\* (Slip: they are counted on top of what has been counted.)
InitialCountTwice(s) == eventCount + UntakenEvents(s)

\* Changes from before the event existed are counted if nothing has been.
InitialCount(s) == IF eventCount = 0 THEN UntakenEvents(s) ELSE eventCount

\* The outcome of the read is ignored.
InitFinish(t) ==
  /\ pc[t] = "finish"
  /\ \E ok \in Outcomes("init") :
       /\ stored' = ReadStatus(ok)
       /\ eventCount' = InitialCount(stored')
  /\ guard' = IF eventCount' = 0 THEN "off" ELSE "on"
  /\ ready' = TRUE
  /\ overtaken' = IF eventCount = 0 THEN Underway ELSE overtaken
  /\ Go(t, "idle")
  /\ UNCHANGED <<zzddsVars, callback, eventReported, passed, events, atTake, seen, since>>

-----------------------------------------------------------------------------
(* rmw_take_event and rmw_event_set_callback.                              *)

MayUse(t) == ready /\ pc[t] = "idle"

\* A failed read returns an error and changes nothing.
TakeEvent(t) ==
  /\ MayUse(t)
  /\ stored' = [ReadStatus(TRUE) EXCEPT !.aliveChange = 0, !.notAliveChange = 0]
  /\ eventCount' = 0
  /\ eventReported' = 0
  /\ guard' = "off"
  /\ atTake' = zz
  /\ seen' = FALSE
  /\ since' = 0
  /\ overtaken' = Underway
  /\ UNCHANGED <<zzddsVars, callback, ready, localVars>>

SetCallback(t, registered) ==
  /\ MayUse(t)
  /\ callback' = registered
  /\ Go(t, "after_set")
  /\ UNCHANGED <<zzddsVars, stored, countVars, ready, passed, events, history>>

\* (Slip: the callback is told, and no note is made of it.)
ReportedBefore == eventReported

\* event_reported once a callback that is registered has been told of the rest.
ReportedAfter == IF callback THEN eventCount ELSE eventReported

\* after_set_callback: the callback it finds may have changed again.
AfterSetCallback(t) ==
  LET unreported == IF callback THEN eventCount - eventReported ELSE 0 IN
  /\ pc[t] = "after_set"
  /\ eventReported' = ReportedAfter
  /\ events' = [events EXCEPT ![t] = unreported]
  /\ Go(t, IF unreported = 0 THEN "idle" ELSE "call")
  /\ UNCHANGED <<zzddsVars, stored, guard, eventCount, callback, ready, passed, history>>

-----------------------------------------------------------------------------

Init ==
  /\ zz = NoStatus
  /\ installed = FALSE
  /\ owed = 0
  /\ stored = [alive |-> 0, notAlive |-> 0, aliveChange |-> 0, notAliveChange |-> 0]
  /\ guard = "null"
  /\ callback = FALSE
  /\ eventCount = 0
  /\ eventReported = 0
  /\ ready = FALSE
  /\ pc = [t \in Threads |-> "idle"]
  /\ passed = [d \in Dispatchers |-> NoStatus]
  /\ events = [t \in Threads |-> 0]
  /\ atTake = NoStatus
  /\ seen = FALSE
  /\ since = 0
  /\ overtaken = 0

AppStep(t) == InitInstall(t) \/ InitFinish(t) \/ AfterSetCallback(t)

Next ==
  \/ ZzddsChanges
  \/ \E d \in Dispatchers : CallListener(d) \/ Listener(d)
  \/ \E t \in AppThreads :
       \/ InitCreateGuard(t) \/ TakeEvent(t) \/ AppStep(t)
       \/ \E registered \in BOOLEAN : SetCallback(t, registered)
  \/ \E t \in Threads : InvokeCallback(t)

Spec == Init /\ [][Next]_vars

\* As for the counted events: zzdds makes the calls it owes, and every call
\* runs on to its end.
FairSpec ==
  /\ Spec
  /\ WF_vars(\E d \in Dispatchers : CallListener(d))
  /\ \A d \in Dispatchers : WF_vars(Listener(d))
  /\ \A t \in AppThreads : WF_vars(AppStep(t))
  /\ \A t \in Threads : WF_vars(InvokeCallback(t))

-----------------------------------------------------------------------------
(* Correctness.                                                            *)

\* The stored status still holds the one at the last take "as its counts minus
\* its untaken changes" (rmw_event.cpp 402), however often it was read since.
BaseIsLastTake == Base(stored) = atTake

\* Once no listener is under way, an event is triggered if the status is not
\* the one at the last take, and also if changes have cancelled out since,
\* unless no listener was called in between (rmw_event.cpp 91).
ChangesAreSignalled ==
  ready /\ Underway = 0 /\ (zz # atTake \/ seen) => guard = "on" /\ eventCount > 0

\* There are more events than changes since the last take only by those whose
\* changes that take, or the initialization, has read before their listeners.
SurplusIsExplained == eventCount <= since + overtaken

\* No callback has been told of more than was counted (a size_t subtraction).
ReportedIsCounted == eventReported <= eventCount

\* A registered callback is told in the end that the status has changed, unless
\* it changes back first or is taken.
ChangeIsTold ==
  (ready /\ callback /\ zz # atTake) ~>
    \/ ~callback \/ zz = atTake
    \/ eventReported > 0 /\ \A t \in Threads : events[t] = 0
===============================================================================
