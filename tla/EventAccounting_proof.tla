------------------------ MODULE EventAccounting_proof ------------------------
(***************************************************************************)
(* Proofs about EventAccounting, for any number of threads, event types    *)
(* and changes, with reads and installations that may fail and with or     *)
(* without the application's discipline about event_init.  What needs that *)
(* discipline is proved in the third part, and what callbacks are told in  *)
(* the last.                                                               *)
(***************************************************************************)
EXTENDS EventAccounting, FiniteSetTheorems, TLAPS

\* zzdds is never behind what was read from it: matches and unmatches are only
\* ever added.
ZzddsAhead ==
  \A type \in Types : /\ stored[type].total <= zz[type].total
                      /\ Events(type, stored[type]) <= Events(type, zz[type])

\* The inductive invariant.  A read adds the events zzdds is ahead by to the
\* untaken ones, so ZzddsAhead is what keeps eventCount below them.
IInv ==
  /\ TypeOK
  /\ ZzddsAhead
  /\ CountersOrdered
  /\ TakesAddUp
  /\ GuardMirrorsCount

-----------------------------------------------------------------------------

\* A read adds what zzdds is ahead by to the untaken events and leaves the sum
\* of taken and untaken changes equal to the status (add_changes).
LEMMA ReadAddsChanges ==
  ASSUME TypeOK, ZzddsAhead, CountersOrdered, TakesAddUp,
         NEW type \in Types, NEW ok \in BOOLEAN
  PROVE  LET s == ReadStatus(type, ok)
         IN  /\ s \in Stored
             /\ s.total <= zz[type].total
             /\ Events(type, s) <= Events(type, zz[type])
             /\ UntakenEvents(type, s) \in Nat
             /\ eventCount[type] <= UntakenEvents(type, s)
             /\ taken[type].total + s.totalChange = s.total
             /\ taken[type].current + s.currentChange = s.current
<1> DEFINE s == ReadStatus(type, ok)
<1>1. /\ stored[type] \in Stored /\ zz[type] \in Status
      /\ taken[type] \in [total : Int, current : Int]
      /\ eventCount[type] \in Nat /\ eventReported[type] \in Nat
  BY DEF TypeOK
<1>2. CASE ok
  BY <1>1, <1>2 DEF ReadStatus, AddChanges, Stored, Status, ZzddsAhead, CountersOrdered,
     TakesAddUp, Events, UntakenEvents
<1>3. CASE ~ok
  BY <1>1, <1>3 DEF ReadStatus, Stored, Status, ZzddsAhead, CountersOrdered,
     TakesAddUp, Events, UntakenEvents
<1> QED BY <1>2, <1>3

\* A critical section that counts uncounted events (count_events_locked) keeps
\* the invariant: the events it adds are untaken ones.
LEMMA CountKeepsInvariant ==
  ASSUME IInv, NEW t \in Threads, NEW type \in Types, NEW ok \in BOOLEAN, NEW added \in Nat,
         eventCount[type] + added <= UntakenEvents(type, ReadStatus(type, ok)),
         Count(t, type, ReadStatus(type, ok), added),
         UNCHANGED <<zz, mask, callbacks, ready, taken, settled, told>>,
         pending' \in [Types -> Nat]
  PROVE  IInv'
<1> DEFINE s == ReadStatus(type, ok)
<1> HIDE DEF s
<1>1. /\ s \in Stored
      /\ s.total <= zz[type].total
      /\ Events(type, s) <= Events(type, zz[type])
      /\ UntakenEvents(type, s) \in Nat
      /\ taken[type].total + s.totalChange = s.total
      /\ taken[type].current + s.currentChange = s.current
      /\ eventCount[type] + added <= UntakenEvents(type, s)
  BY ReadAddsChanges DEF IInv, s
<1>2. stored' = [stored EXCEPT ![type] = s]
  BY DEF Count, s
<1>a. /\ zz' = zz /\ mask' = mask /\ callbacks' = callbacks /\ ready' = ready
      /\ taken' = taken /\ settled' = settled /\ told' = told
  OBVIOUS
<1>b. /\ eventCount' = [eventCount EXCEPT ![type] = @ + added]
      /\ guards' = IF added = 0 THEN guards ELSE [guards EXCEPT ![type] = "on"]
      /\ \/ eventReported' = eventReported
         \/ eventReported' = [eventReported EXCEPT ![type] = @ + added]
  BY DEF Count, IInv, TypeOK, threadVars
<1>c. \/ pc' = pc /\ frame' = frame
      \/ /\ pc' = [pc EXCEPT ![t] = "call"]
         /\ frame' = [frame EXCEPT ![t] = CallFrame(type, callbacks[type], added)]
  BY DEF Count, threadVars
<1>d. frame' \in [Threads -> Frames]
  <2>1. frame \in [Threads -> Frames] /\ callbacks[type] \in Callbacks \cup {NoCallback}
    BY DEF IInv, TypeOK
  <2>2. CallFrame(type, callbacks[type], added) \in Frames
    BY <2>1 DEF CallFrame, Frames
  <2> QED BY <1>c, <2>1, <2>2
<1>3. TypeOK'
  BY <1>1, <1>2, <1>a, <1>b, <1>c, <1>d DEF IInv, TypeOK
<1>4. ZzddsAhead'
  BY <1>1, <1>2, <1>a DEF IInv, TypeOK, ZzddsAhead, Events
<1>5. CountersOrdered'
  BY <1>1, <1>2, <1>b DEF IInv, TypeOK, CountersOrdered, UntakenEvents
<1>6. TakesAddUp'
  BY <1>1, <1>2, <1>a DEF IInv, TypeOK, TakesAddUp
<1>7. GuardMirrorsCount'
  BY <1>b DEF IInv, TypeOK, GuardMirrorsCount
<1> QED BY <1>3, <1>4, <1>5, <1>6, <1>7 DEF IInv

\* The answer of a thread with no call under way is a frame like the others.
LEMMA NoFrameType == NoFrame \in Frames
  BY EventConstants DEF NoFrame, Frames

\* What uncounted_events adds to event_count fits under the untaken events.
LEMMA UncountedIsRoom ==
  ASSUME IInv, NEW type \in Types, NEW ok \in BOOLEAN
  PROVE  /\ UncountedEvents(type, ReadStatus(type, ok)) \in Nat
         /\ eventCount[type] + UncountedEvents(type, ReadStatus(type, ok))
              <= UntakenEvents(type, ReadStatus(type, ok))
<1>1. eventCount[type] \in Nat
  BY DEF IInv, TypeOK
<1>2. /\ UntakenEvents(type, ReadStatus(type, ok)) \in Nat
      /\ eventCount[type] <= UntakenEvents(type, ReadStatus(type, ok))
  BY ReadAddsChanges DEF IInv
<1> QED BY <1>1, <1>2 DEF UncountedEvents

\* An endpoint starts with nothing counted, told or taken.
LEMMA InitIInv == Init => IInv
<1> SUFFICES ASSUME Init PROVE IInv
  OBVIOUS
<1>1. TypeOK
  BY NoFrameType DEF Init, TypeOK, Status, Stored
<1>2. ZzddsAhead /\ CountersOrdered /\ TakesAddUp /\ GuardMirrorsCount
  BY DEF Init, ZzddsAhead, CountersOrdered, TakesAddUp, GuardMirrorsCount, Events, UntakenEvents
<1> QED BY <1>1, <1>2 DEF IInv

\* Every action keeps the invariant.
LEMMA NextKeepsIInv == IInv /\ [Next]_vars => IInv'
<1> SUFFICES ASSUME IInv, [Next]_vars PROVE IInv'
  OBVIOUS
<1> USE DEF zzddsVars, countVars, threadVars, history
<1>1. ASSUME NEW type \in Types, Occur(type) \/ Unmatch(type)
      PROVE  IInv'
  <2>1. PICK now \in Status : /\ Change(type, now)
                              /\ zz[type].total <= now.total
                              /\ Events(type, zz[type]) <= Events(type, now)
    <3>1. zz[type] \in Status
      BY DEF IInv, TypeOK
    <3>2. CASE Occur(type)
      BY <3>1, <3>2 DEF Occur, Status, Events
    <3>3. CASE Unmatch(type)
      <4>1. Change(type, [zz[type] EXCEPT !.current = @ - 1]) /\ type \in MatchedTypes
        BY <3>3 DEF Unmatch
      <4> QED BY <3>1, <4>1 DEF Status, Events
    <3> QED BY <1>1, <3>2, <3>3
  <2>2. zz' \in [Types -> Status] /\ pending' \in [Types -> Nat]
    BY <2>1 DEF Change, IInv, TypeOK
  <2>3. TypeOK'
    BY <2>1, <2>2 DEF Change, IInv, TypeOK
  <2>4. ZzddsAhead'
    <3>1. ASSUME NEW x \in Types PROVE ZzddsAhead!(x)'
      <4>1. stored'[x] = stored[x] /\ stored[x] \in Stored /\ zz[x] \in Status
        BY <2>1 DEF Change, IInv, TypeOK
      <4>2. zz'[x] = IF x = type THEN now ELSE zz[x]
        BY <2>1 DEF Change, IInv, TypeOK
      <4> QED BY <2>1, <4>1, <4>2 DEF IInv, ZzddsAhead, Events, Status, Stored
    <3> QED BY <3>1 DEF ZzddsAhead
  <2>5. CountersOrdered' /\ TakesAddUp' /\ GuardMirrorsCount'
    BY <2>1 DEF Change, IInv, CountersOrdered, TakesAddUp, GuardMirrorsCount
  <2> QED BY <2>3, <2>4, <2>5 DEF IInv
<1>2. ASSUME NEW d \in Dispatchers, NEW type \in Types, Listener(d, type)
      PROVE  IInv'
  <2>1. PICK ok \in BOOLEAN : Count(d, type, ReadStatus(type, ok),
                                    UncountedEvents(type, ReadStatus(type, ok)))
    BY <1>2, EventConstants DEF Listener
  <2>2. pending' \in [Types -> Nat]
    BY <1>2 DEF Listener, IInv, TypeOK
  <2>3. UNCHANGED <<zz, mask, callbacks, ready, taken, settled, told>>
    BY <1>2 DEF Listener
  <2>4. d \in Threads
    BY DEF Threads
  <2> QED BY <2>1, <2>2, <2>3, <2>4, UncountedIsRoom, CountKeepsInvariant
<1>3. ASSUME NEW t \in AppThreads, NEW type \in Types, CountMatched(t, type)
      PROVE  IInv'
  <2> DEFINE ok == TRUE
             uncounted == UncountedEvents(type, ReadStatus(type, ok))
             untaken == UntakenEvents(type, ReadStatus(type, ok))
             added == IF guards[type] = "null" THEN 0 ELSE uncounted
  <2>1. Count(t, type, ReadStatus(type, ok), added) /\ ok \in BOOLEAN
    BY <1>3 DEF CountMatched
  <2> HIDE DEF ok
  <2>2. /\ uncounted \in Nat /\ eventCount[type] + uncounted <= untaken
        /\ untaken \in Nat /\ eventCount[type] <= untaken
        /\ eventCount[type] \in Nat
    BY <2>1, UncountedIsRoom, ReadAddsChanges DEF IInv, TypeOK
  <2> HIDE DEF uncounted, untaken
  <2>3. added \in Nat /\ eventCount[type] + added <= untaken
    BY <2>2
  <2>4. /\ UNCHANGED <<zz, mask, callbacks, ready, taken, settled, told>>
        /\ pending' \in [Types -> Nat]
    BY <1>3 DEF CountMatched, IInv, TypeOK
  <2>5. t \in Threads
    BY DEF Threads
  <2> HIDE DEF added
  <2> QED BY <2>1, <2>3, <2>4, <2>5, CountKeepsInvariant DEF untaken
<1>4. ASSUME NEW t \in Threads, InvokeCallback(t)
      PROVE  IInv'
  <2>1. told' \in [Types -> Nat]
    BY <1>4 DEF InvokeCallback, IInv, TypeOK, Frames
  <2>2. TypeOK'
    BY <1>4, <2>1, NoFrameType DEF InvokeCallback, Return, IInv, TypeOK
  <2> QED BY <1>4, <2>2 DEF InvokeCallback, IInv, ZzddsAhead, CountersOrdered, TakesAddUp,
          GuardMirrorsCount
<1>5. ASSUME NEW t \in AppThreads, NEW type \in Types, InitCreateGuard(t, type)
      PROVE  IInv'
  <2>1. [NoFrame EXCEPT !.type = type] \in Frames
    BY NoFrameType DEF Frames
  <2>2. TypeOK'
    BY <1>5, <2>1 DEF InitCreateGuard, IInv, TypeOK
  <2>3. GuardMirrorsCount'
    BY <1>5 DEF InitCreateGuard, IInv, TypeOK, GuardMirrorsCount
  <2> QED BY <1>5, <2>2, <2>3 DEF InitCreateGuard, IInv, ZzddsAhead, CountersOrdered, TakesAddUp
<1>6. ASSUME NEW t \in AppThreads, InitComputeMask(t) \/ InitInstall(t)
      PROVE  IInv'
  <2>1. t \in Threads /\ frame[t] \in Frames
    BY DEF Threads, IInv, TypeOK
  <2>2. ListenerMask(t) \subseteq Types
    BY DEF ListenerMask
  <2>3. TypeOK'
    <3>1. CASE InitComputeMask(t)
      <4>1. [frame[t] EXCEPT !.mask = ListenerMask(t)] \in Frames
        BY <2>1, <2>2 DEF Frames
      <4> QED BY <3>1, <4>1 DEF InitComputeMask, IInv, TypeOK
    <3>2. CASE InitInstall(t)
      <4>1. [frame[t] EXCEPT !.mask = {}] \in Frames /\ frame[t].mask \subseteq Types
        BY <2>1 DEF Frames
      <4> QED BY <3>2, <4>1, NoFrameType DEF InitInstall, Return, IInv, TypeOK
    <3> QED BY <1>6, <3>1, <3>2
  <2>4. UNCHANGED <<zz, stored, eventCount, eventReported, guards, taken>>
    BY <1>6 DEF InitComputeMask, InitInstall
  <2> QED BY <2>3, <2>4 DEF IInv, ZzddsAhead, CountersOrdered, TakesAddUp, GuardMirrorsCount
<1>7. ASSUME NEW t \in AppThreads, InitFinish(t)
      PROVE  IInv'
  <2> DEFINE type == frame[t].type
  <2>1. t \in Threads /\ type \in Types
    BY DEF Threads, IInv, TypeOK, Frames
  <2> HIDE DEF type
  <2>2. PICK ok \in BOOLEAN :
          LET s == ReadStatus(type, ok)
              n == InitialCount(type, s)
          IN  /\ stored' = [stored EXCEPT ![type] = s]
              /\ eventCount' = [eventCount EXCEPT ![type] = n]
              /\ guards' = [guards EXCEPT ![type] = InitialTrigger(n)]
              /\ ready' = [ready EXCEPT ![type] = TRUE]
    BY <1>7, EventConstants DEF InitFinish, type
  <2> DEFINE s == ReadStatus(type, ok)
             n == InitialCount(type, s)
  <2>3. /\ s \in Stored
        /\ s.total <= zz[type].total
        /\ Events(type, s) <= Events(type, zz[type])
        /\ UntakenEvents(type, s) \in Nat
        /\ eventCount[type] <= UntakenEvents(type, s)
        /\ taken[type].total + s.totalChange = s.total
        /\ taken[type].current + s.currentChange = s.current
    BY <2>1, ReadAddsChanges DEF IInv
  <2>4. n \in Nat /\ eventCount[type] <= n /\ n <= UntakenEvents(type, s)
    BY <2>1, <2>3 DEF InitialCount, IInv, TypeOK
  <2> HIDE DEF s, n
  <2>5. /\ stored' = [stored EXCEPT ![type] = s]
        /\ eventCount' = [eventCount EXCEPT ![type] = n]
        /\ guards' = [guards EXCEPT ![type] = InitialTrigger(n)]
        /\ ready' = [ready EXCEPT ![type] = TRUE]
    BY <2>2 DEF s, n
  <2>6. UNCHANGED <<zz, mask, pending, eventReported, callbacks, taken, settled, told>>
    BY <1>7 DEF InitFinish
  <2>7. TypeOK'
    BY <1>7, <2>1, <2>3, <2>4, <2>5, <2>6, NoFrameType
       DEF InitFinish, Return, InitialTrigger, IInv, TypeOK
  <2>8. ZzddsAhead'
    BY <2>1, <2>3, <2>5, <2>6 DEF IInv, TypeOK, ZzddsAhead, Events
  <2>9. CountersOrdered'
    BY <2>1, <2>3, <2>4, <2>5, <2>6 DEF IInv, TypeOK, CountersOrdered, UntakenEvents
  <2>10. TakesAddUp'
    BY <2>1, <2>3, <2>5, <2>6 DEF IInv, TypeOK, TakesAddUp
  <2>11. GuardMirrorsCount'
    BY <2>1, <2>4, <2>5 DEF IInv, TypeOK, GuardMirrorsCount, InitialTrigger
  <2> QED BY <2>7, <2>8, <2>9, <2>10, <2>11 DEF IInv
<1>8. ASSUME NEW t \in AppThreads, NEW type \in Types, TakeEvent(t, type)
      PROVE  IInv'
  <2> DEFINE s == ReadStatus(type, TRUE)
             r == [total |-> s.total, current |-> s.current,
                   totalChange |-> 0, currentChange |-> 0]
             g == [total   |-> taken[type].total + s.totalChange,
                   current |-> taken[type].current + s.currentChange]
  <2>1. /\ s \in Stored
        /\ s.total <= zz[type].total
        /\ Events(type, s) <= Events(type, zz[type])
        /\ taken[type].total + s.totalChange = s.total
        /\ taken[type].current + s.currentChange = s.current
    BY ReadAddsChanges DEF IInv
  <2>2. /\ stored' = [stored EXCEPT ![type] = r]
        /\ taken' = [taken EXCEPT ![type] = g]
        /\ settled' = [settled EXCEPT ![type] = @ + eventReported[type]]
        /\ eventCount' = [eventCount EXCEPT ![type] = 0]
        /\ eventReported' = [eventReported EXCEPT ![type] = 0]
        /\ guards' = [guards EXCEPT ![type] = "off"]
        /\ UNCHANGED <<zz, mask, pending, callbacks, ready, pc, frame, told>>
    BY <1>8 DEF TakeEvent, StatusToTake, ForgetEvents
  <2> HIDE DEF s
  <2>3. /\ r \in Stored /\ r.totalChange = 0 /\ r.currentChange = 0
        /\ r.total = s.total /\ r.current = s.current
    BY <2>1 DEF Stored
  <2>4. /\ g \in [total : Int, current : Int]
        /\ g.total = r.total /\ g.current = r.current
    BY <2>1, <2>3 DEF Stored, IInv, TypeOK
  <2> HIDE DEF r, g
  <2>5. TypeOK'
    BY <2>2, <2>3, <2>4 DEF IInv, TypeOK
  <2>6. ZzddsAhead'
    BY <2>1, <2>2, <2>3 DEF IInv, TypeOK, ZzddsAhead, Events
  <2>7. CountersOrdered'
    BY <2>2, <2>3 DEF IInv, TypeOK, CountersOrdered, UntakenEvents
  <2>8. TakesAddUp' /\ GuardMirrorsCount'
    BY <2>2, <2>3, <2>4 DEF IInv, TypeOK, TakesAddUp, GuardMirrorsCount, Stored
  <2> QED BY <2>5, <2>6, <2>7, <2>8 DEF IInv
<1>9. ASSUME NEW t \in AppThreads, NEW type \in Types,
             NEW callback \in Callbacks \cup {NoCallback}, SetCallback(t, type, callback)
      PROVE  IInv'
  <2>1. [NoFrame EXCEPT !.type = type] \in Frames
    BY NoFrameType DEF Frames
  <2>2. TypeOK'
    BY <1>9, <2>1 DEF SetCallback, IInv, TypeOK
  <2> QED BY <1>9, <2>2 DEF SetCallback, IInv, ZzddsAhead, CountersOrdered, TakesAddUp,
          GuardMirrorsCount
<1>10. ASSUME NEW t \in AppThreads, AfterSetCallback(t)
       PROVE  IInv'
  <2> DEFINE type == frame[t].type
             callback == callbacks[type]
             unreported == IF callback = NoCallback THEN 0 ELSE Unreported(type)
  <2>1. /\ t \in Threads /\ type \in Types
        /\ callback \in Callbacks \cup {NoCallback}
    BY DEF Threads, IInv, TypeOK, Frames
  <2>2. unreported \in Nat
    BY <2>1 DEF Unreported, IInv, TypeOK, CountersOrdered
  <2>3. CallFrame(type, callback, unreported) \in Frames
    BY <2>1, <2>2 DEF CallFrame, Frames
  <2>4. /\ eventReported' = [eventReported EXCEPT ![type] = ReportedAfter(type, callback)]
        /\ \/ Return(t)
           \/ /\ pc' = [pc EXCEPT ![t] = "call"]
              /\ frame' = [frame EXCEPT ![t] = CallFrame(type, callback, unreported)]
        /\ UNCHANGED <<zz, mask, pending, stored, eventCount, guards, callbacks, ready,
                        taken, settled, told>>
    BY <1>10 DEF AfterSetCallback
  <2> HIDE DEF type, callback, unreported
  <2>5. ReportedAfter(type, callback) \in {eventReported[type], eventCount[type]}
    BY DEF ReportedAfter
  <2>6. TypeOK'
    BY <2>1, <2>3, <2>4, <2>5, NoFrameType DEF Return, IInv, TypeOK
  <2>7. CountersOrdered'
    BY <2>1, <2>4, <2>5 DEF IInv, TypeOK, CountersOrdered
  <2> QED BY <2>4, <2>6, <2>7 DEF IInv, ZzddsAhead, TakesAddUp, GuardMirrorsCount
<1>11. CASE UNCHANGED vars
  BY <1>11 DEF vars, IInv, TypeOK, ZzddsAhead, CountersOrdered, TakesAddUp, GuardMirrorsCount
<1> QED BY <1>1, <1>2, <1>3, <1>4, <1>5, <1>6, <1>7, <1>8, <1>9, <1>10, <1>11
        DEF Next, AppStep

\* A take hands out what it has read, all of zzdds's status, and leaves no
\* change behind.
LEMMA TakeSettles ==
  ASSUME IInv, NEW t \in AppThreads, NEW type \in Types, TakeEvent(t, type)
  PROVE  /\ taken'[type] = zz[type]
         /\ UntakenEvents(type, stored'[type]) = 0
<1> DEFINE s == ReadStatus(type, TRUE)
           r == [total |-> s.total, current |-> s.current,
                 totalChange |-> 0, currentChange |-> 0]
           g == [total   |-> taken[type].total + s.totalChange,
                 current |-> taken[type].current + s.currentChange]
<1>1. /\ stored' = [stored EXCEPT ![type] = r]
      /\ taken' = [taken EXCEPT ![type] = g]
  BY DEF TakeEvent, StatusToTake
<1>2. stored'[type] = r /\ taken'[type] = g
  BY <1>1 DEF IInv, TypeOK
<1>3. /\ taken[type].total + s.totalChange = s.total
      /\ taken[type].current + s.currentChange = s.current
  BY ReadAddsChanges DEF IInv
<1>4. s.total = zz[type].total /\ s.current = zz[type].current
  BY DEF ReadStatus, AddChanges
<1>5. g = zz[type]
  <2>1. zz[type] \in Status
    BY DEF IInv, TypeOK
  <2>2. g = [total |-> zz[type].total, current |-> zz[type].current]
    BY <1>3, <1>4
  <2> QED BY <2>1, <2>2 DEF Status
<1>6. UntakenEvents(type, r) = 0
  BY DEF UntakenEvents
<1> QED BY <1>2, <1>5, <1>6

\* No other step turns a triggered guard condition off: counting only sets it,
\* a repeated initialization finds counted events and sets it again, and a
\* guard condition is created only once.
LEMMA OnlyTakeUntriggers ==
  ASSUME IInv, Next, NEW type \in Types, guards[type] = "on", guards'[type] # "on"
  PROVE  \E t \in AppThreads : TakeEvent(t, type)
<1>1. guards \in [Types -> {"null", "off", "on"}] /\ eventCount[type] # 0
      /\ eventCount \in [Types -> Nat]
  BY DEF IInv, TypeOK, GuardMirrorsCount
<1>2. guards' # guards
  OBVIOUS
<1>3. ASSUME NEW t \in Threads, NEW x \in Types, NEW s, NEW added, Count(t, x, s, added)
      PROVE  FALSE
  BY <1>1, <1>3 DEF Count
<1>4. ASSUME NEW x \in Types, Occur(x) \/ Unmatch(x) PROVE FALSE
  BY <1>2, <1>4 DEF Occur, Unmatch, Change
<1>5. ASSUME NEW d \in Dispatchers, NEW x \in Types, Listener(d, x) PROVE FALSE
  BY <1>3, <1>5 DEF Listener, Threads
<1>6. ASSUME NEW t \in AppThreads, NEW x \in Types, CountMatched(t, x) PROVE FALSE
  BY <1>3, <1>6 DEF CountMatched, Threads
<1>7. ASSUME NEW t \in Threads, InvokeCallback(t) PROVE FALSE
  BY <1>2, <1>7 DEF InvokeCallback
<1>8. ASSUME NEW t \in AppThreads, NEW x \in Types, InitCreateGuard(t, x) PROVE FALSE
  BY <1>1, <1>8 DEF InitCreateGuard
<1>9. ASSUME NEW t \in AppThreads,
             InitComputeMask(t) \/ InitInstall(t) \/ AfterSetCallback(t)
      PROVE  FALSE
  BY <1>2, <1>9 DEF InitComputeMask, InitInstall, AfterSetCallback
<1>10. ASSUME NEW t \in AppThreads, InitFinish(t) PROVE FALSE
  <2>1. PICK n : /\ eventCount[frame[t].type] # 0 => n = eventCount[frame[t].type]
                 /\ guards' = [guards EXCEPT ![frame[t].type] = InitialTrigger(n)]
    BY <1>10 DEF InitFinish, InitialCount
  <2> QED BY <1>1, <2>1 DEF InitialTrigger
<1>11. ASSUME NEW t \in AppThreads, NEW x \in Types,
              NEW callback \in Callbacks \cup {NoCallback}, SetCallback(t, x, callback)
       PROVE  FALSE
  BY <1>2, <1>11 DEF SetCallback
<1>12. ASSUME NEW t \in AppThreads, NEW x \in Types, TakeEvent(t, x) PROVE x = type
  BY <1>1, <1>12 DEF TakeEvent, ForgetEvents
<1> QED BY <1>4, <1>5, <1>6, <1>7, <1>8, <1>9, <1>10, <1>11, <1>12 DEF Next, AppStep

-----------------------------------------------------------------------------

\* The accounting of events is sound in every execution (rmw_event.cpp 65-94).
THEOREM EventAccountingInvariant == Spec => []IInv
  BY InitIInv, NextKeepsIInv, PTL DEF Spec

\* Every variable keeps its type; in particular the number of events a callback
\* is invoked with never underflows.
THEOREM TypeCorrect == Spec => []TypeOK
  BY EventAccountingInvariant, PTL DEF IInv

\* event_reported <= event_count <= untaken events: the subtractions in
\* uncounted_events and after_set_callback never wrap around.
THEOREM CountersStayOrdered == Spec => []CountersOrdered
  BY EventAccountingInvariant, PTL DEF IInv

\* rmw_take_event hands out every change zzdds has shown exactly once.
THEOREM TakesHandOutEveryChangeOnce == Spec => []TakesAddUp
  BY EventAccountingInvariant, PTL DEF IInv

\* The guard condition rmw_wait attaches is triggered exactly while counted
\* events are untaken.
THEOREM TriggerMirrorsCount == Spec => []GuardMirrorsCount
  BY EventAccountingInvariant, PTL DEF IInv

\* A waiter's trigger is lost only to a take, which hands out everything zzdds
\* has to show: no event is silenced untaken (ForgetEvents in rmw_take_event).
THEOREM TriggerGoesOnlyWithTake == Spec => TriggerClearedByTake
<1>1. IInv /\ [Next]_vars
        => [\A type \in Types :
              guards[type] = "on" /\ guards'[type] # "on"
                => /\ taken'[type] = zz[type]
                   /\ UntakenEvents(type, stored'[type]) = 0]_vars
  BY OnlyTakeUntriggers, TakeSettles
<1> QED BY <1>1, EventAccountingInvariant, PTL DEF Spec, TriggerClearedByTake

-----------------------------------------------------------------------------
(* EventAccounting implements EventLedger: every step of the accounting is *)
(* a step of the ledger or leaves it as it is.  A status change happens    *)
(* one event, a count of uncounted events announces them, registering a    *)
(* callback may report, and a take closes the page.                        *)


\* The values the ledger sees are numbers, and under the invariant a read
\* shows exactly the events that are not taken, no more than have happened.
LEMMA ReadShowsUntaken ==
  ASSUME IInv, NEW type \in Types, NEW ok \in BOOLEAN
  PROVE  /\ Events(type, zz[type]) \in Int /\ Events(type, taken[type]) \in Int
         /\ UntakenEvents(type, ReadStatus(type, ok))
              <= Events(type, zz[type]) - Events(type, taken[type])
<1> DEFINE s == ReadStatus(type, ok)
<1>1. /\ s \in Stored
      /\ Events(type, s) <= Events(type, zz[type])
      /\ taken[type].total + s.totalChange = s.total
      /\ taken[type].current + s.currentChange = s.current
  BY ReadAddsChanges DEF IInv
<1>2. zz[type] \in Status /\ taken[type] \in [total : Int, current : Int]
  BY DEF IInv, TypeOK
<1> HIDE DEF s
<1>3. UntakenEvents(type, s) = Events(type, s) - Events(type, taken[type])
  BY <1>1, <1>2 DEF UntakenEvents, Events, Stored
<1>4. /\ Events(type, s) \in Int /\ Events(type, zz[type]) \in Int
      /\ Events(type, taken[type]) \in Int
  BY <1>1, <1>2 DEF Events, Stored, Status
<1> QED BY <1>1, <1>3, <1>4 DEF s

\* A change of zzdds is one event of the ledger.
LEMMA ChangeHappens ==
  ASSUME IInv, NEW type \in Types, Occur(type) \/ Unmatch(type)
  PROVE  Ledger!Happen(type)
<1>1. zz \in [Types -> Status]
  BY DEF IInv, TypeOK
<1>2. PICK now : /\ zz' = [zz EXCEPT ![type] = now]
                 /\ Events(type, now) = Events(type, zz[type]) + 1
  <2>1. CASE Occur(type)
    <3> DEFINE now == [total   |-> zz[type].total + 1,
                       current |-> IF type \in MatchedTypes
                                   THEN zz[type].current + 1 ELSE 0]
    <3>1. zz' = [zz EXCEPT ![type] = now]
      BY <2>1 DEF Occur, Change
    <3>2. Events(type, now) = Events(type, zz[type]) + 1
      BY <1>1 DEF Status, Events
    <3> QED BY <3>1, <3>2
  <2>2. CASE Unmatch(type)
    <3>1. /\ type \in MatchedTypes
          /\ zz' = [zz EXCEPT ![type] = [zz[type] EXCEPT !.current = @ - 1]]
      BY <2>2 DEF Unmatch, Change
    <3>2. Events(type, [zz[type] EXCEPT !.current = @ - 1]) = Events(type, zz[type]) + 1
      BY <1>1, <3>1 DEF Status, Events
    <3> QED BY <3>1, <3>2
  <2> QED BY <2>1, <2>2
<1>3. UNCHANGED <<taken, eventCount, eventReported>>
  BY DEF Occur, Unmatch, Change, countVars, history
<1>4. [x \in Types |-> Events(x, zz[x])]'
        = [[x \in Types |-> Events(x, zz[x])] EXCEPT ![type] = @ + 1]
  BY <1>1, <1>2
<1> QED BY <1>3, <1>4 DEF Ledger!Happen

\* Counting n more events than before announces them, if they are there.
LEMMA CountAnnounces ==
  ASSUME IInv, NEW type \in Types, NEW ok \in BOOLEAN, NEW n \in Nat, n # 0,
         eventCount[type] + n <= UntakenEvents(type, ReadStatus(type, ok)),
         eventCount' = [eventCount EXCEPT ![type] = @ + n],
         \/ eventReported' = [eventReported EXCEPT ![type] = @ + n]
         \/ UNCHANGED eventReported,
         UNCHANGED <<zz, taken>>
  PROVE  Ledger!Next
<1>1. /\ Events(type, zz[type]) \in Int /\ Events(type, taken[type]) \in Int
      /\ UntakenEvents(type, ReadStatus(type, ok))
           <= Events(type, zz[type]) - Events(type, taken[type])
      /\ UntakenEvents(type, ReadStatus(type, ok)) \in Nat
      /\ eventCount[type] \in Nat
  BY ReadShowsUntaken, ReadAddsChanges DEF IInv, TypeOK
<1>2. /\ eventCount[type] + n <= Events(type, zz[type]) - Events(type, taken[type])
      /\ n \in 1 .. Events(type, zz[type]) - Events(type, taken[type])
  BY <1>1
<1>3. Ledger!Announce(type, n)
  BY <1>2 DEF Ledger!Announce
<1> QED BY <1>2, <1>3 DEF Ledger!Next

\* A critical section that counts is an announcement or changes nothing the
\* ledger sees.
LEMMA CountMaps ==
  ASSUME IInv, NEW t \in Threads, NEW type \in Types, NEW ok \in BOOLEAN, NEW added \in Nat,
         added # 0 => eventCount[type] + added <= UntakenEvents(type, ReadStatus(type, ok)),
         Count(t, type, ReadStatus(type, ok), added),
         UNCHANGED <<zz, taken>>
  PROVE  [Ledger!Next]_(Ledger!ledger)
<1>1. CASE added = 0
  BY <1>1 DEF Count, Ledger!ledger
<1>2. CASE added # 0
  <2>1. /\ eventCount' = [eventCount EXCEPT ![type] = @ + added]
        /\ \/ eventReported' = [eventReported EXCEPT ![type] = @ + added]
           \/ UNCHANGED eventReported
    BY <1>2 DEF Count
  <2> QED BY <1>2, <2>1, CountAnnounces
<1> QED BY <1>1, <1>2

\* The end of an initialization announces what is untaken, if nothing was
\* announced before.
LEMMA InitFinishMaps ==
  ASSUME IInv, NEW t \in AppThreads, InitFinish(t)
  PROVE  [Ledger!Next]_(Ledger!ledger)
<1> DEFINE type == frame[t].type
<1>1. type \in Types
  BY DEF Threads, IInv, TypeOK, Frames
<1> HIDE DEF type
<1>2. PICK ok \in BOOLEAN :
        eventCount' = [eventCount EXCEPT ![type] = InitialCount(type, ReadStatus(type, ok))]
  BY EventConstants DEF InitFinish, type
<1>3. UNCHANGED <<zz, taken, eventReported>>
  BY DEF InitFinish, zzddsVars, history
<1>4. eventCount \in [Types -> Nat] /\ UntakenEvents(type, ReadStatus(type, ok)) \in Nat
  BY <1>1, ReadAddsChanges DEF IInv, TypeOK
<1> DEFINE n == UntakenEvents(type, ReadStatus(type, ok))
<1>5. CASE eventCount[type] = 0 /\ n # 0
  <2>1. eventCount' = [eventCount EXCEPT ![type] = @ + n] /\ eventCount[type] + n <= n
    <3>1. eventCount' = [eventCount EXCEPT ![type] = n]
      BY <1>2, <1>5 DEF InitialCount
    <3>2. n \in Nat
      BY <1>4
    <3> HIDE DEF n
    <3>3. eventCount[type] + n = n /\ n <= n
      BY <1>5, <3>2
    <3> QED BY <3>1, <3>3
  <2> QED BY <1>1, <1>3, <1>4, <1>5, <2>1, CountAnnounces
<1>6. CASE eventCount[type] # 0 \/ n = 0
  <2>1. eventCount' = eventCount
    BY <1>1, <1>2, <1>4, <1>6 DEF InitialCount
  <2> QED BY <1>3, <2>1 DEF Ledger!ledger
<1> QED BY <1>5, <1>6

\* Telling a new callback of the rest is a report, if there is a rest.
LEMMA AfterSetCallbackMaps ==
  ASSUME IInv, NEW t \in AppThreads, AfterSetCallback(t)
  PROVE  [Ledger!Next]_(Ledger!ledger)
<1> DEFINE type == frame[t].type
<1>1. type \in Types
  BY DEF Threads, IInv, TypeOK, Frames
<1> HIDE DEF type
<1>2. \/ eventReported' = [eventReported EXCEPT ![type] = eventCount[type]]
      \/ eventReported' = [eventReported EXCEPT ![type] = eventReported[type]]
  BY DEF AfterSetCallback, ReportedAfter, type
<1>3. UNCHANGED <<zz, taken, eventCount>>
  BY DEF AfterSetCallback, zzddsVars, history
<1>4. /\ eventReported \in [Types -> Nat] /\ eventCount \in [Types -> Nat]
      /\ eventReported[type] <= eventCount[type]
  BY <1>1 DEF IInv, TypeOK, CountersOrdered
<1>5. CASE eventReported' = eventReported
  BY <1>3, <1>5 DEF Ledger!ledger
<1>6. CASE eventReported' # eventReported
  <2>1. /\ eventReported' = [eventReported EXCEPT ![type] = eventCount[type]]
        /\ eventReported[type] < eventCount[type]
    BY <1>1, <1>2, <1>4, <1>6
  <2>2. Ledger!Report(type)
    BY <1>3, <2>1 DEF Ledger!Report
  <2> QED BY <1>1, <2>2 DEF Ledger!Next
<1> QED BY <1>5, <1>6

\* A take closes the page.
LEMMA TakeMaps ==
  ASSUME IInv, NEW t \in AppThreads, NEW type \in Types, TakeEvent(t, type)
  PROVE  Ledger!Take(type)
<1>1. /\ UNCHANGED zz
      /\ eventCount' = [eventCount EXCEPT ![type] = 0]
      /\ eventReported' = [eventReported EXCEPT ![type] = 0]
      /\ \A x \in Types \ {type} : taken'[x] = taken[x]
  BY DEF TakeEvent, ForgetEvents, zzddsVars, IInv, TypeOK
<1>2. taken'[type] = zz[type]
  BY TakeSettles
<1>3. [x \in Types |-> Events(x, taken[x])]'
        = [[x \in Types |-> Events(x, taken[x])] EXCEPT ![type] = Events(type, zz[type])]
  BY <1>1, <1>2
<1> QED BY <1>1, <1>3 DEF Ledger!Take

-----------------------------------------------------------------------------

\* Every step of the accounting is a step of the ledger or a stutter.
LEMMA NextMaps ==
  ASSUME IInv, [Next]_vars
  PROVE  [Ledger!Next]_(Ledger!ledger)
<1>1. ASSUME NEW type \in Types, Occur(type) \/ Unmatch(type)
      PROVE  Ledger!Next
  BY <1>1, ChangeHappens DEF Ledger!Next
<1>2. ASSUME NEW d \in Dispatchers, NEW type \in Types, Listener(d, type)
      PROVE  [Ledger!Next]_(Ledger!ledger)
  <2>1. PICK ok \in BOOLEAN : Count(d, type, ReadStatus(type, ok),
                                    UncountedEvents(type, ReadStatus(type, ok)))
    BY <1>2, EventConstants DEF Listener
  <2>2. UNCHANGED <<zz, taken>> /\ d \in Threads
    BY <1>2 DEF Listener, history, Threads
  <2> QED BY <2>1, <2>2, UncountedIsRoom, CountMaps
<1>3. ASSUME NEW t \in AppThreads, NEW type \in Types, CountMatched(t, type)
      PROVE  [Ledger!Next]_(Ledger!ledger)
  <2> DEFINE uncounted == UncountedEvents(type, ReadStatus(type, TRUE))
             added == IF guards[type] = "null" THEN 0 ELSE uncounted
  <2>1. Count(t, type, ReadStatus(type, TRUE), added)
    BY <1>3 DEF CountMatched
  <2>2. UNCHANGED <<zz, taken>> /\ t \in Threads
    BY <1>3 DEF CountMatched, zzddsVars, history, Threads
  <2>3. /\ uncounted \in Nat
        /\ eventCount[type] + uncounted <= UntakenEvents(type, ReadStatus(type, TRUE))
    BY UncountedIsRoom
  <2> HIDE DEF uncounted
  <2>4. /\ added \in Nat
        /\ added # 0 => eventCount[type] + added <= UntakenEvents(type, ReadStatus(type, TRUE))
    BY <2>3
  <2> HIDE DEF added
  <2> QED BY <2>1, <2>2, <2>4, CountMaps
<1>4. ASSUME \/ \E t \in Threads : InvokeCallback(t)
             \/ \E t \in AppThreads : InitComputeMask(t) \/ InitInstall(t)
             \/ \E t \in AppThreads, type \in Types : InitCreateGuard(t, type)
             \/ \E t \in AppThreads, type \in Types, callback \in Callbacks \cup {NoCallback} :
                  SetCallback(t, type, callback)
             \/ UNCHANGED vars
      PROVE  UNCHANGED Ledger!ledger
  <2>1. UNCHANGED <<zz, taken, eventCount, eventReported>>
    BY <1>4 DEF InvokeCallback, InitComputeMask, InitInstall, InitCreateGuard, SetCallback,
       vars, zzddsVars, countVars, history
  <2> QED BY <2>1 DEF Ledger!ledger
<1>5. ASSUME NEW t \in AppThreads, NEW type \in Types, TakeEvent(t, type)
      PROVE  Ledger!Next
  BY <1>5, TakeMaps DEF Ledger!Next
<1> QED BY <1>1, <1>2, <1>3, <1>4, <1>5, InitFinishMaps, AfterSetCallbackMaps
        DEF Next, AppStep

\* The accounting keeps the ledger's promises in every execution: events are
\* announced and reported at most once and only while untaken, and a take
\* hands out all that happened (rmw_event.cpp 65-94 and rmw_take_event).
THEOREM AccountingImplementsLedger == Spec => ImplementsLedger
<1>1. Init => Ledger!Init
  BY DEF Init, Ledger!Init, Events
<1>2. IInv /\ [Next]_vars => [Ledger!Next]_(Ledger!ledger)
  BY NextMaps
<1> QED BY <1>1, <1>2, EventAccountingInvariant, PTL DEF Spec, ImplementsLedger, Ledger!Spec

-----------------------------------------------------------------------------
(* What holds when the application keeps event_init apart from its other   *)
(* calls on the endpoint.                                                  *)

\* A thread is inside event_init.
Within(t) == pc[t] \in {"compute", "install", "finish"}

Guarded == {type \in Types : guards[type] # "null"}

\* One thread at a time initializes, alone; it installs a listener for every
\* type with a guard condition, and a listener once installed stays.
OneInitializes ==
  /\ \A t, u \in AppThreads : Within(t) /\ u # t => pc[u] = "idle"
  /\ mask \subseteq Guarded
  /\ \A type \in Types : pending[type] > 0 => type \in mask
  /\ \A type \in Types : ready[type] => type \in mask
  /\ \A t \in AppThreads :
       /\ Within(t) => frame[t].type \in Guarded
       /\ pc[t] = "install" => frame[t].mask = Guarded
       /\ pc[t] = "finish" => frame[t].type \in mask

\* Without a listener nothing is counted, and what a listener is still to be
\* called for is all that is not counted; changes from before the listener was
\* installed are counted with the first it is called for, or else at the end.
AllIsCounted ==
  /\ \A type \in Types :
       ready[type] /\ pending[type] = 0 => eventCount[type] = UntakenNow(type)
  /\ \A t \in AppThreads :
       /\ Within(t) => ~ready[frame[t].type]
       /\ pc[t] \in {"compute", "install"} =>
            frame[t].type \notin mask /\ eventCount[frame[t].type] = 0
       /\ pc[t] = "finish" /\ pending[frame[t].type] = 0 =>
            eventCount[frame[t].type] \in {0, UntakenNow(frame[t].type)}

\* While no thread is inside event_init, and the zzdds listener, what it is
\* owed and the initialized events are as before, nothing is disturbed.
LEMMA QuietStepKeeps ==
  ASSUME OneInitializes, UNCHANGED <<mask, pending, ready>>, Guarded \subseteq Guarded',
         \A t \in AppThreads : ~Within(t)'
  PROVE  OneInitializes'
  BY DEF OneInitializes, Within

\* A critical section that counts leaves a guard condition in being, and the
\* types with one are the same if the type counted for had one.
LEMMA CountKeepsGuards ==
  ASSUME TypeOK, NEW t, NEW type \in Types, NEW s, NEW added, Count(t, type, s, added)
  PROVE  /\ Guarded \subseteq Guarded'
         /\ type \in Guarded => Guarded' = Guarded
<1>1. \/ guards' = guards
      \/ guards' = [guards EXCEPT ![type] = "on"]
  BY DEF Count
<1> QED BY <1>1 DEF Guarded, TypeOK

\* A thread that is outside event_init without being idle shows that no thread
\* is inside it.
LEMMA BusyMeansNoInit ==
  ASSUME OneInitializes, NEW t \in AppThreads, pc[t] # "idle", ~Within(t)
  PROVE  \A u \in AppThreads : ~Within(u)
  BY DEF OneInitializes, Within

\* Every action keeps OneInitializes, when the application initializes alone.
LEMMA NextKeepsOneInitializes ==
  ASSUME SerialInit, IInv, OneInitializes, [Next]_vars
  PROVE  OneInitializes'
<1> USE DEF zzddsVars, countVars, threadVars, history
<1>t. TypeOK /\ AppThreads \subseteq Threads /\ AppThreads \cap Dispatchers = {}
  BY EventConstants DEF IInv, Threads
<1>1. ASSUME NEW type \in Types, Occur(type) \/ Unmatch(type)
      PROVE  OneInitializes'
  <2>1. /\ UNCHANGED <<mask, guards, ready, pc, frame>>
        /\ pending' = [pending EXCEPT ![type] = IF type \in mask THEN @ + 1 ELSE @]
    BY <1>1 DEF Occur, Unmatch, Change
  <2>2. \A x \in Types : pending'[x] > 0 => x \in mask
    BY <1>t, <2>1 DEF OneInitializes, TypeOK
  <2> QED BY <2>1, <2>2 DEF OneInitializes, Within, Guarded
<1>2. ASSUME NEW d \in Dispatchers, NEW type \in Types, Listener(d, type)
      PROVE  OneInitializes'
  <2>1. PICK ok \in ReadOutcomes : Count(d, type, ReadStatus(type, ok),
                                    UncountedEvents(type, ReadStatus(type, ok)))
    BY <1>2 DEF Listener
  <2>2. /\ UNCHANGED <<mask, ready>>
        /\ pending[type] > 0
        /\ pending' = [pending EXCEPT ![type] = @ - 1]
    BY <1>2 DEF Listener
  <2>3. Guarded' = Guarded
    BY <1>t, <2>1, <2>2, CountKeepsGuards DEF OneInitializes
  <2>4. \A t \in AppThreads : pc'[t] = pc[t] /\ frame'[t] = frame[t]
    BY <1>t, <2>1 DEF Count, TypeOK
  <2>5. \A x \in Types : pending'[x] > 0 => x \in mask
    BY <1>t, <2>2 DEF OneInitializes, TypeOK
  <2> QED BY <2>2, <2>3, <2>4, <2>5 DEF OneInitializes, Within
<1>3. ASSUME NEW t \in AppThreads, NEW type \in Types, CountMatched(t, type)
      PROVE  OneInitializes'
  <2>1. PICK s, added : Count(t, type, s, added)
    BY <1>3 DEF CountMatched
  <2>2. UNCHANGED <<mask, pending, ready>> /\ NoInit
    BY <1>3 DEF CountMatched
  <2>3. \A u \in AppThreads : ~Within(u)'
    BY <1>t, <2>1, <2>2 DEF Count, NoInit, Within, TypeOK
  <2> QED BY <1>t, <2>1, <2>2, <2>3, CountKeepsGuards, QuietStepKeeps
<1>4. ASSUME NEW t \in Threads, InvokeCallback(t)
      PROVE  OneInitializes'
  <2>1. /\ UNCHANGED <<mask, pending, ready, guards>>
        /\ pc[t] = "call"
        /\ pc' = [pc EXCEPT ![t] = "idle"]
        /\ frame' = [frame EXCEPT ![t] = NoFrame]
    BY <1>4 DEF InvokeCallback, Return
  <2>2. CASE t \in AppThreads
    <3>1. \A u \in AppThreads : ~Within(u)
      BY <2>1, <2>2, BusyMeansNoInit DEF Within
    <3>2. \A u \in AppThreads : ~Within(u)'
      BY <1>t, <2>1, <3>1 DEF Within, TypeOK
    <3> QED BY <2>1, <3>2, QuietStepKeeps DEF Guarded
  <2>3. CASE t \notin AppThreads
    <3>1. \A u \in AppThreads : pc'[u] = pc[u] /\ frame'[u] = frame[u]
      BY <1>t, <2>1, <2>3 DEF TypeOK
    <3> QED BY <2>1, <3>1 DEF OneInitializes, Within, Guarded
  <2> QED BY <2>2, <2>3
<1>5. ASSUME NEW t \in AppThreads, NEW type \in Types, InitCreateGuard(t, type)
      PROVE  OneInitializes'
  <2>1. /\ UNCHANGED <<mask, pending, ready>>
        /\ \A u \in AppThreads : pc[u] = "idle"
        /\ guards' = [guards EXCEPT ![type] = IF @ = "null" THEN "off" ELSE @]
        /\ pc' = [pc EXCEPT ![t] = "compute"]
        /\ frame' = [frame EXCEPT ![t] = [NoFrame EXCEPT !.type = type]]
    BY <1>5 DEF InitCreateGuard
  <2>2. Guarded \subseteq Guarded' /\ type \in Guarded'
    BY <1>t, <2>1 DEF Guarded, TypeOK
  <2>3. \A u \in AppThreads : pc'[u] = IF u = t THEN "compute" ELSE "idle"
    BY <1>t, <2>1 DEF TypeOK
  <2>4. frame'[t].type = type
    BY <1>t, <2>1, NoFrameType DEF TypeOK, Frames
  <2> QED BY <2>1, <2>2, <2>3, <2>4 DEF OneInitializes, Within
<1>6. ASSUME NEW t \in AppThreads, InitComputeMask(t)
      PROVE  OneInitializes'
  <2>1. /\ UNCHANGED <<mask, pending, ready, guards>>
        /\ pc[t] = "compute"
        /\ pc' = [pc EXCEPT ![t] = "install"]
        /\ frame' = [frame EXCEPT ![t].mask = Guarded]
    BY <1>6 DEF InitComputeMask, ListenerMask, Guarded
  <2>2. Guarded' = Guarded
    BY <2>1 DEF Guarded
  <2>3. \A u \in AppThreads : u # t => pc'[u] = "idle" /\ pc[u] = "idle"
    BY <1>t, <2>1 DEF TypeOK, OneInitializes, Within
  <2>4. frame'[t].type = frame[t].type /\ frame'[t].mask = Guarded /\ pc'[t] = "install"
    BY <1>t, <2>1 DEF TypeOK, Frames
  <2> QED BY <2>1, <2>2, <2>3, <2>4 DEF OneInitializes, Within
<1>7. ASSUME NEW t \in AppThreads, InitInstall(t)
      PROVE  OneInitializes'
  <2>1. /\ UNCHANGED <<pending, ready, guards>>
        /\ pc[t] = "install"
    BY <1>7 DEF InitInstall
  <2>2. Guarded' = Guarded
    BY <2>1 DEF Guarded
  <2>3. frame[t].mask = Guarded /\ frame[t].type \in Guarded
        /\ \A u \in AppThreads : u # t => pc[u] = "idle"
    BY <2>1 DEF OneInitializes, Within
  <2>4. CASE /\ mask' = frame[t].mask
             /\ pc' = [pc EXCEPT ![t] = "finish"]
             /\ frame' = [frame EXCEPT ![t].mask = {}]
    <3>1. \A u \in AppThreads : pc'[u] = IF u = t THEN "finish" ELSE "idle"
      BY <1>t, <2>3, <2>4 DEF TypeOK
    <3>2. frame'[t].type = frame[t].type
      BY <1>t, <2>4 DEF TypeOK, Frames
    <3>3. mask \subseteq mask' /\ mask' = Guarded
      BY <2>3, <2>4 DEF OneInitializes
    <3> QED BY <2>1, <2>2, <2>3, <3>1, <3>2, <3>3 DEF OneInitializes, Within
  <2>5. CASE Return(t) /\ UNCHANGED mask
    <3>1. \A u \in AppThreads : ~Within(u)'
      BY <1>t, <2>3, <2>5 DEF Return, TypeOK, Within
    <3> QED BY <2>1, <2>2, <2>5, <3>1, QuietStepKeeps
  <2> QED BY <1>7, <2>4, <2>5 DEF InitInstall
<1>8. ASSUME NEW t \in AppThreads, InitFinish(t)
      PROVE  OneInitializes'
  <2> DEFINE type == frame[t].type
  <2>1. PICK n : /\ UNCHANGED <<mask, pending>>
                 /\ pc[t] = "finish"
                 /\ pc' = [pc EXCEPT ![t] = "idle"]
                 /\ guards' = [guards EXCEPT ![type] = InitialTrigger(n)]
                 /\ ready' = [ready EXCEPT ![type] = TRUE]
    BY <1>8 DEF InitFinish, Return
  <2>2. type \in mask /\ \A u \in AppThreads : u # t => pc[u] = "idle"
    BY <2>1 DEF OneInitializes, Within
  <2> HIDE DEF type
  <2>3. \A u \in AppThreads : ~Within(u)'
    BY <1>t, <2>1, <2>2 DEF Within, TypeOK
  <2>4. Guarded \subseteq Guarded'
    BY <1>t, <2>1 DEF Guarded, InitialTrigger, TypeOK
  <2>5. \A x \in Types : ready'[x] => x \in mask
    BY <1>t, <2>1, <2>2 DEF OneInitializes, TypeOK
  <2> QED BY <2>1, <2>3, <2>4, <2>5 DEF OneInitializes, Within
<1>9. ASSUME NEW t \in AppThreads, NEW type \in Types, TakeEvent(t, type)
      PROVE  OneInitializes'
  <2>1. /\ UNCHANGED <<mask, pending, ready, pc>> /\ NoInit
        /\ guards' = [guards EXCEPT ![type] = "off"]
    BY <1>9 DEF TakeEvent, MayUse, ForgetEvents
  <2>2. Guarded \subseteq Guarded'
    BY <1>t, <2>1 DEF Guarded, TypeOK
  <2> QED BY <2>1, <2>2, QuietStepKeeps DEF NoInit, Within
<1>10. ASSUME NEW t \in AppThreads, NEW type \in Types,
              NEW callback \in Callbacks \cup {NoCallback}, SetCallback(t, type, callback)
       PROVE  OneInitializes'
  <2>1. /\ UNCHANGED <<mask, pending, ready, guards>> /\ NoInit
        /\ pc' = [pc EXCEPT ![t] = "after_set"]
    BY <1>10 DEF SetCallback, MayUse
  <2>2. \A u \in AppThreads : ~Within(u)'
    BY <1>t, <2>1 DEF Within, NoInit, TypeOK
  <2> QED BY <2>1, <2>2, QuietStepKeeps DEF Guarded
<1>11. ASSUME NEW t \in AppThreads, AfterSetCallback(t)
       PROVE  OneInitializes'
  <2>1. /\ UNCHANGED <<mask, pending, ready, guards>>
        /\ pc[t] = "after_set"
        /\ pc' = [pc EXCEPT ![t] = "idle"] \/ pc' = [pc EXCEPT ![t] = "call"]
    BY <1>11 DEF AfterSetCallback, Return
  <2>2. \A u \in AppThreads : ~Within(u)
    BY <2>1, BusyMeansNoInit DEF Within
  <2>3. \A u \in AppThreads : ~Within(u)'
    BY <1>t, <2>1, <2>2 DEF Within, TypeOK
  <2> QED BY <2>1, <2>3, QuietStepKeeps DEF Guarded
<1>12. CASE UNCHANGED vars
  BY <1>12 DEF vars, OneInitializes, Within, Guarded
<1> QED BY <1>1, <1>2, <1>3, <1>4, <1>5, <1>6, <1>7, <1>8, <1>9, <1>10, <1>11, <1>12
        DEF Next, AppStep

\* What a take would hand out is what has happened and is not taken.
LEMMA UntakenIsTheRest ==
  ASSUME NEW type \in Types, NEW s \in Stored, NEW z \in Status,
         NEW k \in [total : Int, current : Int],
         k.total + s.totalChange = s.total, k.current + s.currentChange = s.current
  PROVE  /\ UntakenEvents(type, AddChanges(s, z)) = Events(type, z) - Events(type, k)
         /\ UntakenEvents(type, AddChanges(s, z)) \in Int
  BY DEF UntakenEvents, AddChanges, Events, Stored, Status

\* A count after a read that does not fail leaves no untaken event uncounted.
LEMMA CountCountsAll ==
  ASSUME IInv, NEW t \in Threads, NEW type \in Types,
         Count(t, type, ReadStatus(type, TRUE), UncountedEvents(type, ReadStatus(type, TRUE)))
  PROVE  \A x \in Types :
           eventCount'[x] = IF x = type THEN UntakenNow(type) ELSE eventCount[x]
<1> DEFINE s == ReadStatus(type, TRUE)
           untaken == UntakenEvents(type, s)
<1>1. /\ eventCount \in [Types -> Nat]
      /\ untaken \in Nat /\ eventCount[type] <= untaken
  BY ReadAddsChanges DEF IInv, TypeOK
<1>2. UncountedEvents(type, s) = untaken - eventCount[type]
  <2> HIDE DEF s
  <2> QED BY <1>1 DEF UncountedEvents
<1>3. \A x \in Types :
        eventCount'[x] = IF x = type THEN eventCount[type] + (untaken - eventCount[type])
                         ELSE eventCount[x]
  <2> DEFINE added == UncountedEvents(type, s)
  <2>1. eventCount' = IF added = 0 THEN eventCount ELSE [eventCount EXCEPT ![type] = @ + added]
    BY DEF Count
  <2>2. added \in Nat
    BY UncountedIsRoom
  <2> HIDE DEF added
  <2>3. \A x \in Types :
          eventCount'[x] = IF x = type THEN eventCount[type] + added ELSE eventCount[x]
    <3>1. CASE added = 0
      BY <1>1, <2>1, <3>1
    <3>2. CASE added # 0
      BY <1>1, <2>1, <3>2
    <3> QED BY <3>1, <3>2
  <2> QED BY <1>2, <2>3 DEF added
<1>4. UntakenNow(type) = untaken
  BY DEF UntakenNow
<1> HIDE DEF untaken
<1>5. eventCount[type] + (untaken - eventCount[type]) = untaken
  BY <1>1
<1> QED BY <1>3, <1>4, <1>5

\* Every action keeps AllIsCounted, when the application initializes an event
\* once and alone and no status read fails.
LEMMA NextKeepsAllIsCounted ==
  ASSUME SerialInit, ~Reinit, FALSE \notin ReadOutcomes,
         IInv, OneInitializes, AllIsCounted, [Next]_vars
  PROVE  AllIsCounted'
<1> USE DEF zzddsVars, countVars, threadVars, history
<1>t. TypeOK /\ AppThreads \subseteq Threads /\ AppThreads \cap Dispatchers = {}
      /\ TypeOK' /\ IInv' /\ OneInitializes'
  BY NextKeepsIInv, NextKeepsOneInitializes, EventConstants DEF IInv, Threads
<1>u. \A x \in Types :
        /\ UntakenNow(x) = Events(x, zz[x]) - Events(x, taken[x])
        /\ UntakenNow(x)' = Events(x, zz'[x]) - Events(x, taken'[x])
  <2> TAKE x \in Types
  <2>1. UntakenNow(x) = Events(x, zz[x]) - Events(x, taken[x])
    BY <1>t, UntakenIsTheRest DEF IInv, TypeOK, TakesAddUp, UntakenNow, ReadStatus
  <2>2. /\ stored'[x] \in Stored /\ zz'[x] \in Status
        /\ taken'[x] \in [total : Int, current : Int]
        /\ taken'[x].total + stored'[x].totalChange = stored'[x].total
        /\ taken'[x].current + stored'[x].currentChange = stored'[x].current
    BY <1>t DEF IInv, TypeOK, TakesAddUp
  <2>3. UntakenEvents(x, AddChanges(stored'[x], zz'[x])) = Events(x, zz'[x]) - Events(x, taken'[x])
    BY <2>2, UntakenIsTheRest
  <2>4. UntakenNow(x)' = UntakenEvents(x, AddChanges(stored'[x], zz'[x]))
    BY DEF UntakenNow, ReadStatus, UntakenEvents
  <2> QED BY <2>1, <2>3, <2>4
\* What is untaken changes with the status and with a take only.
<1>v. UNCHANGED <<zz, taken>> => \A x \in Types : UntakenNow(x)' = UntakenNow(x)
  BY <1>u
\* While no thread is inside event_init, AllIsCounted is its first conjunct.
<1>q. ASSUME \A u \in AppThreads : ~Within(u)',
             \A x \in Types : ready'[x] /\ pending'[x] = 0 => eventCount'[x] = UntakenNow(x)'
      PROVE  AllIsCounted'
  BY <1>q DEF AllIsCounted, Within
<1>1. ASSUME NEW type \in Types, Occur(type) \/ Unmatch(type)
      PROVE  AllIsCounted'
  <2>1. PICK now : /\ UNCHANGED <<mask, eventCount, ready, pc, frame, taken>>
                   /\ zz' = [zz EXCEPT ![type] = now]
                   /\ pending' = [pending EXCEPT ![type] = IF type \in mask THEN @ + 1 ELSE @]
    BY <1>1 DEF Occur, Unmatch, Change
  <2>2. \A x \in Types \ {type} : UntakenNow(x)' = UntakenNow(x) /\ pending'[x] = pending[x]
    BY <1>t, <1>u, <2>1 DEF TypeOK
  <2>3. type \in mask => pending'[type] # 0
    BY <1>t, <2>1 DEF TypeOK
  <2>4. \A x \in Types : pending'[x] = 0 /\ x \in mask
          => pending[x] = 0 /\ UntakenNow(x)' = UntakenNow(x)
    BY <2>2, <2>3
  <2>5. /\ \A x \in Types : ready[x] => x \in mask
        /\ \A t \in AppThreads : /\ pc[t] = "finish" => frame[t].type \in mask
                                 /\ frame[t].type \in Types
    BY <1>t DEF OneInitializes, TypeOK, Frames
  <2> QED BY <2>1, <2>4, <2>5 DEF AllIsCounted, Within
<1>2. ASSUME NEW d \in Dispatchers, NEW type \in Types, Listener(d, type)
      PROVE  AllIsCounted'
  <2>1. Count(d, type, ReadStatus(type, TRUE), UncountedEvents(type, ReadStatus(type, TRUE)))
    BY <1>2, EventConstants DEF Listener
  <2>2. /\ UNCHANGED <<mask, ready, zz, taken>>
        /\ pending[type] > 0
        /\ pending' = [pending EXCEPT ![type] = @ - 1]
    BY <1>2 DEF Listener
  <2>3. type \in mask
    BY <2>2 DEF OneInitializes
  <2>4. \A t \in AppThreads : pc'[t] = pc[t] /\ frame'[t] = frame[t] /\ frame[t].type \in Types
    <3>1. PICK s, added : Count(d, type, s, added)
      BY <2>1
    <3> QED BY <1>t, <3>1 DEF Count, TypeOK, Frames
  <2>5. d \in Threads
    BY DEF Threads
  <2>6. \A x \in Types :
          eventCount'[x] = IF x = type THEN UntakenNow(type) ELSE eventCount[x]
    BY <2>1, <2>5, CountCountsAll
  <2>7. /\ eventCount'[type] = UntakenNow(type)'
        /\ \A x \in Types \ {type} : /\ eventCount'[x] = eventCount[x]
                                     /\ pending'[x] = pending[x]
                                     /\ UntakenNow(x)' = UntakenNow(x)
    BY <1>t, <1>v, <2>2, <2>6 DEF TypeOK
  <2> QED BY <2>2, <2>3, <2>4, <2>7 DEF AllIsCounted, Within
<1>3. ASSUME NEW t \in AppThreads, NEW type \in Types, CountMatched(t, type)
      PROVE  AllIsCounted'
  <2>1. /\ UNCHANGED <<mask, pending, ready, zz, taken>> /\ NoInit
        /\ Count(t, type, ReadStatus(type, TRUE),
                 IF guards[type] = "null" THEN 0
                 ELSE UncountedEvents(type, ReadStatus(type, TRUE)))
    BY <1>3 DEF CountMatched
  <2>2. \A u \in AppThreads : ~Within(u)'
    <3>1. PICK s, added : Count(t, type, s, added)
      BY <2>1
    <3>2. \A u \in Threads : pc'[u] \in {pc[u], "call"}
      BY <1>t, <3>1 DEF Count, TypeOK
    <3> QED BY <1>t, <2>1, <3>2 DEF NoInit, Within
  <2>3. \A x \in Types \ {type} : eventCount'[x] = eventCount[x]
    BY <1>t, <2>1 DEF Count, TypeOK
  <2>4. ready[type] => eventCount'[type] = UntakenNow(type)
    <3>1. ready[type] => guards[type] # "null"
      BY DEF OneInitializes, Guarded
    <3> QED BY <1>t, <2>1, <3>1, CountCountsAll DEF TypeOK
  <2> QED BY <1>q, <1>v, <2>1, <2>2, <2>3, <2>4 DEF AllIsCounted
<1>4. ASSUME NEW t \in Threads, InvokeCallback(t)
      PROVE  AllIsCounted'
  <2>1. /\ UNCHANGED <<mask, pending, ready, zz, taken, eventCount>>
        /\ pc[t] = "call"
        /\ pc' = [pc EXCEPT ![t] = "idle"]
        /\ frame' = [frame EXCEPT ![t] = NoFrame]
    BY <1>4 DEF InvokeCallback, Return
  <2>2. \A u \in AppThreads :
          \/ u # t /\ pc'[u] = pc[u] /\ frame'[u] = frame[u] /\ frame[u].type \in Types
          \/ pc'[u] = "idle"
    BY <1>t, <2>1 DEF TypeOK, Frames
  <2> QED BY <1>v, <2>1, <2>2 DEF AllIsCounted, Within
<1>5. ASSUME NEW t \in AppThreads, NEW type \in Types, InitCreateGuard(t, type)
      PROVE  AllIsCounted'
  <2>1. /\ UNCHANGED <<mask, pending, ready, zz, taken, eventCount>>
        /\ guards[type] = "null"
        /\ \A u \in AppThreads : pc[u] = "idle"
        /\ pc' = [pc EXCEPT ![t] = "compute"]
        /\ frame' = [frame EXCEPT ![t] = [NoFrame EXCEPT !.type = type]]
    BY <1>5 DEF InitCreateGuard
  <2>2. type \notin mask /\ ~ready[type]
    BY <2>1 DEF OneInitializes, Guarded
  <2>3. eventCount[type] = 0
    BY <2>1 DEF IInv, GuardMirrorsCount
  <2>4. \A u \in AppThreads : pc'[u] = IF u = t THEN "compute" ELSE "idle"
    BY <1>t, <2>1 DEF TypeOK
  <2>5. frame'[t].type = type
    BY <1>t, <2>1, NoFrameType DEF TypeOK, Frames
  <2> QED BY <1>v, <2>1, <2>2, <2>3, <2>4, <2>5 DEF AllIsCounted, Within
<1>6. ASSUME NEW t \in AppThreads, InitComputeMask(t)
      PROVE  AllIsCounted'
  <2>1. /\ UNCHANGED <<mask, pending, ready, zz, taken, eventCount>>
        /\ pc[t] = "compute"
        /\ pc' = [pc EXCEPT ![t] = "install"]
        /\ frame' = [frame EXCEPT ![t].mask = ListenerMask(t)]
    BY <1>6 DEF InitComputeMask
  <2>2. \A u \in AppThreads : pc'[u] = IF u = t THEN "install" ELSE "idle"
    BY <1>t, <2>1 DEF TypeOK, OneInitializes, Within
  <2>3. frame'[t].type = frame[t].type /\ frame[t].type \in Types
    BY <1>t, <2>1 DEF TypeOK, Frames
  <2> QED BY <1>v, <2>1, <2>2, <2>3 DEF AllIsCounted, Within
<1>7. ASSUME NEW t \in AppThreads, InitInstall(t)
      PROVE  AllIsCounted'
  <2>1. /\ UNCHANGED <<pending, ready, zz, taken, eventCount>>
        /\ pc[t] = "install"
        /\ \A u \in AppThreads : u # t => pc[u] = "idle"
    BY <1>7 DEF InitInstall, OneInitializes, Within
  <2>2. CASE /\ pc' = [pc EXCEPT ![t] = "finish"]
             /\ frame' = [frame EXCEPT ![t].mask = {}]
    <3>1. \A u \in AppThreads : pc'[u] = IF u = t THEN "finish" ELSE "idle"
      BY <1>t, <2>1, <2>2 DEF TypeOK
    <3>2. frame'[t].type = frame[t].type /\ frame[t].type \in Types
      BY <1>t, <2>2 DEF TypeOK, Frames
    <3> QED BY <1>v, <2>1, <3>1, <3>2 DEF AllIsCounted, Within
  <2>3. CASE Return(t)
    <3>1. \A u \in AppThreads : ~Within(u)'
      BY <1>t, <2>1, <2>3 DEF Return, TypeOK, Within
    <3> QED BY <1>q, <1>v, <2>1, <3>1 DEF AllIsCounted
  <2> QED BY <1>7, <2>2, <2>3 DEF InitInstall
<1>8. ASSUME NEW t \in AppThreads, InitFinish(t)
      PROVE  AllIsCounted'
  <2> DEFINE type == frame[t].type
  <2>1. /\ UNCHANGED <<pending, zz, taken>>
        /\ pc[t] = "finish"
        /\ pc' = [pc EXCEPT ![t] = "idle"]
        /\ eventCount' = [eventCount EXCEPT ![type] =
                            InitialCount(type, ReadStatus(type, TRUE))]
        /\ ready' = [ready EXCEPT ![type] = TRUE]
    BY <1>8, EventConstants DEF InitFinish, Return
  <2>2. /\ type \in Types
        /\ \A u \in AppThreads : u # t => pc[u] = "idle"
        /\ pending[type] = 0 => eventCount[type] \in {0, UntakenNow(type)}
    BY <1>t, <2>1 DEF OneInitializes, AllIsCounted, Within, TypeOK, Frames
  <2> HIDE DEF type
  <2>3. \A u \in AppThreads : ~Within(u)'
    BY <1>t, <2>1, <2>2 DEF Within, TypeOK
  <2>4. pending[type] = 0 => eventCount'[type] = UntakenNow(type)
    BY <1>t, <2>1, <2>2 DEF InitialCount, UntakenNow, TypeOK
  <2>5. \A x \in Types \ {type} : eventCount'[x] = eventCount[x] /\ ready'[x] = ready[x]
    BY <1>t, <2>1 DEF TypeOK
  <2> QED BY <1>q, <1>v, <2>1, <2>3, <2>4, <2>5 DEF AllIsCounted
<1>9. ASSUME NEW t \in AppThreads, NEW type \in Types, TakeEvent(t, type)
      PROVE  AllIsCounted'
  <2>1. /\ UNCHANGED <<pending, ready, pc, zz>> /\ NoInit
        /\ eventCount' = [eventCount EXCEPT ![type] = 0]
        /\ \A x \in Types \ {type} : taken'[x] = taken[x]
    BY <1>t, <1>9 DEF TakeEvent, MayUse, ForgetEvents, TypeOK
  <2>2. taken'[type] = zz[type]
    BY <1>9, TakeSettles
  <2>3. Events(type, zz[type]) \in Int
    BY <1>t DEF Events, Status, TypeOK
  <2>4. UntakenNow(type)' = 0
    BY <1>u, <2>1, <2>2, <2>3
  <2>5. \A x \in Types \ {type} : UntakenNow(x)' = UntakenNow(x) /\ eventCount'[x] = eventCount[x]
    BY <1>t, <1>u, <2>1 DEF TypeOK
  <2>6. \A u \in AppThreads : ~Within(u)'
    BY <2>1 DEF NoInit, Within
  <2>7. eventCount'[type] = 0
    BY <1>t, <2>1 DEF TypeOK
  <2> QED BY <1>q, <2>1, <2>4, <2>5, <2>6, <2>7 DEF AllIsCounted
<1>10. ASSUME \/ \E t \in AppThreads, type \in Types, callback \in Callbacks \cup {NoCallback} :
                   SetCallback(t, type, callback)
              \/ \E t \in AppThreads : AfterSetCallback(t)
       PROVE  AllIsCounted'
  <2>1. UNCHANGED <<pending, ready, zz, taken, eventCount>>
    BY <1>10 DEF SetCallback, AfterSetCallback
  <2>2. \A u \in AppThreads : ~Within(u)'
    <3>1. CASE \E t \in AppThreads, type \in Types, callback \in Callbacks \cup {NoCallback} :
                 SetCallback(t, type, callback)
      BY <1>t, <3>1 DEF SetCallback, MayUse, NoInit, Within, TypeOK
    <3>2. CASE \E t \in AppThreads : AfterSetCallback(t)
      <4>1. PICK t \in AppThreads :
              /\ pc[t] = "after_set"
              /\ pc' = [pc EXCEPT ![t] = "idle"] \/ pc' = [pc EXCEPT ![t] = "call"]
        BY <3>2 DEF AfterSetCallback, Return
      <4>2. \A u \in AppThreads : ~Within(u)
        BY <4>1, BusyMeansNoInit DEF Within
      <4> QED BY <1>t, <4>1, <4>2 DEF Within, TypeOK
    <3> QED BY <1>10, <3>1, <3>2
  <2> QED BY <1>q, <1>v, <2>1, <2>2 DEF AllIsCounted
<1>11. CASE UNCHANGED vars
  <2>1. UNCHANGED <<mask, pending, ready, zz, taken, eventCount, pc, frame>>
    BY <1>11 DEF vars
  <2>2. \A t \in AppThreads : frame[t].type \in Types
    BY <1>t DEF TypeOK, Frames
  <2> QED BY <1>v, <2>1, <2>2 DEF AllIsCounted, Within
<1> QED BY <1>1, <1>2, <1>3, <1>4, <1>5, <1>6, <1>7, <1>8, <1>9, <1>10, <1>11
        DEF Next, AppStep

-----------------------------------------------------------------------------

\* If the application keeps event_init apart from its other calls on the
\* endpoint, the zzdds listener of every initialized event stays installed
\* while other events are initialized (rmw_event.cpp 80), also when an
\* installation or a read fails and an event is initialized again.
THEOREM ListenersStay == SerialInit => (Spec => []ListenerStaysInstalled)
<1> SUFFICES ASSUME SerialInit PROVE Spec => []ListenerStaysInstalled
  OBVIOUS
<1>1. Init => OneInitializes
  BY EventConstants DEF Init, OneInitializes, Within, Threads
<1>2. IInv /\ OneInitializes /\ [Next]_vars => OneInitializes'
  BY NextKeepsOneInitializes
<1>3. OneInitializes => ListenerStaysInstalled
  BY DEF OneInitializes, ListenerStaysInstalled
<1> QED BY <1>1, <1>2, <1>3, EventAccountingInvariant, PTL DEF Spec

\* If besides it initializes each event once, and no status read fails, every
\* change is counted exactly once (rmw_event.cpp 65): nothing is lost between
\* the listener, take, the matched counts and initialization's catching up.
THEOREM EveryChangeIsCounted ==
  SerialInit /\ ~Reinit /\ FALSE \notin ReadOutcomes => (Spec => []EveryChangeCounted)
<1> SUFFICES ASSUME SerialInit, ~Reinit, FALSE \notin ReadOutcomes
             PROVE  Spec => []EveryChangeCounted
  OBVIOUS
<1>1. Init => OneInitializes /\ AllIsCounted
  BY EventConstants DEF Init, OneInitializes, AllIsCounted, Within, Threads
<1>2. IInv /\ OneInitializes /\ AllIsCounted /\ [Next]_vars => OneInitializes' /\ AllIsCounted'
  BY NextKeepsOneInitializes, NextKeepsAllIsCounted
<1>3. AllIsCounted => EveryChangeCounted
  BY DEF AllIsCounted, EveryChangeCounted
<1> QED BY <1>1, <1>2, <1>3, EventAccountingInvariant, PTL DEF Spec

-----------------------------------------------------------------------------
(* What callbacks are told.                                                *)

\* The number of events thread t is about to tell a callback of.
NumberOfCall(t, type) ==
  IF pc[t] = "call" /\ frame[t].type = type THEN frame[t].events ELSE 0

\* The inductive invariant of what callbacks are told: InFlight counts a finite
\* set of events, although there may be infinitely many threads.
ToldInv ==
  /\ IInv
  /\ \A type \in Types : IsFiniteSet(EventsInFlight(type))
  /\ ReportedIsTold

\* There are as many pairs of a thread and one of n numbers as numbers.
LEMMA PairsCounted ==
  ASSUME NEW t, NEW n \in Nat
  PROVE  /\ IsFiniteSet({t} \X (1 .. n))
         /\ Cardinality({t} \X (1 .. n)) = n
         /\ \A e \in {t} \X (1 .. n) : e[1] = t
<1>1. IsFiniteSet({t}) /\ Cardinality({t}) = 1
  BY FS_Singleton
<1>2. IsFiniteSet(1 .. n) /\ Cardinality(1 .. n) = n
  <2>1. IsFiniteSet(1 .. n) /\ Cardinality(1 .. n) = IF 1 > n THEN 0 ELSE n - 1 + 1
    BY FS_Interval
  <2> QED BY <2>1
<1>3. IsFiniteSet({t} \X (1 .. n)) /\ Cardinality({t} \X (1 .. n)) = n
  <2>1. /\ IsFiniteSet({t} \X (1 .. n))
        /\ Cardinality({t} \X (1 .. n)) = Cardinality({t}) * Cardinality(1 .. n)
    BY <1>1, <1>2, FS_Product, Zenon
  <2>2. Cardinality({t}) * Cardinality(1 .. n) = n
    BY <1>1, <1>2
  <2> QED BY <2>1, <2>2
<1>4. \A e \in {t} \X (1 .. n) : e[1] = t
  OBVIOUS
<1> QED BY <1>3, <1>4

\* The events of a call are as many as it says, and each is its thread's; so
\* they are after a step.
LEMMA EventsOfCallCounted ==
  ASSUME frame \in [Threads -> Frames], frame' \in [Threads -> Frames],
         NEW t \in Threads, NEW type \in Types
  PROVE  /\ /\ NumberOfCall(t, type) \in Nat
            /\ IsFiniteSet(EventsOfCall(t, type))
            /\ Cardinality(EventsOfCall(t, type)) = NumberOfCall(t, type)
            /\ \A e \in EventsOfCall(t, type) : e[1] = t
         /\ /\ NumberOfCall(t, type)' \in Nat
            /\ IsFiniteSet(EventsOfCall(t, type)')
            /\ Cardinality(EventsOfCall(t, type)') = NumberOfCall(t, type)'
            /\ \A e \in EventsOfCall(t, type)' : e[1] = t
<1>1. frame[t].events \in Nat /\ frame'[t].events \in Nat
  BY DEF Frames, Threads
<1>2. /\ IsFiniteSet({}) /\ Cardinality({}) = 0
      /\ \A e \in {} : e[1] = t
  BY FS_EmptySet
<1>3. /\ NumberOfCall(t, type) \in Nat
      /\ IsFiniteSet(EventsOfCall(t, type))
      /\ Cardinality(EventsOfCall(t, type)) = NumberOfCall(t, type)
      /\ \A e \in EventsOfCall(t, type) : e[1] = t
  <2>1. CASE pc[t] = "call" /\ frame[t].type = type
    BY <1>1, <2>1, PairsCounted DEF EventsOfCall, NumberOfCall
  <2>2. CASE ~(pc[t] = "call" /\ frame[t].type = type)
    BY <1>2, <2>2 DEF EventsOfCall, NumberOfCall
  <2> QED BY <2>1, <2>2
<1>4. /\ NumberOfCall(t, type)' \in Nat
      /\ IsFiniteSet(EventsOfCall(t, type)')
      /\ Cardinality(EventsOfCall(t, type)') = NumberOfCall(t, type)'
      /\ \A e \in EventsOfCall(t, type)' : e[1] = t
  <2>1. CASE pc'[t] = "call" /\ frame'[t].type = type
    BY <1>1, <2>1, PairsCounted DEF EventsOfCall, NumberOfCall
  <2>2. CASE ~(pc'[t] = "call" /\ frame'[t].type = type)
    BY <1>2, <2>2 DEF EventsOfCall, NumberOfCall
  <2> QED BY <2>1, <2>2
<1> QED BY <1>3, <1>4

\* When one thread moves, the events in flight change by those of its call.
LEMMA OneThreadMoves ==
  ASSUME frame \in [Threads -> Frames], frame' \in [Threads -> Frames],
         NEW t \in Threads, NEW type \in Types,
         \A u \in Threads \ {t} : pc'[u] = pc[u] /\ frame'[u] = frame[u],
         IsFiniteSet(EventsInFlight(type))
  PROVE  /\ IsFiniteSet(EventsInFlight(type)')
         /\ InFlight(type) \in Nat /\ InFlight(type)' \in Nat
         /\ InFlight(type)' = InFlight(type) - NumberOfCall(t, type) + NumberOfCall(t, type)'
<1> DEFINE all == EventsInFlight(type)
           mine == EventsOfCall(t, type)
           others == all \ mine
<1>1. /\ IsFiniteSet(mine) /\ Cardinality(mine) = NumberOfCall(t, type)
      /\ NumberOfCall(t, type) \in Nat
      /\ \A u \in Threads : \A e \in EventsOfCall(u, type) : e[1] = u
  BY EventsOfCallCounted
<1>2. /\ IsFiniteSet(mine') /\ Cardinality(mine') = NumberOfCall(t, type)'
      /\ NumberOfCall(t, type)' \in Nat
      /\ \A u \in Threads : \A e \in EventsOfCall(u, type)' : e[1] = u
  BY EventsOfCallCounted
<1>3. \A u \in Threads \ {t} : EventsOfCall(u, type)' = EventsOfCall(u, type)
  BY DEF EventsOfCall
<1>4. mine \subseteq all /\ all' = others \cup mine' /\ others \cap mine' = {}
  <2>1. mine \subseteq all
    BY DEF EventsInFlight
  <2>2. others = UNION {EventsOfCall(u, type) : u \in Threads \ {t}}
    BY <1>1 DEF EventsInFlight
  <2>3. all' = UNION {EventsOfCall(u, type)' : u \in Threads}
    BY DEF EventsInFlight, Threads
  <2>4. all' = others \cup mine'
    BY <1>3, <2>2, <2>3
  <2>5. others \cap mine' = {}
    BY <1>1, <1>2, <2>2
  <2> QED BY <2>1, <2>4, <2>5
<1> HIDE DEF all, mine
<1>5. IsFiniteSet(all) /\ Cardinality(all) = InFlight(type) /\ Cardinality(all') = InFlight(type)'
  BY DEF all, InFlight
<1>6. /\ IsFiniteSet(others)
      /\ Cardinality(others) = Cardinality(all) - Cardinality(mine)
  <2>1. /\ IsFiniteSet(all \ mine)
        /\ Cardinality(all \ mine) = Cardinality(all) - Cardinality(all \cap mine)
    BY <1>5, FS_Difference
  <2>2. all \cap mine = mine
    BY <1>4
  <2> QED BY <2>1, <2>2
<1> HIDE DEF others
<1>7. /\ IsFiniteSet(all')
      /\ Cardinality(all') = Cardinality(others) + Cardinality(mine')
  <2>1. /\ IsFiniteSet(others \cup mine')
        /\ Cardinality(others \cup mine')
             = Cardinality(others) + Cardinality(mine') - Cardinality(others \cap mine')
    BY <1>2, <1>6, FS_Union
  <2>2. Cardinality(others \cap mine') = 0
    BY <1>4, FS_EmptySet
  <2>3. Cardinality(others) \in Nat
    BY <1>6, FS_CardinalityType
  <2> QED BY <1>2, <1>4, <2>1, <2>2, <2>3
<1>8. Cardinality(all) \in Nat /\ Cardinality(all') \in Nat
  BY <1>5, <1>7, FS_CardinalityType
<1> QED BY <1>1, <1>2, <1>5, <1>6, <1>7, <1>8 DEF all


\* A thread that makes no call and decides on none leaves the sums as they are.
LEMMA NoCallNoChange ==
  ASSUME ToldInv, IInv', NEW t \in Threads,
         \A u \in Threads \ {t} : pc'[u] = pc[u] /\ frame'[u] = frame[u],
         pc[t] # "call", pc'[t] # "call",
         UNCHANGED <<told, settled, eventReported>>
  PROVE  ToldInv'
<1>1. ASSUME NEW type \in Types
      PROVE  IsFiniteSet(EventsInFlight(type)') /\ InFlight(type)' = InFlight(type)
  <2>1. NumberOfCall(t, type) = 0 /\ NumberOfCall(t, type)' = 0
    BY DEF NumberOfCall
  <2> QED BY <2>1, OneThreadMoves DEF ToldInv, IInv, TypeOK
<1> QED BY <1>1 DEF ToldInv, ReportedIsTold

\* A thread that decides on a call counts its events as reported.
LEMMA CallDecided ==
  ASSUME ToldInv, IInv', NEW t \in Threads, NEW type \in Types, NEW n \in Nat,
         \A u \in Threads \ {t} : pc'[u] = pc[u] /\ frame'[u] = frame[u],
         pc[t] # "call", pc'[t] = "call", frame'[t].type = type, frame'[t].events = n,
         eventReported' = [eventReported EXCEPT ![type] = @ + n],
         UNCHANGED <<told, settled>>
  PROVE  ToldInv'
<1>1. ASSUME NEW x \in Types
      PROVE  /\ IsFiniteSet(EventsInFlight(x)')
             /\ InFlight(x) \in Nat
             /\ InFlight(x)' = InFlight(x) + (IF x = type THEN n ELSE 0)
  <2>1. NumberOfCall(t, x) = 0 /\ NumberOfCall(t, x)' = IF x = type THEN n ELSE 0
    BY DEF NumberOfCall
  <2> QED BY <2>1, OneThreadMoves DEF ToldInv, IInv, TypeOK
<1>2. ASSUME NEW x \in Types
      PROVE  told'[x] + InFlight(x)' = settled'[x] + eventReported'[x]
  <2>1. /\ told[x] \in Nat /\ settled[x] \in Nat /\ eventReported[x] \in Nat
        /\ eventReported'[x] = eventReported[x] + (IF x = type THEN n ELSE 0)
        /\ told[x] + InFlight(x) = settled[x] + eventReported[x]
    BY DEF ToldInv, IInv, TypeOK, ReportedIsTold
  <2> QED BY <1>1, <2>1
<1> QED BY <1>1, <1>2 DEF ToldInv, ReportedIsTold

\* So does a critical section that counts events (count_events_locked).
LEMMA CountTells ==
  ASSUME ToldInv, IInv', NEW t \in Threads, NEW type \in Types, NEW s, NEW added \in Nat,
         pc[t] = "idle", Count(t, type, s, added), UNCHANGED <<told, settled>>
  PROVE  ToldInv'
<1> USE DEF threadVars
<1>1. /\ pc \in [Threads -> {"idle", "compute", "install", "finish", "after_set", "call"}]
      /\ frame \in [Threads -> Frames]
  BY DEF ToldInv, IInv, TypeOK
<1>2. CASE added = 0 \/ callbacks[type] = NoCallback
  <2>1. UNCHANGED <<eventReported, pc, frame>>
    BY <1>2 DEF Count
  <2> QED BY <2>1, NoCallNoChange
<1>3. CASE ~(added = 0 \/ callbacks[type] = NoCallback)
  <2>1. /\ eventReported' = [eventReported EXCEPT ![type] = @ + added]
        /\ pc' = [pc EXCEPT ![t] = "call"]
        /\ frame' = [frame EXCEPT ![t] = CallFrame(type, callbacks[type], added)]
    BY <1>3 DEF Count
  <2>2. /\ frame'[t].type = type /\ frame'[t].events = added /\ pc'[t] = "call"
        /\ \A u \in Threads \ {t} : pc'[u] = pc[u] /\ frame'[u] = frame[u]
    BY <1>1, <2>1 DEF CallFrame
  <2> QED BY <2>1, <2>2, CallDecided
<1> QED BY <1>2, <1>3

\* Every action keeps what callbacks are told equal to what is reported.
LEMMA NextKeepsToldInv == ToldInv /\ IInv' /\ [Next]_vars => ToldInv'
<1> SUFFICES ASSUME ToldInv, IInv', [Next]_vars PROVE ToldInv'
  OBVIOUS
<1> USE DEF zzddsVars, countVars, threadVars, history
<1>a. /\ pc \in [Threads -> {"idle", "compute", "install", "finish", "after_set", "call"}]
      /\ frame \in [Threads -> Frames]
      /\ AppThreads \subseteq Threads /\ Dispatchers \subseteq Threads
  BY DEF ToldInv, IInv, TypeOK, Threads
<1>b. ASSUME UNCHANGED <<pc, frame>>
      PROVE  \A type \in Types : InFlight(type)' = InFlight(type)
                                 /\ EventsInFlight(type)' = EventsInFlight(type)
  BY <1>b DEF InFlight, EventsInFlight, EventsOfCall
<1>c. ASSUME UNCHANGED <<pc, frame, told, settled, eventReported>>
      PROVE  ToldInv'
  BY <1>b, <1>c DEF ToldInv, ReportedIsTold
<1>1. ASSUME NEW type \in Types, Occur(type) \/ Unmatch(type)
      PROVE  ToldInv'
  BY <1>c, <1>1 DEF Occur, Unmatch, Change
<1>2. ASSUME NEW d \in Dispatchers, NEW type \in Types, Listener(d, type)
      PROVE  ToldInv'
  <2>1. PICK ok \in BOOLEAN : Count(d, type, ReadStatus(type, ok),
                                    UncountedEvents(type, ReadStatus(type, ok)))
    BY <1>2, EventConstants DEF Listener
  <2>2. UncountedEvents(type, ReadStatus(type, ok)) \in Nat
    BY UncountedIsRoom DEF ToldInv
  <2>3. d \in Threads /\ pc[d] = "idle" /\ UNCHANGED <<told, settled>>
    BY <1>a, <1>2 DEF Listener
  <2> QED BY <2>1, <2>2, <2>3, CountTells
<1>3. ASSUME NEW t \in AppThreads, NEW type \in Types, CountMatched(t, type)
      PROVE  ToldInv'
  <2> DEFINE uncounted == UncountedEvents(type, ReadStatus(type, TRUE))
             added == IF guards[type] = "null" THEN 0 ELSE uncounted
  <2>1. Count(t, type, ReadStatus(type, TRUE), added)
    BY <1>3 DEF CountMatched
  <2>2. uncounted \in Nat
    BY UncountedIsRoom DEF ToldInv
  <2>3. added \in Nat
    BY <2>2
  <2>4. t \in Threads /\ pc[t] = "idle" /\ UNCHANGED <<told, settled>>
    BY <1>a, <1>3 DEF CountMatched
  <2> HIDE DEF added, uncounted
  <2> QED BY <2>1, <2>3, <2>4, CountTells
<1>4. ASSUME NEW t \in Threads, InvokeCallback(t)
      PROVE  ToldInv'
  <2> DEFINE type == frame[t].type
             n == frame[t].events
  <2>1. /\ type \in Types /\ n \in Nat /\ pc[t] = "call" /\ pc'[t] = "idle"
        /\ \A u \in Threads \ {t} : pc'[u] = pc[u] /\ frame'[u] = frame[u]
        /\ told' = [told EXCEPT ![type] = @ + n]
        /\ UNCHANGED <<settled, eventReported>>
    BY <1>a, <1>4 DEF InvokeCallback, Return, Frames
  <2>2. ASSUME NEW x \in Types
        PROVE  NumberOfCall(t, x) = (IF x = type THEN n ELSE 0) /\ NumberOfCall(t, x)' = 0
    BY <2>1 DEF NumberOfCall
  <2> HIDE DEF type, n
  <2>3. ASSUME NEW x \in Types
        PROVE  /\ IsFiniteSet(EventsInFlight(x)')
               /\ InFlight(x) \in Nat /\ InFlight(x)' \in Nat
               /\ InFlight(x)' = InFlight(x) - (IF x = type THEN n ELSE 0)
    <3>1. /\ IsFiniteSet(EventsInFlight(x)')
          /\ InFlight(x) \in Nat /\ InFlight(x)' \in Nat
          /\ InFlight(x)' = InFlight(x) - NumberOfCall(t, x) + NumberOfCall(t, x)'
      BY <2>1, OneThreadMoves DEF ToldInv, IInv, TypeOK
    <3> QED BY <2>1, <2>2, <3>1
  <2>4. ASSUME NEW x \in Types
        PROVE  told'[x] + InFlight(x)' = settled'[x] + eventReported'[x]
    <3>1. /\ told[x] \in Nat /\ settled[x] \in Nat /\ eventReported[x] \in Nat
          /\ told[x] + InFlight(x) = settled[x] + eventReported[x]
          /\ told'[x] = told[x] + (IF x = type THEN n ELSE 0)
      BY <2>1 DEF ToldInv, IInv, TypeOK, ReportedIsTold
    <3> QED BY <2>1, <2>3, <3>1
  <2> QED BY <2>3, <2>4 DEF ToldInv, ReportedIsTold
<1>5. ASSUME NEW t \in AppThreads, NEW type \in Types,
             \/ InitCreateGuard(t, type)
             \/ \E callback \in Callbacks \cup {NoCallback} : SetCallback(t, type, callback)
      PROVE  ToldInv'
  <2>1. /\ pc[t] # "call" /\ pc'[t] # "call" /\ t \in Threads
        /\ \A u \in Threads \ {t} : pc'[u] = pc[u] /\ frame'[u] = frame[u]
        /\ UNCHANGED <<told, settled, eventReported>>
    BY <1>a, <1>5 DEF InitCreateGuard, SetCallback, MayUse
  <2> QED BY <2>1, NoCallNoChange
<1>6. ASSUME NEW t \in AppThreads, InitComputeMask(t) \/ InitInstall(t) \/ InitFinish(t)
      PROVE  ToldInv'
  <2>1. /\ pc[t] # "call" /\ pc'[t] # "call" /\ t \in Threads
        /\ \A u \in Threads \ {t} : pc'[u] = pc[u] /\ frame'[u] = frame[u]
        /\ UNCHANGED <<told, settled, eventReported>>
    <3>1. CASE InitComputeMask(t)
      BY <1>a, <3>1 DEF InitComputeMask
    <3>2. CASE InitInstall(t)
      BY <1>a, <3>2 DEF InitInstall, Return
    <3>3. CASE InitFinish(t)
      BY <1>a, <3>3 DEF InitFinish, Return
    <3> QED BY <1>6, <3>1, <3>2, <3>3
  <2> QED BY <2>1, NoCallNoChange
<1>7. ASSUME NEW t \in AppThreads, NEW type \in Types, TakeEvent(t, type)
      PROVE  ToldInv'
  <2>1. /\ settled' = [settled EXCEPT ![type] = @ + eventReported[type]]
        /\ eventReported' = [eventReported EXCEPT ![type] = 0]
        /\ UNCHANGED <<pc, frame, told>>
    BY <1>7 DEF TakeEvent, ForgetEvents
  <2>2. ASSUME NEW x \in Types
        PROVE  settled'[x] + eventReported'[x] = settled[x] + eventReported[x]
    BY <2>1 DEF ToldInv, IInv, TypeOK
  <2> QED BY <1>b, <2>1, <2>2 DEF ToldInv, ReportedIsTold
<1>8. ASSUME NEW t \in AppThreads, AfterSetCallback(t)
      PROVE  ToldInv'
  <2> DEFINE type == frame[t].type
             callback == callbacks[type]
             unreported == IF callback = NoCallback THEN 0 ELSE Unreported(type)
  <2>1. t \in Threads /\ type \in Types /\ pc[t] = "after_set"
    BY <1>a, <1>8 DEF AfterSetCallback, Frames
  <2>2. /\ eventReported \in [Types -> Nat]
        /\ unreported \in Nat
        /\ eventReported[type] + unreported = ReportedAfter(type, callback)
    BY <2>1 DEF Unreported, ReportedAfter, ToldInv, IInv, TypeOK, CountersOrdered
  <2>3. /\ eventReported' = [eventReported EXCEPT ![type] = ReportedAfter(type, callback)]
        /\ IF unreported = 0
           THEN Return(t)
           ELSE /\ pc' = [pc EXCEPT ![t] = "call"]
                /\ frame' = [frame EXCEPT ![t] = CallFrame(type, callback, unreported)]
        /\ UNCHANGED <<told, settled>>
    BY <1>8 DEF AfterSetCallback
  <2> HIDE DEF type, callback, unreported
  <2>4. CASE unreported = 0
    <3>1. /\ pc'[t] = "idle"
          /\ \A u \in Threads \ {t} : pc'[u] = pc[u] /\ frame'[u] = frame[u]
      BY <1>a, <2>1, <2>3, <2>4 DEF Return
    <3>2. eventReported' = eventReported
      BY <2>1, <2>2, <2>3, <2>4
    <3> QED BY <2>1, <2>3, <3>1, <3>2, NoCallNoChange
  <2>5. CASE unreported # 0
    <3>1. /\ pc'[t] = "call" /\ frame'[t].type = type /\ frame'[t].events = unreported
          /\ \A u \in Threads \ {t} : pc'[u] = pc[u] /\ frame'[u] = frame[u]
      BY <1>a, <2>1, <2>3, <2>5 DEF CallFrame
    <3>2. eventReported' = [eventReported EXCEPT ![type] = @ + unreported]
      BY <2>1, <2>2, <2>3
    <3>3. pc[t] # "call" /\ unreported \in Nat /\ UNCHANGED <<told, settled>>
      BY <2>1, <2>2, <2>3
    <3> QED BY <2>1, <3>1, <3>2, <3>3, CallDecided, Zenon
  <2> QED BY <2>4, <2>5
<1>9. CASE UNCHANGED vars
  BY <1>c, <1>9 DEF vars
<1> QED BY <1>1, <1>2, <1>3, <1>4, <1>5, <1>6, <1>7, <1>8, <1>9 DEF Next, AppStep

\* What callbacks are told (rmw_event.cpp 303-336 and 432-450), for any number of
\* threads and events and whatever reads and installations fail: over all takes,
\* the events counted as reported are those of the calls made and decided.
THEOREM CallbacksAreToldOnce == Spec => []ReportedIsTold
<1>1. Init => ToldInv
  <2> SUFFICES ASSUME Init PROVE ToldInv
    OBVIOUS
  <2>1. ASSUME NEW type \in Types
        PROVE  InFlight(type) = 0 /\ IsFiniteSet(EventsInFlight(type))
    <3>1. \A t \in Threads : EventsOfCall(t, type) = {}
      BY DEF Init, EventsOfCall
    <3>2. EventsInFlight(type) = {}
      BY <3>1 DEF EventsInFlight
    <3> QED BY <3>2, FS_EmptySet DEF InFlight
  <2> QED BY <2>1, InitIInv DEF Init, ToldInv, ReportedIsTold
<1>2. ToldInv => ReportedIsTold
  BY DEF ToldInv
<1> QED BY <1>1, <1>2, NextKeepsIInv, NextKeepsToldInv, EventAccountingInvariant, PTL DEF Spec

=============================================================================
