------------------------ MODULE LivelinessEvents_proof ------------------------
(***************************************************************************)
(* Proofs about LivelinessEvents, for any number of threads, writers and   *)
(* changes, with reads in listeners and installations that may fail, and   *)
(* however often the event is initialized; the last part is about events   *)
(* in excess of the changes.                                               *)
(***************************************************************************)
EXTENDS LivelinessEvents, FiniteSetTheorems, TLAPS

\* Every variable has its type.
TypeOK ==
  /\ zz \in Status
  /\ installed \in BOOLEAN
  /\ owed \in Nat
  /\ stored \in [alive : Int, notAlive : Int, aliveChange : Int, notAliveChange : Int]
  /\ guard \in {"null", "off", "on"}
  /\ callback \in BOOLEAN
  /\ eventCount \in Nat
  /\ eventReported \in Nat
  /\ ready \in BOOLEAN
  /\ pc \in [Threads -> {"idle", "listen", "call", "install", "finish", "after_set"}]
  /\ passed \in [Dispatchers -> Status]
  /\ events \in [Threads -> Nat]
  /\ atTake \in Status
  /\ seen \in BOOLEAN

\* The event is triggered exactly while events are counted.
GuardMirrorsCount == guard = "on" <=> eventCount # 0

\* The listener is there before an initialization counts what it cannot see.
InstalledFirst == ready \/ (\E t \in Threads : pc[t] = "finish") => installed

Listening(d) == pc[d] = "listen"

\* A lasting change has been counted, or its listener is owed, or is under way
\* with the status that zzdds still has.
LastingChange ==
  ready /\ zz # atTake =>
    eventCount > 0 \/ owed > 0 \/ \E d \in Dispatchers : Listening(d) /\ passed[d] = zz

\* What a listener was called with since the last take and that differs from it
\* has been counted, or will be by a listener under way.
SeenChange ==
  seen => eventCount > 0 \/ \E d \in Dispatchers : Listening(d) /\ passed[d] # atTake

\* The inductive invariant.
IInv ==
  /\ TypeOK
  /\ BaseIsLastTake
  /\ ReportedIsCounted
  /\ GuardMirrorsCount
  /\ InstalledFirst
  /\ LastingChange
  /\ SeenChange

-----------------------------------------------------------------------------

\* A read moves the counts and the untaken changes together, so the difference
\* of the two stays the status at the last take (rmw_event.cpp 402).
LEMMA ReadKeepsBase ==
  ASSUME TypeOK, BaseIsLastTake, NEW ok \in BOOLEAN
  PROVE  /\ ReadStatus(ok) \in [alive : Int, notAlive : Int,
                                aliveChange : Int, notAliveChange : Int]
         /\ Base(ReadStatus(ok)) = atTake
BY DEF TypeOK, BaseIsLastTake, Base, ReadStatus, AddChanges, Status

\* The estimate of untaken_events is zero only when nothing is untaken.
LEMMA EstimateMissesNothing ==
  ASSUME TypeOK, BaseIsLastTake
  PROVE  /\ \A ok \in BOOLEAN : UntakenEvents(ReadStatus(ok)) \in Nat
         /\ UntakenEvents(ReadStatus(TRUE)) = 0 => zz = atTake
<1>1. \A n \in Int : Size(n) \in Nat /\ (Size(n) = 0 => n = 0)
  BY DEF Size
<1>2. ASSUME NEW ok \in BOOLEAN
      PROVE  UntakenEvents(ReadStatus(ok)) \in Nat
  BY <1>1, ReadKeepsBase DEF UntakenEvents
<1>3. ASSUME UntakenEvents(ReadStatus(TRUE)) = 0
      PROVE  zz = atTake
  <2> DEFINE s == ReadStatus(TRUE)
  <2>1. /\ s \in [alive : Int, notAlive : Int, aliveChange : Int, notAliveChange : Int]
        /\ Base(s) = atTake
    BY ReadKeepsBase
  <2>2. /\ s.alive = zz.alive /\ s.notAlive = zz.notAlive
        /\ zz \in Status /\ atTake \in Status
    BY DEF ReadStatus, AddChanges, TypeOK
  <2> HIDE DEF s
  <2>3. UntakenEvents(s) = 0
    BY <1>3 DEF s
  <2>4. Size(s.aliveChange) \in Nat /\ Size(s.notAliveChange) \in Nat
    BY <1>1, <2>1
  <2>5. Size(s.aliveChange) = 0 /\ Size(s.notAliveChange) = 0
    BY <2>3, <2>4 DEF UntakenEvents
  <2>6. s.aliveChange = 0 /\ s.notAliveChange = 0
    BY <1>1, <2>1, <2>5
  <2>7. atTake.alive = zz.alive /\ atTake.notAlive = zz.notAlive
    BY <2>1, <2>2, <2>6 DEF Base
  <2> QED BY <2>2, <2>7 DEF Status
<1> QED BY <1>2, <1>3

\* The initial states satisfy the invariant.
LEMMA InitInvariant == Init => IInv
<1> SUFFICES ASSUME Init PROVE IInv
  OBVIOUS
<1>1. TypeOK
  <2>1. NoStatus \in Status
    BY DEF NoStatus, Status
  <2>2. stored \in [alive : Int, notAlive : Int, aliveChange : Int, notAliveChange : Int]
    BY DEF Init
  <2>3. /\ pc \in [Threads -> {"idle", "listen", "call", "install", "finish", "after_set"}]
        /\ passed \in [Dispatchers -> Status]
        /\ events \in [Threads -> Nat]
    BY <2>1 DEF Init
  <2> QED BY <2>1, <2>2, <2>3 DEF Init, TypeOK
<1>2. BaseIsLastTake
  BY DEF Init, BaseIsLastTake, Base, NoStatus
<1>3. InstalledFirst
  BY DEF Init, InstalledFirst
<1>4. ReportedIsCounted /\ GuardMirrorsCount /\ LastingChange /\ SeenChange
  BY DEF Init, ReportedIsCounted, GuardMirrorsCount, LastingChange, SeenChange
<1> QED BY <1>1, <1>2, <1>3, <1>4 DEF IInv

\* A status change owes a listener call once the event is ready.
LEMMA ChangeKeepsInvariant ==
  ASSUME IInv, NEW now \in Status, Change(now)
  PROVE  IInv'
<1> USE DEF Change, countVars, localVars
<1>1. TypeOK'
  BY DEF IInv, TypeOK
<1>2. BaseIsLastTake' /\ ReportedIsCounted' /\ GuardMirrorsCount' /\ InstalledFirst'
  BY DEF IInv, BaseIsLastTake, ReportedIsCounted, GuardMirrorsCount, InstalledFirst
<1>3. LastingChange'
  BY DEF IInv, TypeOK, InstalledFirst, LastingChange
<1>4. SeenChange'
  BY DEF IInv, SeenChange, Listening
<1> QED BY <1>1, <1>2, <1>3, <1>4 DEF IInv

\* A listener call takes the status with it.
LEMMA CallKeepsInvariant ==
  ASSUME IInv, NEW d \in Dispatchers, CallListener(d)
  PROVE  IInv'
<1> USE DEF CallListener, countVars, Go
<1>0. d \in Threads
  BY DEF Threads
<1>1. TypeOK'
  BY <1>0 DEF IInv, TypeOK
<1>2. BaseIsLastTake' /\ ReportedIsCounted' /\ GuardMirrorsCount'
  BY DEF IInv, BaseIsLastTake, ReportedIsCounted, GuardMirrorsCount
<1>3. InstalledFirst'
  BY <1>0 DEF IInv, TypeOK, InstalledFirst
<1>4. pc'[d] = "listen" /\ passed'[d] = zz
  BY <1>0 DEF IInv, TypeOK
<1>5. \A e \in Dispatchers : Listening(e) => pc'[e] = "listen" /\ passed'[e] = passed[e]
  BY <1>0 DEF IInv, TypeOK, Listening, Threads
<1>6. LastingChange'
  BY <1>4 DEF LastingChange, Listening
<1>7. SeenChange'
  BY <1>4, <1>5 DEF IInv, SeenChange, Listening
<1> QED BY <1>1, <1>2, <1>3, <1>6, <1>7 DEF IInv

\* A listener under way counts, or it was called with the status at the last
\* take, and then there is nothing it has to count for.
LEMMA ListenerKeepsInvariant ==
  ASSUME IInv, NEW d \in Dispatchers, Listener(d)
  PROVE  IInv'
<1> USE DEF Listener, Go, zzddsVars, history
<1>0. d \in Threads
  BY DEF Threads
<1>a. /\ UNCHANGED <<zz, installed, owed, callback, ready, atTake, seen, since, overtaken>>
      /\ passed' = [passed EXCEPT ![d] = NoStatus]
      /\ NoStatus \in Status
  BY DEF NoStatus, Status
<1>b. /\ stored' \in [alive : Int, notAlive : Int, aliveChange : Int, notAliveChange : Int]
      /\ Base(stored') = atTake
  BY ReadKeepsBase DEF IInv, Outcomes
<1>c. \/ /\ passed[d] = atTake
         /\ pc' = [pc EXCEPT ![d] = "idle"]
         /\ UNCHANGED <<guard, eventCount, eventReported, events>>
      \/ /\ eventCount' = eventCount + 1
         /\ guard' = "on"
         /\ \/ /\ eventReported' = eventReported + 1
               /\ events' = [events EXCEPT ![d] = 1]
               /\ pc' = [pc EXCEPT ![d] = "call"]
            \/ /\ pc' = [pc EXCEPT ![d] = "idle"]
               /\ UNCHANGED <<eventReported, events>>
  BY <1>b DEF countVars
<1>1. TypeOK'
  BY <1>0, <1>a, <1>b, <1>c DEF IInv, TypeOK
<1>2. BaseIsLastTake'
  BY <1>a, <1>b DEF BaseIsLastTake
<1>3. ReportedIsCounted' /\ GuardMirrorsCount'
  BY <1>c DEF IInv, TypeOK, ReportedIsCounted, GuardMirrorsCount
<1>4. InstalledFirst'
  BY <1>0, <1>a, <1>c DEF IInv, TypeOK, InstalledFirst
<1>5. \A e \in Dispatchers : Listening(e) /\ e # d =>
        pc'[e] = "listen" /\ passed'[e] = passed[e]
  BY <1>0, <1>a, <1>c DEF IInv, TypeOK, Listening, Threads
<1> HIDE DEF Listener
<1>d. eventCount \in Nat
  BY DEF IInv, TypeOK
<1>6. eventCount' > 0 \/ (eventCount' = eventCount /\ passed[d] = atTake)
  BY <1>c, <1>d
<1>7. LastingChange'
  BY <1>5, <1>6, <1>a DEF IInv, LastingChange, Listening
<1>8. SeenChange'
  BY <1>5, <1>6, <1>a DEF IInv, SeenChange, Listening
<1> QED BY <1>1, <1>2, <1>3, <1>4, <1>7, <1>8 DEF IInv

\* The steps of a thread that is not a listener touch no listener under way.
LEMMA OthersKeepListening ==
  ASSUME TypeOK, NEW t \in Threads, NEW where \in {"idle", "call", "install", "finish", "after_set"},
         pc[t] # "listen", pc' = [pc EXCEPT ![t] = where]
  PROVE  /\ pc' \in [Threads -> {"idle", "listen", "call", "install", "finish", "after_set"}]
         /\ \A d \in Dispatchers : (pc'[d] = "listen") <=> Listening(d)
         /\ \A u \in Threads : pc'[u] = "finish" => pc[u] = "finish" \/ where = "finish"
BY DEF TypeOK, Listening, Threads

\* An initialization installs the listener and then counts what was before.
LEMMA InitKeepsInvariant ==
  ASSUME IInv, "init" \notin Failing, NEW t \in AppThreads,
         InitCreateGuard(t) \/ InitInstall(t) \/ InitFinish(t)
  PROVE  IInv'
<1>0. t \in Threads
  BY DEF Threads
<1>1. CASE InitCreateGuard(t)
  <2> USE <1>1 DEF InitCreateGuard, Go, zzddsVars, history
  <2>1. /\ pc' \in [Threads -> {"idle", "listen", "call", "install", "finish", "after_set"}]
        /\ \A d \in Dispatchers : (pc'[d] = "listen") <=> Listening(d)
        /\ \A u \in Threads : pc'[u] = "finish" => pc[u] = "finish"
    BY <1>0, OthersKeepListening DEF IInv
  <2>2. TypeOK'
    BY <2>1 DEF IInv, TypeOK
  <2>3. BaseIsLastTake' /\ ReportedIsCounted' /\ GuardMirrorsCount'
    BY DEF IInv, BaseIsLastTake, ReportedIsCounted, GuardMirrorsCount
  <2>4. InstalledFirst'
    BY <2>1 DEF IInv, InstalledFirst
  <2>5. LastingChange' /\ SeenChange'
    BY <2>1 DEF IInv, LastingChange, SeenChange, Listening
  <2> QED BY <2>2, <2>3, <2>4, <2>5 DEF IInv
<1>2. CASE InitInstall(t)
  <2> USE <1>2 DEF InitInstall, Go, countVars, history
  <2>1. PICK ok \in BOOLEAN : /\ installed' = (installed \/ ok)
                              /\ pc' = [pc EXCEPT ![t] = IF ok THEN "finish" ELSE "idle"]
    BY DEF Outcomes
  <2>2. /\ pc' \in [Threads -> {"idle", "listen", "call", "install", "finish", "after_set"}]
        /\ \A d \in Dispatchers : (pc'[d] = "listen") <=> Listening(d)
        /\ \A u \in Threads : pc'[u] = "finish" => pc[u] = "finish" \/ ok
    BY <1>0, <2>1, OthersKeepListening DEF IInv
  <2>3. TypeOK'
    BY <2>1, <2>2 DEF IInv, TypeOK
  <2>4. BaseIsLastTake' /\ ReportedIsCounted' /\ GuardMirrorsCount'
    BY DEF IInv, BaseIsLastTake, ReportedIsCounted, GuardMirrorsCount
  <2>5. InstalledFirst'
    BY <2>1, <2>2 DEF IInv, InstalledFirst
  <2>6. LastingChange' /\ SeenChange'
    BY <2>2 DEF IInv, LastingChange, SeenChange, Listening
  <2> QED BY <2>3, <2>4, <2>5, <2>6 DEF IInv
<1>3. CASE InitFinish(t)
  <2> USE <1>3 DEF InitFinish, Go, zzddsVars
  <2>1. /\ stored' = ReadStatus(TRUE)
        /\ eventCount' = InitialCount(ReadStatus(TRUE))
    BY DEF Outcomes
  <2>2. /\ ReadStatus(TRUE) \in [alive : Int, notAlive : Int,
                                 aliveChange : Int, notAliveChange : Int]
        /\ Base(ReadStatus(TRUE)) = atTake
        /\ UntakenEvents(ReadStatus(TRUE)) \in Nat
        /\ UntakenEvents(ReadStatus(TRUE)) = 0 => zz = atTake
    BY ReadKeepsBase, EstimateMissesNothing DEF IInv
  <2>3. /\ eventCount' \in Nat /\ eventCount' >= eventCount
        /\ eventCount' = 0 => zz = atTake
    <3> HIDE <1>3 DEF InitFinish
    <3>1. eventCount \in Nat
      BY DEF IInv, TypeOK
    <3> DEFINE n == UntakenEvents(ReadStatus(TRUE))
    <3>2. eventCount' = IF eventCount = 0 THEN n ELSE eventCount
      BY <2>1 DEF InitialCount
    <3>3. n \in Nat
      BY <2>2
    <3> HIDE DEF n
    <3>4. eventCount' \in Nat /\ eventCount' >= eventCount
      BY <3>1, <3>2, <3>3
    <3>5. eventCount' = 0 => n = 0
      BY <3>1, <3>2
    <3> QED BY <2>2, <3>4, <3>5 DEF n
  <2>4. /\ pc' \in [Threads -> {"idle", "listen", "call", "install", "finish", "after_set"}]
        /\ \A d \in Dispatchers : (pc'[d] = "listen") <=> Listening(d)
        /\ \A u \in Threads : pc'[u] = "finish" => pc[u] = "finish"
    BY <1>0, OthersKeepListening DEF IInv
  <2>5. TypeOK'
    BY <2>1, <2>2, <2>3, <2>4 DEF IInv, TypeOK
  <2>6. BaseIsLastTake'
    BY <2>1, <2>2 DEF BaseIsLastTake
  <2>7. ReportedIsCounted' /\ GuardMirrorsCount'
    BY <2>3 DEF IInv, TypeOK, ReportedIsCounted, GuardMirrorsCount
  <2>8. InstalledFirst'
    BY <1>0 DEF IInv, InstalledFirst
  <2>9. LastingChange' /\ SeenChange'
    BY <2>3, <2>4 DEF IInv, TypeOK, LastingChange, SeenChange, Listening
  <2> QED BY <2>5, <2>6, <2>7, <2>8, <2>9 DEF IInv
<1> QED BY <1>1, <1>2, <1>3

\* A take makes the status of zzdds the one at the last take; a callback that
\* is registered is told of no more than was counted.
LEMMA UseKeepsInvariant ==
  ASSUME IInv, NEW t \in Threads,
         \/ TakeEvent(t)
         \/ \E registered \in BOOLEAN : SetCallback(t, registered)
         \/ AfterSetCallback(t)
         \/ InvokeCallback(t)
  PROVE  IInv'
<1>1. CASE TakeEvent(t)
  <2> USE <1>1 DEF TakeEvent, zzddsVars, localVars
  <2>1. /\ stored' \in [alive : Int, notAlive : Int, aliveChange : Int, notAliveChange : Int]
        /\ Base(stored') = zz
    <3> DEFINE s == ReadStatus(TRUE)
    <3>1. /\ s \in [alive : Int, notAlive : Int, aliveChange : Int, notAliveChange : Int]
          /\ s.alive = zz.alive /\ s.notAlive = zz.notAlive
          /\ zz \in Status
      BY ReadKeepsBase DEF IInv, TypeOK, ReadStatus, AddChanges
    <3>2. stored' = [s EXCEPT !.aliveChange = 0, !.notAliveChange = 0]
      OBVIOUS
    <3> HIDE <1>1 DEF TakeEvent, s
    <3>3. stored' = [alive |-> s.alive, notAlive |-> s.notAlive,
                     aliveChange |-> 0, notAliveChange |-> 0]
      BY <3>1, <3>2
    <3>4. zz.alive \in Int /\ zz.notAlive \in Int
          /\ zz = [alive |-> zz.alive, notAlive |-> zz.notAlive]
      BY <3>1 DEF Status
    <3>5. Base(stored') = [alive |-> zz.alive, notAlive |-> zz.notAlive]
      BY <3>1, <3>3, <3>4 DEF Base
    <3>6. stored' \in [alive : Int, notAlive : Int, aliveChange : Int, notAliveChange : Int]
      BY <3>1, <3>3, <3>4
    <3> QED BY <3>4, <3>5, <3>6
  <2>2. TypeOK'
    BY <2>1 DEF IInv, TypeOK
  <2>3. BaseIsLastTake' /\ ReportedIsCounted' /\ GuardMirrorsCount' /\ InstalledFirst'
    BY <2>1 DEF IInv, BaseIsLastTake, ReportedIsCounted, GuardMirrorsCount, InstalledFirst
  <2>4. LastingChange' /\ SeenChange'
    BY DEF LastingChange, SeenChange
  <2> QED BY <2>2, <2>3, <2>4 DEF IInv
<1>2. CASE \E registered \in BOOLEAN : SetCallback(t, registered)
  <2> USE <1>2 DEF SetCallback, MayUse, Go, zzddsVars, countVars, history
  <2>1. /\ pc' \in [Threads -> {"idle", "listen", "call", "install", "finish", "after_set"}]
        /\ \A d \in Dispatchers : (pc'[d] = "listen") <=> Listening(d)
        /\ \A u \in Threads : pc'[u] = "finish" => pc[u] = "finish"
    BY OthersKeepListening DEF IInv
  <2>2. TypeOK'
    BY <2>1 DEF IInv, TypeOK
  <2>3. BaseIsLastTake' /\ ReportedIsCounted' /\ GuardMirrorsCount' /\ InstalledFirst'
    BY <2>1 DEF IInv, BaseIsLastTake, ReportedIsCounted, GuardMirrorsCount, InstalledFirst
  <2>4. LastingChange' /\ SeenChange'
    BY <2>1 DEF IInv, LastingChange, SeenChange, Listening
  <2> QED BY <2>2, <2>3, <2>4 DEF IInv
<1>3. CASE AfterSetCallback(t)
  <2> USE <1>3 DEF AfterSetCallback, Go, zzddsVars, history
  <2>0. /\ eventReported' \in Nat /\ eventReported' <= eventCount
        /\ events' \in [Threads -> Nat]
        /\ UNCHANGED <<zz, installed, owed, stored, guard, eventCount, callback, ready,
                       passed, atTake, seen>>
        /\ \E where \in {"idle", "call"} : pc' = [pc EXCEPT ![t] = where]
        /\ pc[t] # "listen"
    <3>1. /\ eventCount \in Nat /\ eventReported \in Nat /\ eventReported <= eventCount
          /\ events \in [Threads -> Nat]
      BY DEF IInv, TypeOK, ReportedIsCounted
    <3>2. eventCount - eventReported \in Nat
      BY <3>1
    <3>3. eventReported' \in Nat /\ eventReported' <= eventCount
      BY <3>1 DEF ReportedAfter
    <3>4. events' \in [Threads -> Nat]
      BY <3>1, <3>2
    <3> QED BY <3>3, <3>4
  <2>1. /\ pc' \in [Threads -> {"idle", "listen", "call", "install", "finish", "after_set"}]
        /\ \A d \in Dispatchers : (pc'[d] = "listen") <=> Listening(d)
        /\ \A u \in Threads : pc'[u] = "finish" => pc[u] = "finish"
    BY <2>0, OthersKeepListening DEF IInv
  <2>2. TypeOK'
    BY <2>0, <2>1 DEF IInv, TypeOK
  <2>3. BaseIsLastTake' /\ ReportedIsCounted' /\ GuardMirrorsCount' /\ InstalledFirst'
    BY <2>0, <2>1 DEF IInv, BaseIsLastTake, ReportedIsCounted, GuardMirrorsCount, InstalledFirst
  <2>4. LastingChange' /\ SeenChange'
    BY <2>0, <2>1 DEF IInv, LastingChange, SeenChange, Listening
  <2> QED BY <2>2, <2>3, <2>4 DEF IInv
<1>4. CASE InvokeCallback(t)
  <2> USE <1>4 DEF InvokeCallback, Go, zzddsVars, countVars, history
  <2>1. /\ pc' \in [Threads -> {"idle", "listen", "call", "install", "finish", "after_set"}]
        /\ \A d \in Dispatchers : (pc'[d] = "listen") <=> Listening(d)
        /\ \A u \in Threads : pc'[u] = "finish" => pc[u] = "finish"
    BY OthersKeepListening DEF IInv
  <2>2. TypeOK'
    BY <2>1 DEF IInv, TypeOK
  <2>3. BaseIsLastTake' /\ ReportedIsCounted' /\ GuardMirrorsCount' /\ InstalledFirst'
    BY <2>1 DEF IInv, BaseIsLastTake, ReportedIsCounted, GuardMirrorsCount, InstalledFirst
  <2>4. LastingChange' /\ SeenChange'
    BY <2>1 DEF IInv, LastingChange, SeenChange, Listening
  <2> QED BY <2>2, <2>3, <2>4 DEF IInv
<1> QED BY <1>1, <1>2, <1>3, <1>4

\* Every step keeps the invariant.
LEMMA NextKeepsInvariant ==
  ASSUME "init" \notin Failing
  PROVE  IInv /\ [Next]_vars => IInv'
<1> SUFFICES ASSUME IInv, [Next]_vars PROVE IInv'
  OBVIOUS
<1>1. CASE ZzddsChanges
  <2>1. PICK now \in Status : Change(now)
    BY <1>1 DEF ZzddsChanges, WriterMatched, WriterLost, WriterRecovers, WriterLeaves,
       IInv, TypeOK, Status
  <2> QED BY <2>1, ChangeKeepsInvariant
<1>2. ASSUME NEW d \in Dispatchers, CallListener(d) \/ Listener(d)
      PROVE  IInv'
  BY <1>2, CallKeepsInvariant, ListenerKeepsInvariant
<1>3. ASSUME NEW t \in AppThreads,
             InitCreateGuard(t) \/ InitInstall(t) \/ InitFinish(t)
      PROVE  IInv'
  BY <1>3, InitKeepsInvariant
<1>4. ASSUME NEW t \in Threads,
             \/ TakeEvent(t)
             \/ \E registered \in BOOLEAN : SetCallback(t, registered)
             \/ AfterSetCallback(t)
             \/ InvokeCallback(t)
      PROVE  IInv'
  BY <1>4, UseKeepsInvariant
<1>5. CASE UNCHANGED vars
  BY <1>5 DEF vars, IInv, TypeOK, BaseIsLastTake, ReportedIsCounted, GuardMirrorsCount,
     InstalledFirst, LastingChange, SeenChange, Listening
<1> QED BY <1>1, <1>2, <1>3, <1>4, <1>5 DEF Next, AppStep, Threads

-----------------------------------------------------------------------------

\* The inductive invariant holds in every reachable state.
THEOREM LivelinessInvariant == "init" \notin Failing => (Spec => []IInv)
<1> SUFFICES ASSUME "init" \notin Failing PROVE Spec => []IInv
  OBVIOUS
<1> QED BY InitInvariant, NextKeepsInvariant, PTL DEF Spec

\* Once no listener is under way, every lasting change, and every cancelled one
\* a listener was called with, has triggered the event, however often the
\* listener's reads and installations fail.
THEOREM EveryChangeIsSignalled == "init" \notin Failing => (Spec => []ChangesAreSignalled)
<1> SUFFICES ASSUME "init" \notin Failing PROVE Spec => []ChangesAreSignalled
  OBVIOUS
<1>1. IInv => ChangesAreSignalled
  <2> SUFFICES ASSUME IInv, ready, Underway = 0, zz # atTake \/ seen
               PROVE  guard = "on" /\ eventCount > 0
    BY DEF ChangesAreSignalled
  <2> DEFINE D == {d \in Dispatchers : pc[d] = "listen"}
  <2>1. IsFiniteSet(D)
    BY LivelinessConstants, FS_Subset
  <2>2. Cardinality(D) \in Nat /\ (Cardinality(D) = 0 <=> D = {})
    BY <2>1, FS_CardinalityType, FS_EmptySet
  <2>3. owed = 0 /\ D = {}
    BY <2>2 DEF Underway, IInv, TypeOK
  <2>4. eventCount > 0
    BY <2>3 DEF IInv, LastingChange, SeenChange, Listening
  <2> QED BY <2>4 DEF IInv, TypeOK, GuardMirrorsCount
<1> QED BY <1>1, LivelinessInvariant, PTL

\* However often it has been read since, the stored status holds the status at
\* the last take as its counts minus its untaken changes, and no callback has
\* been told of more events than were counted.
THEOREM StoredHoldsLastTake == "init" \notin Failing => (Spec => [](BaseIsLastTake /\ ReportedIsCounted))
<1> SUFFICES ASSUME "init" \notin Failing PROVE Spec => [](BaseIsLastTake /\ ReportedIsCounted)
  OBVIOUS
<1>1. IInv => BaseIsLastTake /\ ReportedIsCounted
  BY DEF IInv
<1> QED BY <1>1, LivelinessInvariant, PTL

-----------------------------------------------------------------------------
(* Where events in excess of the changes come from.                        *)

Places == {"idle", "listen", "call", "install", "finish", "after_set"}

\* The listeners that run and have not counted.
Listeners == {d \in Dispatchers : pc[d] = "listen"}

\* A count or an estimate is within a number of changes.
Within(n, bound) == n <= bound /\ 0 - n <= bound

\* The status, and what is stored of it, is no further from that at the last
\* take than the changes since can have moved it.
Drift ==
  /\ Within(zz.alive - atTake.alive, since)
  /\ Within(zz.notAlive - atTake.notAlive, since)
  /\ Within(stored.aliveChange, since)
  /\ Within(stored.notAliveChange, since)

\* What is counted, and what listeners will count, is the changes since the last
\* take and the listener calls overtaken.
Explained == eventCount + Underway <= since + overtaken

\* The inductive invariant of the surplus, which holds whatever fails.
SInv ==
  /\ zz \in Status /\ atTake \in Status
  /\ stored \in [alive : Int, notAlive : Int, aliveChange : Int, notAliveChange : Int]
  /\ pc \in [Threads -> Places]
  /\ eventCount \in Nat /\ owed \in Nat /\ since \in Nat /\ overtaken \in Nat
  /\ BaseIsLastTake
  /\ Drift
  /\ Explained

\* There are finitely many listeners, and one more or less changes their number
\* by one.
LEMMA ListenersCounted ==
  ASSUME pc \in [Threads -> Places]
  PROVE  /\ Cardinality(Listeners) \in Nat
         /\ Underway = owed + Cardinality(Listeners)
         /\ Underway' = owed' + Cardinality(Listeners')
         /\ \A d \in Dispatchers :
              /\ pc[d] = "idle" /\ pc' = [pc EXCEPT ![d] = "listen"]
                   => Cardinality(Listeners') = Cardinality(Listeners) + 1
              /\ \A where \in Places \ {"listen"} :
                   pc[d] = "listen" /\ pc' = [pc EXCEPT ![d] = where]
                     => Cardinality(Listeners') = Cardinality(Listeners) - 1
         /\ \A t \in Threads, where \in Places \ {"listen"} :
              pc[t] # "listen" /\ pc' = [pc EXCEPT ![t] = where] => Listeners' = Listeners
<1>1. IsFiniteSet(Listeners)
  BY LivelinessConstants, FS_Subset DEF Listeners
<1>2. ASSUME NEW d \in Dispatchers, pc[d] = "idle", pc' = [pc EXCEPT ![d] = "listen"]
      PROVE  Cardinality(Listeners') = Cardinality(Listeners) + 1
  <2>1. d \notin Listeners /\ Listeners' = Listeners \cup {d}
    BY <1>2 DEF Listeners, Threads
  <2> QED BY <1>1, <2>1, FS_AddElement
<1>3. ASSUME NEW d \in Dispatchers, NEW where \in Places \ {"listen"},
             pc[d] = "listen", pc' = [pc EXCEPT ![d] = where]
      PROVE  Cardinality(Listeners') = Cardinality(Listeners) - 1
  <2>1. d \in Listeners /\ Listeners' = Listeners \ {d}
    BY <1>3 DEF Listeners, Threads
  <2> QED BY <1>1, <2>1, FS_RemoveElement
<1>4. ASSUME NEW t \in Threads, NEW where \in Places \ {"listen"},
             pc[t] # "listen", pc' = [pc EXCEPT ![t] = where]
      PROVE  Listeners' = Listeners
  BY <1>4 DEF Listeners, Threads
<1>5. Cardinality(Listeners) \in Nat
  BY <1>1, FS_CardinalityType
<1>6. /\ Underway = owed + Cardinality(Listeners)
      /\ Underway' = owed' + Cardinality(Listeners')
  BY DEF Underway, Listeners
<1> QED BY <1>2, <1>3, <1>4, <1>5, <1>6

\* A read gives back the counts and what they moved by, and so does none; the
\* estimate from it is no larger.
LEMMA ReadDrifts ==
  ASSUME SInv, NEW ok \in BOOLEAN
  PROVE  /\ ReadStatus(ok) \in [alive : Int, notAlive : Int,
                                aliveChange : Int, notAliveChange : Int]
         /\ Base(ReadStatus(ok)) = atTake
         /\ Within(ReadStatus(ok).aliveChange, since)
         /\ Within(ReadStatus(ok).notAliveChange, since)
         /\ UntakenEvents(ReadStatus(ok)) \in Nat
         /\ UntakenEvents(ReadStatus(ok)) <= since
<1> DEFINE s == ReadStatus(ok)
<1>1. /\ s \in [alive : Int, notAlive : Int, aliveChange : Int, notAliveChange : Int]
      /\ Base(s) = atTake
  BY DEF SInv, BaseIsLastTake, Base, ReadStatus, AddChanges, Status
<1>2. Within(s.aliveChange, since) /\ Within(s.notAliveChange, since)
  <2>1. CASE ok
    <3>1. /\ s.aliveChange = stored.aliveChange + (zz.alive - stored.alive)
          /\ s.notAliveChange = stored.notAliveChange + (zz.notAlive - stored.notAlive)
      BY <2>1 DEF ReadStatus, AddChanges
    <3>2. /\ atTake.alive = stored.alive - stored.aliveChange
          /\ atTake.notAlive = stored.notAlive - stored.notAliveChange
      BY DEF SInv, BaseIsLastTake, Base
    <3>3. /\ zz.alive \in Int /\ zz.notAlive \in Int
          /\ stored.alive \in Int /\ stored.notAlive \in Int
          /\ stored.aliveChange \in Int /\ stored.notAliveChange \in Int
      BY DEF SInv, Status
    <3>4. /\ s.aliveChange = zz.alive - atTake.alive
          /\ s.notAliveChange = zz.notAlive - atTake.notAlive
      BY <3>1, <3>2, <3>3
    <3> QED BY <3>4 DEF SInv, Drift
  <2>2. CASE ~ok
    BY <2>2 DEF ReadStatus, SInv, Drift
  <2> QED BY <2>1, <2>2
<1>3. /\ s.aliveChange \in Int /\ s.notAliveChange \in Int /\ since \in Nat
  BY <1>1 DEF SInv
<1> HIDE DEF s
<1>4. \A n \in Int : Within(n, since) => Size(n) \in Nat /\ Size(n) <= since
  BY <1>3 DEF Within, Size
<1>5. UntakenEvents(s) \in Nat /\ UntakenEvents(s) <= since
  BY <1>2, <1>3, <1>4 DEF UntakenEvents
<1> QED BY <1>1, <1>2, <1>5 DEF s

\* A change moves each count by one at most, and owes one listener call.
LEMMA ChangeExplained ==
  ASSUME SInv, NEW now \in Status, Change(now),
         Within(now.alive - zz.alive, 1), Within(now.notAlive - zz.notAlive, 1)
  PROVE  SInv'
<1>1. /\ zz' = now /\ since' = since + 1 /\ owed' \in {owed, owed + 1}
      /\ UNCHANGED <<stored, eventCount, pc, atTake, overtaken>>
  BY DEF Change, countVars, localVars
<1>2. Drift'
  <2>1. /\ now.alive \in Int /\ now.notAlive \in Int
        /\ zz.alive \in Int /\ zz.notAlive \in Int
        /\ atTake.alive \in Int /\ atTake.notAlive \in Int
        /\ stored.aliveChange \in Int /\ stored.notAliveChange \in Int /\ since \in Nat
    BY DEF SInv, Status
  <2>2. /\ Within(zz.alive - atTake.alive, since)
        /\ Within(zz.notAlive - atTake.notAlive, since)
        /\ Within(stored.aliveChange, since)
        /\ Within(stored.notAliveChange, since)
    BY DEF SInv, Drift
  <2>3. /\ Within(now.alive - atTake.alive, since + 1)
        /\ Within(now.notAlive - atTake.notAlive, since + 1)
    BY <2>1, <2>2 DEF Within
  <2>4. /\ Within(stored.aliveChange, since + 1)
        /\ Within(stored.notAliveChange, since + 1)
    BY <2>1, <2>2 DEF Within
  <2> QED BY <1>1, <2>3, <2>4 DEF Drift
<1>3. Explained'
  <2>1. Listeners' = Listeners
    BY <1>1 DEF Listeners
  <2>2. /\ Underway = owed + Cardinality(Listeners)
        /\ Underway' = owed' + Cardinality(Listeners)
        /\ Cardinality(Listeners) \in Nat
    BY <2>1, ListenersCounted DEF SInv
  <2> QED BY <1>1, <2>2 DEF SInv, Explained
<1> QED BY <1>1, <1>2, <1>3 DEF SInv, BaseIsLastTake

\* A listener call that is made is no longer owed, and one that counts is over.
LEMMA ListenerExplained ==
  ASSUME SInv, NEW d \in Dispatchers, CallListener(d) \/ Listener(d)
  PROVE  SInv'
<1>1. d \in Threads
  BY DEF Threads
<1>2. CASE CallListener(d)
  <2>1. /\ pc[d] = "idle" /\ pc' = [pc EXCEPT ![d] = "listen"]
        /\ owed > 0 /\ owed' = owed - 1
        /\ UNCHANGED <<zz, stored, eventCount, atTake, since, overtaken>>
    BY <1>2 DEF CallListener, Go, countVars
  <2>2. /\ Underway = owed + Cardinality(Listeners)
        /\ Underway' = owed' + Cardinality(Listeners')
        /\ Cardinality(Listeners) \in Nat
        /\ Cardinality(Listeners') = Cardinality(Listeners) + 1
    BY <2>1, ListenersCounted DEF SInv
  <2>3. Explained'
    BY <2>1, <2>2 DEF SInv, Explained
  <2>4. pc' \in [Threads -> Places]
    BY <2>1 DEF SInv, Places
  <2> QED BY <2>1, <2>3, <2>4 DEF SInv, BaseIsLastTake, Drift
<1>3. CASE Listener(d)
  <2>1. PICK ok \in BOOLEAN : stored' = ReadStatus(ok)
    BY <1>3 DEF Listener, Outcomes
  <2>2. /\ pc[d] = "listen"
        /\ \E where \in {"idle", "call"} : pc' = [pc EXCEPT ![d] = where]
        /\ eventCount' \in {eventCount, eventCount + 1}
        /\ UNCHANGED <<zz, owed, atTake, since, overtaken>>
    BY <1>3 DEF Listener, Go, countVars, zzddsVars, history
  <2>3. /\ Underway = owed + Cardinality(Listeners)
        /\ Underway' = owed' + Cardinality(Listeners')
        /\ Cardinality(Listeners) \in Nat
        /\ Cardinality(Listeners') = Cardinality(Listeners) - 1
    BY <2>2, ListenersCounted DEF SInv, Places
  <2>4. Explained' /\ eventCount' \in Nat
    BY <2>2, <2>3 DEF SInv, Explained
  <2>5. pc' \in [Threads -> Places]
    BY <2>2 DEF SInv, Places
  <2>6. /\ stored' \in [alive : Int, notAlive : Int, aliveChange : Int, notAliveChange : Int]
        /\ BaseIsLastTake' /\ Drift'
    BY <2>1, <2>2, ReadDrifts DEF SInv, Drift, BaseIsLastTake
  <2> QED BY <2>2, <2>4, <2>5, <2>6 DEF SInv
<1> QED BY <1>2, <1>3

\* An initialization that counts has overtaken the listeners under way.
LEMMA InitExplained ==
  ASSUME SInv, NEW t \in AppThreads, InitFinish(t)
  PROVE  SInv'
<1>1. PICK ok \in BOOLEAN : stored' = ReadStatus(ok) /\ eventCount' = InitialCount(ReadStatus(ok))
  BY DEF InitFinish, Outcomes
<1>2. /\ pc[t] = "finish" /\ pc' = [pc EXCEPT ![t] = "idle"]
      /\ overtaken' = IF eventCount = 0 THEN Underway ELSE overtaken
      /\ UNCHANGED <<zz, owed, atTake, since>>
  BY DEF InitFinish, Go, zzddsVars
<1>3. t \in Threads
  BY DEF Threads
<1>4. /\ Underway' = Underway /\ Underway \in Nat
  <2>1. Listeners' = Listeners
    BY <1>2, <1>3, ListenersCounted DEF SInv, Places
  <2> QED BY <1>2, <2>1, ListenersCounted DEF SInv
<1>5. Explained' /\ eventCount' \in Nat /\ overtaken' \in Nat
  <2> DEFINE n == UntakenEvents(ReadStatus(ok))
  <2>1. n \in Nat /\ n <= since
    BY ReadDrifts
  <2>2. eventCount' = IF eventCount = 0 THEN n ELSE eventCount
    BY <1>1 DEF InitialCount
  <2> HIDE DEF n
  <2>3. eventCount \in Nat /\ since \in Nat /\ overtaken \in Nat
        /\ eventCount + Underway <= since + overtaken
    BY DEF SInv, Explained
  <2> QED BY <1>2, <1>4, <2>1, <2>2, <2>3 DEF Explained
<1>6. pc' \in [Threads -> Places]
  BY <1>2 DEF SInv, Places
<1>7. /\ stored' \in [alive : Int, notAlive : Int, aliveChange : Int, notAliveChange : Int]
      /\ BaseIsLastTake' /\ Drift'
  BY <1>1, <1>2, ReadDrifts DEF SInv, Drift, BaseIsLastTake
<1> QED BY <1>2, <1>5, <1>6, <1>7 DEF SInv

\* A take starts anew, and has overtaken the listeners under way.
LEMMA TakeExplained ==
  ASSUME SInv, NEW t \in AppThreads, TakeEvent(t)
  PROVE  SInv'
<1>1. /\ stored' = [ReadStatus(TRUE) EXCEPT !.aliveChange = 0, !.notAliveChange = 0]
      /\ eventCount' = 0 /\ atTake' = zz /\ since' = 0 /\ overtaken' = Underway
      /\ UNCHANGED <<zz, owed, pc>>
  BY DEF TakeEvent, zzddsVars, localVars
<1>2. Underway' = Underway /\ Underway \in Nat
  <2>1. Listeners' = Listeners
    BY <1>1 DEF Listeners
  <2> QED BY <1>1, <2>1, ListenersCounted DEF SInv
<1>3. ReadStatus(TRUE) \in [alive : Int, notAlive : Int, aliveChange : Int, notAliveChange : Int]
  BY ReadDrifts
<1>4. ReadStatus(TRUE).alive = zz.alive /\ ReadStatus(TRUE).notAlive = zz.notAlive
  BY DEF ReadStatus, AddChanges
<1>5. stored' = [alive |-> zz.alive, notAlive |-> zz.notAlive,
                 aliveChange |-> 0, notAliveChange |-> 0]
  BY <1>1, <1>3, <1>4
<1>6. /\ zz.alive \in Int /\ zz.notAlive \in Int
      /\ zz = [alive |-> zz.alive, notAlive |-> zz.notAlive]
  BY DEF SInv, Status
<1>7. BaseIsLastTake'
  <2>1. Base(stored') = [alive |-> zz.alive, notAlive |-> zz.notAlive]
    BY <1>5, <1>6 DEF Base
  <2> QED BY <1>1, <1>6, <2>1 DEF BaseIsLastTake
<1>8. Drift'
  BY <1>1, <1>5, <1>6 DEF Drift, Within
<1>9. Explained'
  BY <1>1, <1>2 DEF Explained
<1>10. stored' \in [alive : Int, notAlive : Int, aliveChange : Int, notAliveChange : Int]
  BY <1>5, <1>6
<1> QED BY <1>1, <1>2, <1>7, <1>8, <1>9, <1>10 DEF SInv

\* No other step counts, or brings a listener on its way.
LEMMA OthersExplained ==
  ASSUME SInv, NEW t \in Threads,
         \/ InitCreateGuard(t) \/ InitInstall(t) \/ AfterSetCallback(t) \/ InvokeCallback(t)
         \/ \E registered \in BOOLEAN : SetCallback(t, registered)
  PROVE  SInv'
<1>1. /\ pc[t] # "listen"
      /\ \E where \in Places \ {"listen"} : pc' = [pc EXCEPT ![t] = where]
      /\ UNCHANGED <<zz, owed, stored, eventCount, atTake, since, overtaken>>
  <2>1. CASE InitCreateGuard(t)
    BY <2>1 DEF InitCreateGuard, Go, Places, zzddsVars, history
  <2>2. CASE InitInstall(t)
    BY <2>2 DEF InitInstall, Go, Places, countVars, history
  <2>3. CASE AfterSetCallback(t)
    BY <2>3 DEF AfterSetCallback, Go, Places, zzddsVars, history
  <2>4. CASE InvokeCallback(t)
    BY <2>4 DEF InvokeCallback, Go, Places, zzddsVars, countVars, history
  <2>5. CASE \E registered \in BOOLEAN : SetCallback(t, registered)
    BY <2>5 DEF SetCallback, MayUse, Go, Places, zzddsVars, countVars, history
  <2> QED BY <2>1, <2>2, <2>3, <2>4, <2>5
<1>2. Listeners' = Listeners
  BY <1>1, ListenersCounted DEF SInv
<1>3. Underway' = Underway
  BY <1>1, <1>2, ListenersCounted DEF SInv
<1>4. pc' \in [Threads -> Places]
  BY <1>1 DEF SInv
<1> QED BY <1>1, <1>3, <1>4 DEF SInv, BaseIsLastTake, Drift, Explained

\* Every step keeps the surplus explained.
LEMMA NextExplained == SInv /\ [Next]_vars => SInv'
<1> SUFFICES ASSUME SInv, [Next]_vars PROVE SInv'
  OBVIOUS
<1>1. CASE ZzddsChanges
  <2>1. zz.alive \in Int /\ zz.notAlive \in Int
    BY DEF SInv, Status
  <2>2. PICK now \in Status :
          /\ Change(now)
          /\ Within(now.alive - zz.alive, 1) /\ Within(now.notAlive - zz.notAlive, 1)
    BY <1>1, <2>1 DEF ZzddsChanges, WriterMatched, WriterLost, WriterRecovers, WriterLeaves,
       Status, SInv, Within
  <2> QED BY <2>2, ChangeExplained
<1>2. CASE UNCHANGED vars
  <2>1. Listeners' = Listeners
    BY <1>2 DEF vars, Listeners
  <2>2. Underway' = Underway
    BY <1>2, <2>1, ListenersCounted DEF vars, SInv
  <2> QED BY <1>2, <2>2 DEF vars, SInv, BaseIsLastTake, Drift, Explained
<1> QED BY <1>1, <1>2, ListenerExplained, InitExplained, TakeExplained, OthersExplained
        DEF Next, AppStep, Threads

\* There are more events than changes since the last take only by listener calls
\* that the take or an initialization has overtaken, whatever fails
\* (rmw_event.cpp 93-94: such a listener counts one event too many).
THEOREM SurplusStaysExplained == Spec => []SurplusIsExplained
<1>1. Init => SInv
  <2> SUFFICES ASSUME Init PROVE SInv
    OBVIOUS
  <2>1. /\ zz \in Status /\ atTake \in Status
        /\ stored \in [alive : Int, notAlive : Int, aliveChange : Int, notAliveChange : Int]
        /\ pc \in [Threads -> Places]
        /\ \A t \in Threads : pc[t] = "idle"
    BY DEF Init, NoStatus, Status, Places
  <2>2. BaseIsLastTake /\ Drift
    BY DEF Init, NoStatus, BaseIsLastTake, Base, Drift, Within
  <2>3. Underway = 0
    <3>1. Listeners = {}
      BY <2>1 DEF Listeners, Threads
    <3> QED BY <2>1, <3>1, ListenersCounted, FS_EmptySet DEF Init
  <2> QED BY <2>1, <2>2, <2>3 DEF Init, SInv, Explained
<1>2. SInv => SurplusIsExplained
  <2> SUFFICES ASSUME SInv PROVE SurplusIsExplained
    OBVIOUS
  <2>1. Underway \in Nat
    BY ListenersCounted DEF SInv
  <2> QED BY <2>1 DEF SInv, Explained, SurplusIsExplained
<1> QED BY <1>1, <1>2, NextExplained, PTL DEF Spec
===============================================================================
