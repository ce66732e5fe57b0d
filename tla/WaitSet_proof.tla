----------------------------- MODULE WaitSet_proof -----------------------------
(***************************************************************************)
(* Proofs about WaitSet, for any number of waiters and of conditions they  *)
(* share, whatever wait set capacity, and whatever fails; and about the    *)
(* timeouts of waits, for all of them.                                     *)
(***************************************************************************)
EXTENDS WaitSet, Conversions, TLAPS

\* Every variable has its type.
TypeOK ==
  /\ trigger \in [Guards -> BOOLEAN]
  /\ work \in SUBSET Guards
  /\ pushing \in SUBSET Guards
  /\ items \in [Levels -> Nat]
  /\ pc \in [Waiters -> {"idle", "wait", "detach", "fail", "reset", "work"}]
  /\ attached \in [Waiters -> SUBSET Conditions]
  /\ found \in [Waiters -> SUBSET Conditions]
  /\ fresh \in [Waiters -> SUBSET Guards]

\* A wait reports only conditions that it waits for.
OwnConditions == \A w \in Waiters : attached[w] \cup found[w] \subseteq WaitsFor[w]

\* Nothing is found active between the work of one wait and the return of the
\* next.
FoundByWait == \A w \in Waiters : pc[w] \in {"idle", "wait", "fail"} => found[w] = {}

\* The trigger value of a guard condition has been set since any of those that
\* wait for it reported it.
UpIsFresh ==
  \A w \in Waiters, g \in Guards : g \in WaitsFor[w] /\ trigger[g] => g \in fresh[w]

\* The inductive invariant.
IInv ==
  /\ TypeOK
  /\ OwnConditions
  /\ FoundByWait
  /\ UpIsFresh
  /\ NothingStaysAttached
  /\ OneShot
  /\ WorkIsSignalled

-----------------------------------------------------------------------------

\* Before the first wait nothing is attached, triggered or to be done.
LEMMA InitInv == Init => IInv
  BY WaitConstants DEF Init, IInv, TypeOK, OwnConditions, FoundByWait, UpIsFresh,
     NothingStaysAttached, OneShot, WorkIsSignalled, Conditions

\* A producer leaves work before it triggers the guard condition, so the work is
\* signalled by the trigger to come.
LEMMA LeaveWorkInv ==
  ASSUME IInv, NEW g \in Guards, LeaveWork(g)
  PROVE  IInv'
<1>1. TypeOK'
  BY DEF IInv, TypeOK, LeaveWork
<1>2. OwnConditions' /\ FoundByWait' /\ UpIsFresh' /\ NothingStaysAttached' /\ OneShot'
  BY DEF IInv, LeaveWork, OwnConditions, FoundByWait, UpIsFresh,
     NothingStaysAttached, OneShot
<1>3. WorkIsSignalled'
  BY DEF IInv, LeaveWork, WorkIsSignalled
<1> QED
  BY <1>1, <1>2, <1>3 DEF IInv

\* A trigger is fresh for every waiter that waits for the guard condition
\* (rmw_guard_condition.cpp 83).
LEMMA TriggerGuardInv ==
  ASSUME IInv, NEW g \in Guards, TriggerGuard(g)
  PROVE  IInv'
<1>1. TypeOK'
  BY DEF IInv, TypeOK, TriggerGuard
<1>2. OwnConditions' /\ FoundByWait' /\ NothingStaysAttached'
  BY DEF IInv, TriggerGuard, OwnConditions, FoundByWait, NothingStaysAttached
<1>3. UpIsFresh' /\ OneShot'
  BY DEF IInv, TypeOK, TriggerGuard, UpIsFresh, OneShot
<1>4. WorkIsSignalled'
  BY DEF IInv, TypeOK, TriggerGuard, WorkIsSignalled
<1> QED
  BY <1>1, <1>2, <1>3, <1>4 DEF IInv

\* Samples and events change the levels only.
LEMMA RaiseInv ==
  ASSUME IInv, NEW c \in Levels, Raise(c)
  PROVE  IInv'
<1>1. TypeOK'
  BY DEF IInv, TypeOK, Raise, producerVars
<1>2. OwnConditions' /\ FoundByWait' /\ UpIsFresh' /\ NothingStaysAttached' /\ OneShot'
  BY DEF IInv, Raise, producerVars, OwnConditions, FoundByWait, UpIsFresh,
     NothingStaysAttached, OneShot
<1>3. WorkIsSignalled'
  BY DEF IInv, Raise, producerVars, WorkIsSignalled
<1> QED
  BY <1>1, <1>2, <1>3 DEF IInv

\* Conditions are attached to a wait set that was empty, all or none of them
\* (rmw_wait.cpp 202).
LEMMA AttachInv ==
  ASSUME IInv, NEW w \in Waiters, Attach(w) \/ AttachFails(w)
  PROVE  IInv'
<1>1. CASE Attach(w)
  <2>1. TypeOK'
    BY <1>1, WaitConstants DEF IInv, TypeOK, Attach, Attached, Go, producerVars
  <2>2. OwnConditions' /\ FoundByWait' /\ UpIsFresh'
    BY <1>1 DEF IInv, TypeOK, Attach, Attached, Go, producerVars, OwnConditions,
       FoundByWait, UpIsFresh
  <2>3. NothingStaysAttached' /\ OneShot'
    BY <1>1 DEF IInv, TypeOK, Attach, Attached, Go, producerVars, NothingStaysAttached, OneShot
  <2>4. WorkIsSignalled'
    BY <1>1 DEF IInv, Attach, producerVars, WorkIsSignalled
  <2> QED
    BY <2>1, <2>2, <2>3, <2>4 DEF IInv
<1>2. CASE AttachFails(w)
  <2>1. attached' = attached
    BY <1>2 DEF IInv, TypeOK, AttachFails, Rollback
  <2>2. UNCHANGED vars
    BY <1>2, <2>1 DEF AttachFails, producerVars, vars
  <2> QED
    BY <2>2 DEF vars, IInv, TypeOK, OwnConditions, FoundByWait, UpIsFresh,
       NothingStaysAttached, OneShot, WorkIsSignalled
<1> QED
  BY <1>1, <1>2

\* What the wait finds active is what was attached and is up, so it was
\* triggered since this waiter reported it last (rmw_wait.cpp 271).
LEMMA WakeInv ==
  ASSUME IInv, NEW w \in Waiters, Wake(w) \/ WakeAfterTimeout(w) \/ WaitFails(w)
  PROVE  IInv'
<1>1. CASE Wake(w)
  <2>1. TypeOK'
    BY <1>1 DEF IInv, TypeOK, Wake, Go, producerVars
  <2>2. OwnConditions' /\ FoundByWait' /\ UpIsFresh' /\ NothingStaysAttached'
    BY <1>1 DEF IInv, TypeOK, Wake, Go, producerVars, OwnConditions, FoundByWait,
       UpIsFresh, NothingStaysAttached
  <2>3. found'[w] \cap Guards \subseteq fresh[w]
    BY <1>1, WaitConstants DEF IInv, TypeOK, Wake, Up, OwnConditions, UpIsFresh
  <2>4. OneShot'
    BY <1>1, <2>3 DEF IInv, TypeOK, Wake, Go, OneShot
  <2>5. WorkIsSignalled'
    BY <1>1 DEF IInv, TypeOK, Wake, producerVars, FoundByWait, WorkIsSignalled
  <2> QED
    BY <2>1, <2>2, <2>4, <2>5 DEF IInv
<1>2. CASE WakeAfterTimeout(w)
  <2>1. TypeOK'
    BY <1>2 DEF IInv, TypeOK, WakeAfterTimeout, Go, producerVars
  <2>2. OwnConditions' /\ FoundByWait' /\ UpIsFresh' /\ NothingStaysAttached' /\ OneShot'
    BY <1>2 DEF IInv, TypeOK, WakeAfterTimeout, Go, producerVars, OwnConditions,
       FoundByWait, UpIsFresh, NothingStaysAttached, OneShot
  <2>3. WorkIsSignalled'
    BY <1>2 DEF IInv, WakeAfterTimeout, producerVars, WorkIsSignalled
  <2> QED
    BY <2>1, <2>2, <2>3 DEF IInv
<1>3. CASE WaitFails(w)
  <2>1. TypeOK'
    BY <1>3 DEF IInv, TypeOK, WaitFails, Go, producerVars
  <2>2. OwnConditions' /\ FoundByWait' /\ UpIsFresh' /\ NothingStaysAttached' /\ OneShot'
    BY <1>3 DEF IInv, TypeOK, WaitFails, Go, producerVars, OwnConditions,
       FoundByWait, UpIsFresh, NothingStaysAttached, OneShot
  <2>3. WorkIsSignalled'
    BY <1>3 DEF IInv, WaitFails, producerVars, WorkIsSignalled
  <2> QED
    BY <2>1, <2>2, <2>3 DEF IInv
<1> QED
  BY <1>1, <1>2, <1>3

\* Everything is detached, whatever the wait returned (rmw_wait.cpp 273).
LEMMA DetachInv ==
  ASSUME IInv, NEW w \in Waiters, Detach(w)
  PROVE  IInv'
<1>1. TypeOK'
  BY DEF IInv, TypeOK, Detach, Go, producerVars
<1>2. OwnConditions' /\ FoundByWait' /\ UpIsFresh'
  BY DEF IInv, TypeOK, Detach, Go, producerVars, OwnConditions, FoundByWait, UpIsFresh
<1>3. NothingStaysAttached' /\ OneShot'
  BY DEF IInv, TypeOK, Detach, Go, producerVars, NothingStaysAttached, OneShot
<1>4. WorkIsSignalled'
  BY DEF IInv, Detach, producerVars, WorkIsSignalled
<1> QED
  BY <1>1, <1>2, <1>3, <1>4 DEF IInv

\* Only guard conditions that this waiter reports are reset, so work whose
\* trigger value goes back to false is work this waiter will look for
\* (rmw_wait.cpp 287).
LEMMA ResetAndReturnInv ==
  ASSUME IInv, NEW w \in Waiters, ResetAndReturn(w)
  PROVE  IInv'
<1>1. TypeOK'
  BY DEF IInv, TypeOK, ResetAndReturn, Go, producerVars
<1>2. OwnConditions' /\ FoundByWait' /\ NothingStaysAttached'
  BY DEF IInv, TypeOK, ResetAndReturn, Go, producerVars, OwnConditions, FoundByWait,
     NothingStaysAttached
<1>3. UpIsFresh'
  BY DEF IInv, TypeOK, ResetAndReturn, ToReset, Go, producerVars, UpIsFresh
<1>4. OneShot'
  BY DEF IInv, TypeOK, ResetAndReturn, Go, producerVars, OneShot
<1>5. WorkIsSignalled'
  BY DEF IInv, TypeOK, ResetAndReturn, ToReset, producerVars, WorkIsSignalled
<1> QED
  BY <1>1, <1>2, <1>3, <1>4, <1>5 DEF IInv

\* The work behind all that was reported is done before anything is forgotten.
LEMMA DoWorkInv ==
  ASSUME IInv, NEW w \in Waiters, DoWork(w)
  PROVE  IInv'
<1>1. TypeOK'
  <2>1. \A n \in Nat : TakeOne(n) \in Nat
    BY DEF TakeOne
  <2> QED
    BY <2>1 DEF IInv, TypeOK, DoWork, Go
<1>2. OwnConditions' /\ FoundByWait' /\ UpIsFresh'
  BY DEF IInv, TypeOK, DoWork, Go, OwnConditions, FoundByWait, UpIsFresh
<1>3. NothingStaysAttached' /\ OneShot'
  BY DEF IInv, TypeOK, DoWork, Go, NothingStaysAttached, OneShot
<1>4. WorkIsSignalled'
  BY DEF IInv, TypeOK, DoWork, WorkIsSignalled
<1> QED
  BY <1>1, <1>2, <1>3, <1>4 DEF IInv

\* No step of a producer or a waiter breaks the invariant.
LEMMA NextInv == IInv /\ [Next]_vars => IInv'
<1> SUFFICES ASSUME IInv, [Next]_vars
             PROVE  IInv'
  OBVIOUS
<1>1. ASSUME NEW g \in Guards, LeaveWork(g)
      PROVE  IInv'
  BY <1>1, LeaveWorkInv
<1>2. ASSUME NEW g \in Guards, TriggerGuard(g)
      PROVE  IInv'
  BY <1>2, TriggerGuardInv
<1>3. ASSUME NEW c \in Levels, Raise(c)
      PROVE  IInv'
  BY <1>3, RaiseInv
<1>4. ASSUME NEW w \in Waiters, WaiterStep(w)
      PROVE  IInv'
  BY <1>4, AttachInv, WakeInv, DetachInv, ResetAndReturnInv, DoWorkInv DEF WaiterStep
<1>5. CASE UNCHANGED vars
  BY <1>5 DEF vars, IInv, TypeOK, OwnConditions, FoundByWait, UpIsFresh,
     NothingStaysAttached, OneShot, WorkIsSignalled
<1> QED
  BY <1>1, <1>2, <1>3, <1>4, <1>5 DEF Next

\* The invariant holds in every state of every behaviour.
THEOREM Invariance == Spec => []IInv
<1> QED
  BY InitInv, NextInv, PTL DEF Spec

\* rmw_wait leaves its wait set empty, however attaching or waiting fails.
THEOREM WaitSetsAreEmptied == Spec => []NothingStaysAttached
<1>1. IInv => NothingStaysAttached
  BY DEF IInv
<1> QED
  BY <1>1, Invariance, PTL

\* However many waiters share guard conditions, work that was left is announced
\* to one that will do it: resetting a guard condition loses no signal.
THEOREM NoSignalIsLost == Spec => []WorkIsSignalled
<1>1. IInv => WorkIsSignalled
  BY DEF IInv
<1> QED
  BY <1>1, Invariance, PTL

\* A waiter reports a guard condition at most once per trigger.
THEOREM GuardsAreOneShot == Spec => []OneShot
<1>1. IInv => OneShot
  BY DEF IInv
<1> QED
  BY <1>1, Invariance, PTL

-----------------------------------------------------------------------------
(* Timeouts (see Conversions).                                             *)

\* A division splits a number, as the nanoseconds of a timeout, without loss.
LEMMA Division ==
  ASSUME NEW n \in Nat, NEW c \in Nat \ {0}
  PROVE  /\ n \div c \in Nat
         /\ n % c \in 0 .. c - 1
         /\ n = (c * (n \div c)) + (n % c)
BY SMT

\* Seconds are counted in nanoseconds one part at a time.
LEMMA Distribute ==
  ASSUME NEW m \in Nat, NEW n \in Nat, NEW c \in Nat
  PROVE  c * m \in Nat /\ c * n \in Nat /\ c * (m + n) = (c * m) + (c * n)
BY SMT

\* A sum of seconds that fits into uint64_t does not wrap.
LEMMA NoWrap ==
  ASSUME NEW n \in Nat, n <= MaxUInt64
  PROVE  Wrap64(n) = n
BY SMT DEF Wrap64, MaxUInt64

\* Numbers of the width of a time are natural numbers.
LEMMA TimeFields ==
  ASSUME NEW t \in RmwTime
  PROVE  t.sec \in Nat /\ t.nsec \in Nat /\ t.sec <= MaxUInt64
<1>1. MaxUInt64 \in Nat
  BY SMT DEF MaxUInt64
<1> QED BY <1>1 DEF RmwTime

\* A timeout that rmw_wait or rmw_publisher_wait_for_all_acked accepts is waited
\* for exactly, and all that have a DDS duration are accepted.  The first
\* conversion adds the seconds and then checks the range, the other checks
\* first; the guards of both keep uint64_t from wrapping, and agree.
THEOREM TimeoutsAreExact ==
  ASSUME NEW t \in RmwTime
  PROVE  /\ WaitAccepts(t) <=> t.sec + ExtraSeconds(t) <= MaxInt32
         /\ AckAccepts(t) <=> WaitAccepts(t)
         /\ WaitAccepts(t) =>
              /\ DdsDuration(t).sec \in 0 .. MaxInt32
              /\ DdsDuration(t).nanosec \in 0 .. Billion - 1
              /\ (Billion * DdsDuration(t).sec) + DdsDuration(t).nanosec = (Billion * t.sec) + t.nsec
<1>1. /\ t.sec \in Nat /\ t.nsec \in Nat /\ Billion \in Nat \ {0}
      /\ MaxUInt64 \in Nat /\ MaxInt32 \in Nat /\ MaxInt32 <= MaxUInt64
  <2>1. MaxUInt64 \in Nat /\ MaxInt32 \in Nat /\ MaxInt32 <= MaxUInt64
    BY SMT DEF MaxUInt64, MaxInt32
  <2>2. Billion \in Nat \ {0}
    BY SMT DEF Billion
  <2> QED BY TimeFields, <2>1, <2>2
<1>2. /\ ExtraSeconds(t) \in Nat
      /\ t.nsec % Billion \in 0 .. Billion - 1
      /\ t.nsec = (Billion * ExtraSeconds(t)) + (t.nsec % Billion)
  BY <1>1, Division DEF ExtraSeconds
<1>3. /\ DdsDuration(t).sec = Wrap64(t.sec + ExtraSeconds(t))
      /\ DdsDuration(t).nanosec = t.nsec % Billion
  BY DEF DdsDuration
<1>4. t.sec + ExtraSeconds(t) <= MaxUInt64 => DdsDuration(t).sec = t.sec + ExtraSeconds(t)
  BY <1>1, <1>2, <1>3, NoWrap
<1>5. WaitAccepts(t) <=> t.sec + ExtraSeconds(t) <= MaxInt32
  BY <1>1, <1>2, <1>4 DEF WaitAccepts
<1>6. AckAccepts(t) <=> t.sec + ExtraSeconds(t) <= MaxInt32
  BY <1>1, <1>2 DEF AckAccepts
<1>7. ASSUME t.sec + ExtraSeconds(t) <= MaxInt32
      PROVE  /\ DdsDuration(t).sec \in 0 .. MaxInt32
             /\ DdsDuration(t).nanosec \in 0 .. Billion - 1
             /\ (Billion * DdsDuration(t).sec) + DdsDuration(t).nanosec = (Billion * t.sec) + t.nsec
  <2>1. DdsDuration(t).sec = t.sec + ExtraSeconds(t)
    BY <1>1, <1>2, <1>4, <1>7
  <2>2. /\ Billion * t.sec \in Nat /\ Billion * ExtraSeconds(t) \in Nat
        /\ Billion * (t.sec + ExtraSeconds(t)) = (Billion * t.sec) + (Billion * ExtraSeconds(t))
    BY <1>1, <1>2, Distribute
  <2>3. DdsDuration(t).nanosec \in Nat
    BY <1>1, <1>2, <1>3
  <2> QED BY <1>1, <1>2, <1>3, <1>7, <2>1, <2>2, <2>3
<1> QED BY <1>5, <1>6, <1>7
=============================================================================
