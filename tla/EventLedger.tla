----------------------------- MODULE EventLedger -----------------------------
(***************************************************************************)
(* What a QoS event promises its application, whatever threads and         *)
(* listeners account for it: a ledger per event type.  Events happen; they *)
(* are announced (the event is triggered) and reported (its callback is    *)
(* told), each at most once; and a take hands out all that happened since  *)
(* the last one and closes the page.                                       *)
(***************************************************************************)
EXTENDS Naturals

CONSTANT Types

VARIABLES
  happened,   \* events there have been
  taken,      \* events handed out by takes
  announced,  \* untaken events the application was woken for
  reported    \* untaken events its callback was told about

ledger == <<happened, taken, announced, reported>>

Init ==
  /\ happened = [type \in Types |-> 0]
  /\ taken = [type \in Types |-> 0]
  /\ announced = [type \in Types |-> 0]
  /\ reported = [type \in Types |-> 0]

Happen(type) ==
  /\ happened' = [happened EXCEPT ![type] = @ + 1]
  /\ UNCHANGED <<taken, announced, reported>>

\* Untaken events are announced, n of them for the first time, and the
\* callback may be told about these n.
Announce(type, n) ==
  /\ announced[type] + n <= happened[type] - taken[type]
  /\ announced' = [announced EXCEPT ![type] = @ + n]
  /\ \/ reported' = [reported EXCEPT ![type] = @ + n]
     \/ UNCHANGED reported
  /\ UNCHANGED <<happened, taken>>

\* A callback is told about what none has been told yet.
Report(type) ==
  /\ reported[type] < announced[type]
  /\ reported' = [reported EXCEPT ![type] = announced[type]]
  /\ UNCHANGED <<happened, taken, announced>>

Take(type) ==
  /\ taken' = [taken EXCEPT ![type] = happened[type]]
  /\ announced' = [announced EXCEPT ![type] = 0]
  /\ reported' = [reported EXCEPT ![type] = 0]
  /\ UNCHANGED happened

Next ==
  \E type \in Types :
    \/ Happen(type)
    \/ \E n \in 1 .. happened[type] - taken[type] : Announce(type, n)
    \/ Report(type)
    \/ Take(type)

Spec == Init /\ [][Next]_ledger
=============================================================================
