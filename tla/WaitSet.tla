-------------------------------- MODULE WaitSet --------------------------------
(***************************************************************************)
(* rmw_wait and rmw_trigger_guard_condition.                               *)
(*                                                                         *)
(* Waiters, each with a wait set of its own, wait again and again for the  *)
(* same conditions and then do the work these stand for.  A condition is a *)
(* guard condition, one-shot: rmw_wait resets those it reports; or a level,*)
(* the read condition of a subscription, service or client or the guard    *)
(* condition of an event, which stays up as long as there is something to  *)
(* take.  Producers leave work and then trigger the guard condition that   *)
(* announces it; samples and events raise levels.  Guard conditions may be *)
(* shared between waiters, as a context's graph guard condition is.        *)
(***************************************************************************)
EXTENDS Integers, FiniteSetsExt

CONSTANTS
  Waiters,    \* threads calling rmw_wait
  Guards,     \* guard conditions
  Levels,     \* conditions that are up as long as there is something to take
  WaitsFor,   \* per waiter: the conditions it passes to rmw_wait
  Capacity,   \* max_conditions of the wait sets; 0: no limit
  MaxItems,   \* bound: items to take behind a level at a time
  Failing     \* what may happen: "attach" (a condition belongs to another context
              \* or cannot be attached), "wait" (zzdds fails), "timeout"

Conditions == Guards \cup Levels

ASSUME WaitConstants ==
  /\ Guards \cap Levels = {}
  /\ WaitsFor \in [Waiters -> SUBSET Conditions]
  /\ \A w \in Waiters : IsFiniteSet(WaitsFor[w])
  /\ Capacity \in Nat
  /\ MaxItems \in Nat
  /\ Failing \subseteq {"attach", "wait", "timeout"}

VARIABLES
  trigger,   \* the trigger value of each guard condition
  work,      \* guard conditions with work left that they announce
  pushing,   \* guard conditions whose producer has left work, not triggered yet
  items,     \* per level: what there is to take
  pc,        \* where each waiter is
  attached,  \* the conditions attached to its wait set
  found,     \* the conditions the zzdds wait found active
  fresh      \* history, per waiter: the guards triggered since it last reported them

vars == <<trigger, work, pushing, items, pc, attached, found, fresh>>
producerVars == <<work, pushing>>

Go(w, where) == pc' = [pc EXCEPT ![w] = where]

\* The conditions that are up.
Up == {g \in Guards : trigger[g]} \cup {c \in Levels : items[c] > 0}

-----------------------------------------------------------------------------
(* Producers.                                                              *)

LeaveWork(g) ==
  /\ work' = work \cup {g}
  /\ pushing' = pushing \cup {g}
  /\ UNCHANGED <<trigger, items, pc, attached, found, fresh>>

\* rmw_trigger_guard_condition, and notify_graph_change of a context.
TriggerGuard(g) ==
  /\ g \in pushing
  /\ pushing' = pushing \ {g}
  /\ trigger' = [trigger EXCEPT ![g] = TRUE]
  /\ fresh' = [w \in Waiters |-> fresh[w] \cup ({g} \cap WaitsFor[w])]
  /\ UNCHANGED <<work, items, pc, attached, found>>

\* A sample arrives, or an event is counted.
Raise(c) ==
  /\ items[c] < MaxItems
  /\ items' = [items EXCEPT ![c] = @ + 1]
  /\ UNCHANGED <<trigger, producerVars, pc, attached, found, fresh>>

-----------------------------------------------------------------------------
(* rmw_wait.                                                               *)

Fits(w) == Capacity = 0 \/ Cardinality(WaitsFor[w]) <= Capacity

\* (Slip: what was attached before the failure stays attached.)
KeepAttached(some) == some

\* What stays attached when a condition cannot be.
Rollback(some) == {}

\* (Slip: the levels are forgotten.)
GuardsOnly(w) == WaitsFor[w] \cap Guards

\* All the conditions passed in are attached.
Attached(w) == WaitsFor[w]

\* The conditions are attached one after the other, all of them ...
Attach(w) ==
  /\ pc[w] = "idle"
  /\ Fits(w)
  /\ attached' = [attached EXCEPT ![w] = @ \cup Attached(w)]
  /\ Go(w, "wait")
  /\ UNCHANGED <<trigger, producerVars, items, found, fresh>>

\* ... or up to the first that cannot be, which undoes it and returns an error.
AttachFails(w) ==
  /\ pc[w] = "idle"
  /\ "attach" \in Failing
  /\ \E some \in SUBSET WaitsFor[w] \ {WaitsFor[w]} :
       attached' = [attached EXCEPT ![w] = @ \cup Rollback(some)]
  /\ UNCHANGED <<trigger, producerVars, items, pc, found, fresh>>

\* The wait of zzdds returns what is active ...
Wake(w) ==
  /\ pc[w] = "wait"
  /\ attached[w] \cap Up # {}
  /\ found' = [found EXCEPT ![w] = attached[w] \cap Up]
  /\ Go(w, "detach")
  /\ UNCHANGED <<trigger, producerVars, items, attached, fresh>>

\* ... or nothing after a timeout ...
WakeAfterTimeout(w) ==
  /\ pc[w] = "wait"
  /\ attached[w] \cap Up = {}
  /\ "timeout" \in Failing
  /\ Go(w, "detach")
  /\ UNCHANGED <<trigger, producerVars, items, attached, found, fresh>>

\* ... or an error.
WaitFails(w) ==
  /\ pc[w] = "wait"
  /\ "wait" \in Failing
  /\ Go(w, "fail")
  /\ UNCHANGED <<trigger, producerVars, items, attached, found, fresh>>

\* Everything is detached, error or not.
Detach(w) ==
  /\ pc[w] \in {"detach", "fail"}
  /\ attached' = [attached EXCEPT ![w] = {}]
  /\ Go(w, IF pc[w] = "detach" THEN "reset" ELSE "idle")
  /\ UNCHANGED <<trigger, producerVars, items, found, fresh>>

\* (Slips: every guard condition that was waited for is reset; or none is.)
ResetAll(w) == WaitsFor[w] \cap Guards
ResetNone(w) == {}

\* The guard conditions that are reset: those found active.
ToReset(w) == found[w] \cap Guards

\* The rest of rmw_wait: entries that are not active become null, guard
\* conditions that are go back to false, and so the wait ends.
ResetAndReturn(w) ==
  /\ pc[w] = "reset"
  /\ trigger' = [g \in Guards |-> IF g \in ToReset(w) THEN FALSE ELSE trigger[g]]
  /\ fresh' = [fresh EXCEPT ![w] = @ \ found[w]]
  /\ Go(w, "work")
  /\ UNCHANGED <<producerVars, items, attached, found>>

\* A take that finds nothing, another waiter having been first, takes nothing.
TakeOne(n) == IF n > 0 THEN n - 1 ELSE 0

\* The application does the work behind what was reported: all that guard
\* conditions announce, one item of each level.
DoWork(w) ==
  /\ pc[w] = "work"
  /\ work' = work \ found[w]
  /\ items' = [c \in Levels |-> IF c \in found[w] THEN TakeOne(items[c]) ELSE items[c]]
  /\ found' = [found EXCEPT ![w] = {}]
  /\ Go(w, "idle")
  /\ UNCHANGED <<trigger, pushing, attached, fresh>>

-----------------------------------------------------------------------------

Init ==
  /\ trigger = [g \in Guards |-> FALSE]
  /\ work = {}
  /\ pushing = {}
  /\ items = [c \in Levels |-> 0]
  /\ pc = [w \in Waiters |-> "idle"]
  /\ attached = [w \in Waiters |-> {}]
  /\ found = [w \in Waiters |-> {}]
  /\ fresh = [w \in Waiters |-> {}]

WaiterStep(w) ==
  \/ Attach(w) \/ AttachFails(w)
  \/ Wake(w) \/ WakeAfterTimeout(w) \/ WaitFails(w)
  \/ Detach(w) \/ ResetAndReturn(w) \/ DoWork(w)

Next ==
  \/ \E g \in Guards : LeaveWork(g) \/ TriggerGuard(g)
  \/ \E c \in Levels : Raise(c)
  \/ \E w \in Waiters : WaiterStep(w)

Spec == Init /\ [][Next]_vars

\* Waiters wait again after every return, as an executor does, and a producer
\* that has left work triggers the guard condition.  zzdds may fail now and
\* then, not every time: a wait that is tried again and again succeeds.
FairSpec ==
  /\ Spec
  /\ \A w \in Waiters : WF_vars(WaiterStep(w)) /\ SF_vars(Attach(w)) /\ SF_vars(Wake(w))
  /\ \A g \in Guards : WF_vars(TriggerGuard(g))

-----------------------------------------------------------------------------
(* Correctness.                                                            *)

\* A wait set is empty between two calls of rmw_wait, whatever failed in the
\* first: a condition left attached would wake the second, which would not
\* report it, or be destroyed while attached.
NothingStaysAttached ==
  \A w \in Waiters : pc[w] \in {"idle", "reset", "work"} => attached[w] = {}

\* No signal is lost: work that was left is announced by a triggered guard
\* condition, by a trigger about to come or by a wait that has found it and
\* whose caller has not done the work yet.
WorkIsSignalled ==
  \A g \in work :
    \/ trigger[g]
    \/ g \in pushing
    \/ \E w \in Waiters : g \in found[w]

\* Guard conditions are one-shot: a waiter reports one only if it has been
\* triggered since the waiter reported it last.
OneShot ==
  \A w \in Waiters : pc[w] \in {"detach", "reset"} => found[w] \cap Guards \subseteq fresh[w]

\* Work that was left is eventually done.
WorkIsDone == \A g \in Guards : (g \in work) ~> (g \notin work)

\* What there is to take is eventually reported to a waiter, however often the
\* level has been reported before.
LevelsAreReported == \A c \in Levels : (items[c] > 0) ~> (\E w \in Waiters : c \in found[w])

=============================================================================
