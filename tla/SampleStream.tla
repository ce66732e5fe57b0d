----------------------------- MODULE SampleStream -----------------------------
(***************************************************************************)
(* What a subscription promises its callers, whichever of the take         *)
(* functions they use and however many of them at once.  A call takes out  *)
(* the sample that has waited longest.  A sample that has been taken out   *)
(* is handed over, or it is hidden because its publisher is one of the     *)
(* participant's own and those are ignored, or it carries no data, or it   *)
(* is lost and the call fails.  A call that comes back without having had  *)
(* a sample to see has left none behind.                                   *)
(***************************************************************************)
EXTENDS Naturals, Sequences

CONSTANTS
  Callers,     \* the threads
  Publishers,
  Own,         \* those of the same participant
  Ignoring     \* are samples of Own hidden?

VARIABLES
  waiting,   \* the samples that wait, oldest first
  inHand,    \* per caller, the sample its call has taken out, if any
  kept,      \* callers whose sample has been found to be theirs to see
  owned,     \* the publishers of the participant there are
  result     \* per caller: "pending" in a call, "returned" or "error" after it

stream == <<waiting, inHand, kept, owned, result>>

NoSample == <<>>

Init ==
  /\ waiting = <<>>
  /\ inHand = [c \in Callers |-> NoSample]
  /\ kept = {}
  /\ owned = {}
  /\ result = [c \in Callers |-> "returned"]

Come(c, what) == result' = [result EXCEPT ![c] = what]

\* A caller has seen that its call has failed.
Look(c) == result[c] = "error" /\ Come(c, "returned")

\* Publishers of the participant come and go, and callers go on.
Change ==
  /\ owned' \in SUBSET Own
  /\ UNCHANGED result \/ \E c \in Callers : Look(c)
  /\ UNCHANGED <<waiting, inHand, kept>>

Arrive(p, data) ==
  /\ waiting' = Append(waiting, [from |-> p, data |-> data])
  /\ UNCHANGED <<inHand, kept, owned, result>>

Call(c) ==
  /\ result[c] # "pending"
  /\ Come(c, "pending")
  /\ UNCHANGED <<waiting, inHand, kept, owned>>

\* The oldest waiting sample is taken out.
TakeOut(c) ==
  /\ result[c] = "pending"
  /\ inHand[c] = NoSample
  /\ waiting # <<>>
  /\ waiting' = Tail(waiting)
  /\ inHand' = [inHand EXCEPT ![c] = <<Head(waiting)>>]
  /\ UNCHANGED <<kept, owned, result>>

\* The sample in c's hand has its fate.
Settle(c) ==
  /\ inHand[c] # NoSample
  /\ inHand' = [inHand EXCEPT ![c] = NoSample]
  /\ kept' = kept \ {c}
  /\ UNCHANGED <<waiting, owned>>

Hide(c) ==
  /\ Ignoring
  /\ c \notin kept
  /\ Settle(c)
  /\ Head(inHand[c]).from \in Own
  /\ UNCHANGED result

\* A sample of a publisher the participant has, if those are ignored, is not
\* for any caller to see.
Keep(c) ==
  /\ inHand[c] # NoSample
  /\ ~(Ignoring /\ Head(inHand[c]).from \in owned)
  /\ kept' = kept \cup {c}
  /\ UNCHANGED <<waiting, inHand, owned, result>>

\* A call that takes several goes on after one.
Deliver(c) ==
  /\ c \in kept
  /\ Settle(c)
  /\ Head(inHand[c]).data
  /\ Come(c, "returned") \/ UNCHANGED result

Skip(c) ==
  /\ c \in kept
  /\ Settle(c)
  /\ ~Head(inHand[c]).data
  /\ Come(c, "returned")

Lose(c) == Settle(c) /\ Come(c, "error")

Nothing(c) ==
  /\ inHand[c] = NoSample
  /\ waiting = <<>>
  /\ Come(c, "returned")
  /\ UNCHANGED <<waiting, inHand, kept, owned>>

Fail(c) ==
  /\ inHand[c] = NoSample
  /\ Come(c, "error")
  /\ UNCHANGED <<waiting, inHand, kept, owned>>

Next ==
  \/ Change
  \/ \E p \in Publishers, data \in BOOLEAN : Arrive(p, data)
  \/ \E c \in Callers :
       \/ Call(c) \/ TakeOut(c) \/ Hide(c) \/ Keep(c) \/ Deliver(c)
       \/ Skip(c) \/ Lose(c) \/ Nothing(c) \/ Fail(c)

Spec == Init /\ [][Next]_stream
===============================================================================
