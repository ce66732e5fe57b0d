------------------------------- MODULE DataPath -------------------------------
(***************************************************************************)
(* The data path of one subscription and of the publishers whose samples   *)
(* it gets: rmw_take and its kin, publishing, and the loaned messages of   *)
(* both (rmw_data_plane.cpp).                                              *)
(*                                                                         *)
(* Threads of the application call these functions at the same time.  A    *)
(* call into zzdds is one action, and so is a critical section of the      *)
(* context's mutex; what a thread does to its own data in between belongs  *)
(* to the action before.  Messages stand for memory: one that is destroyed *)
(* may be created again.                                                   *)
(***************************************************************************)
EXTENDS Integers, Sequences, FiniteSets

CONSTANTS
  Threads,     \* the application's threads
  Own,         \* publishers of the subscription's context
  Remotes,     \* publishers of other participants
  Sub,         \* stands for the subscription
  Messages,    \* memory for messages that are lent
  Takes,       \* the take functions the application uses
  Ignoring,    \* impl->ignore_local_publications
  BatchSize,   \* the count given to rmw_take_sequence
  MaxWritten,  \* bound: samples, those without data included
  Failing,     \* what may fail: "take", "malformed", "return", "content",
                   \* "alloc", "record", "write"
  None         \* no message, no endpoint

TakeFunctions == {"take", "take_with_info", "serialized", "serialized_with_info",
                  "loan", "loan_with_info", "sequence"}

ASSUME DataPathConstants ==
  /\ IsFiniteSet(Threads)
  /\ Own \cap Remotes = {}
  /\ Sub \notin Own \cup Remotes
  /\ None \notin Messages \cup Own \cup Remotes \cup {Sub}
  /\ Takes \subseteq TakeFunctions
  /\ Ignoring \in BOOLEAN
  /\ BatchSize \in Nat \ {0}
  /\ MaxWritten \in Nat

Publishers == Own \cup Remotes
Lenders    == Own \cup {Sub}   \* the endpoints that lend messages

\* The outcomes of something that may fail.
Outcomes(what) == IF what \in Failing THEN {TRUE, FALSE} ELSE {TRUE}

VARIABLES
  open,        \* the endpoints the application has (remote ones: there are)
  registered,  \* context->local_publication_guids
  known,       \* zzdds: publications whose GUID the reader can tell
  flying,      \* zzdds: per publisher, samples written that have not arrived
  written,     \* samples so far
  samples,     \* the reader's history: samples not taken yet, oldest first
  raw,         \* raw loans zzdds has given out and not got back
  created,     \* messages that exist
  loaned,      \* per lender, impl->loaned_messages
  held,        \* per lender, the messages the application has from it
  pc,          \* where each thread is: "failed" after a call with an error
  frame        \* its locals (see NoFrame)

zzddsVars == <<known, flying, written>>
loanVars  == <<created, loaned, held>>
vars == <<open, registered, known, flying, written, samples, raw, created,
          loaned, held, pc, frame>>

\* The take function, the sample it has taken, the message it works on and
\* the endpoint that is (or was) its lender, and how many samples it may take.
NoFrame == [op |-> "none", sample |-> <<>>, message |-> None, lender |-> None, left |-> 0]

Idle(t) == pc[t] \in {"idle", "failed"}

Go(t, where) == pc' = [pc EXCEPT ![t] = where]

Return(t, how) ==
  /\ Go(t, how)
  /\ frame' = [frame EXCEPT ![t] = NoFrame]

\* The sample a thread has taken out: the publisher it comes from, and whether
\* it has data.
Sample(t) == Head(frame[t].sample)

Lends(op)     == op \in {"loan", "loan_with_info"}
WantsInfo(op) == op \in {"take_with_info", "serialized_with_info", "loan_with_info", "sequence"}

\* guid_from_publication: zzdds can tell the GUID of the publisher of t's sample.
KnowsPublisher(t) == Sample(t).from \in known

\* The functions that fail when the raw loan cannot be returned; the others
\* ignore it.
ChecksReturn(op) == op \in {"take", "loan", "loan_with_info"}

-----------------------------------------------------------------------------
(* Taking.                                                                 *)

\* The argument checks are passed; a function that lends creates its message
\* first.
BeginTake(t, op) ==
  /\ Idle(t)
  /\ Sub \in open
  /\ \/ /\ Lends(op)
        /\ "alloc" \in Failing
        /\ Return(t, "failed")
        /\ UNCHANGED created
     \/ \E m \in IF Lends(op) THEN Messages \ created ELSE {None} :
          /\ created' = created \cup ({m} \ {None})
          /\ Go(t, "take")
          /\ frame' = [frame EXCEPT ![t] =
                         [NoFrame EXCEPT !.op = op, !.message = m, !.lender = Sub,
                            !.left = IF op = "sequence" THEN BatchSize ELSE 1]]
  /\ UNCHANGED <<open, registered, zzddsVars, samples, raw, loaned, held>>

\* A take comes back without a sample; a message it has created and not lent
\* is destroyed.
ComeBack(t, how) ==
  /\ created' = created \ {frame[t].message}
  /\ Return(t, how)

\* What a call of take_raw leaves in the reader.
\* (Slip: everything; it has been read, not taken.)
LeftByRead(history) == history
LeftByTake(history) == Tail(history)

\* take_visible_sample, a call of take_raw that finds a sample.
TakeSample(t) ==
  /\ pc[t] = "take"
  /\ samples # <<>>
  /\ samples' = LeftByTake(samples)
  /\ frame' = [frame EXCEPT ![t].sample = <<Head(samples)>>]
  /\ raw' = raw + 1
  /\ Go(t, "lookup")
  /\ UNCHANGED <<open, registered, zzddsVars, loanVars>>

\* A call that finds none: the empty loan is returned.
TakeNothing(t) ==
  /\ pc[t] = "take"
  /\ samples = <<>>
  /\ \E ok \in Outcomes("return") : ComeBack(t, IF ok THEN "idle" ELSE "failed")
  /\ UNCHANGED <<open, registered, zzddsVars, samples, raw, loaned, held>>

\* A call that fails.
TakeFails(t) ==
  /\ pc[t] = "take"
  /\ "take" \in Failing
  /\ ComeBack(t, "failed")
  /\ UNCHANGED <<open, registered, zzddsVars, samples, raw, loaned, held>>

\* A call that gives something else than one sample, or is_local_publication,
\* if those are ignored: a publication zzdds cannot tell the GUID of counts as
\* another participant's.
LookUpPublisher(t) ==
  /\ pc[t] = "lookup"
  /\ \/ /\ "malformed" \in Failing
        /\ raw' = raw - 1
        /\ ComeBack(t, "failed")
     \/ /\ Go(t, IF Ignoring /\ KnowsPublisher(t) THEN "check" ELSE "read")
        /\ UNCHANGED <<raw, created, frame>>
  /\ UNCHANGED <<open, registered, zzddsVars, samples, loaned, held>>

\* A sample of one of this participant's publications is hidden: the loop goes
\* on.  (Slip: the take comes back without a sample.)
HideAndComeBack(t) == ComeBack(t, "idle")
Hide(t) ==
  /\ frame' = [frame EXCEPT ![t].sample = <<>>]
  /\ Go(t, "take")
  /\ UNCHANGED created

CheckPublisher(t) ==
  /\ pc[t] = "check"
  /\ IF Sample(t).from \in registered
     THEN raw' = raw - 1 /\ Hide(t)
     ELSE Go(t, "read") /\ UNCHANGED <<raw, created, frame>>
  /\ UNCHANGED <<open, registered, zzddsVars, samples, loaned, held>>

\* The sample is handed over; rmw_take_sequence goes on unless it has enough.
HandOver(t) ==
  IF frame[t].left > 1
  THEN /\ Go(t, "take")
       /\ frame' = [frame EXCEPT ![t].left = @ - 1, ![t].sample = <<>>]
  ELSE Return(t, "idle")

\* Decoding, resizing or copying, and the return of the raw loan where that
\* comes next.
ReadFails(op, data) ==
  \/ data /\ "content" \in Failing
  \/ ChecksReturn(op) /\ "return" \in Failing

\* Without data there is nothing to hand over: the take is quiet.
ReadSample(t) ==
  LET op == frame[t].op IN
  /\ pc[t] = "read"
  /\ \/ ReadFails(op, Sample(t).data) /\ raw' = raw - 1 /\ ComeBack(t, "failed")
     \/ ~Sample(t).data /\ raw' = raw - 1 /\ ComeBack(t, "idle")
     \/ /\ Sample(t).data
        /\ raw' = IF op = "serialized_with_info" THEN raw ELSE raw - 1
        /\ IF Lends(op) \/ WantsInfo(op)
           THEN Go(t, IF Lends(op) THEN "record" ELSE "info") /\ UNCHANGED frame
           ELSE HandOver(t)
        /\ UNCHANGED created
  /\ UNCHANGED <<open, registered, zzddsVars, samples, loaned, held>>

\* The message of t is lent to the application.
Lend(t) == held' = [held EXCEPT ![Sub] = @ \cup {frame[t].message}]

\* take_compatibility_loan: the loan is recorded under the mutex.
RecordLoan(t) ==
  /\ pc[t] = "record"
  /\ \/ /\ "record" \in Failing
        /\ ComeBack(t, "failed")
        /\ UNCHANGED <<loaned, held>>
     \/ /\ loaned' = [loaned EXCEPT ![Sub] = @ \cup {frame[t].message}]
        /\ IF WantsInfo(frame[t].op)
           THEN Go(t, "info") /\ UNCHANGED <<frame, held>>
           ELSE HandOver(t) /\ Lend(t)
        /\ UNCHANGED created
  /\ UNCHANGED <<open, registered, zzddsVars, samples, raw>>

\* A loan that cannot be completed is taken back in two steps.
\* (Slip: its record stays.)
TakeBackUnseen(t) == Go(t, "discard") /\ UNCHANGED <<created, frame>>
TakeBack(t)       == Go(t, "unrecord") /\ UNCHANGED <<created, frame>>

\* fill_message_info, which fails when zzdds cannot tell the publisher's GUID.
FillInfo(t) ==
  LET op == frame[t].op IN
  /\ pc[t] = "info"
  /\ raw' = IF op = "serialized_with_info" THEN raw - 1 ELSE raw
  /\ IF KnowsPublisher(t)
     THEN /\ HandOver(t)
          /\ IF Lends(op) THEN Lend(t) ELSE UNCHANGED held
          /\ UNCHANGED created
     ELSE /\ IF Lends(op) THEN TakeBack(t) ELSE ComeBack(t, "failed")
          /\ UNCHANGED held
  /\ UNCHANGED <<open, registered, zzddsVars, samples, loaned>>

UnrecordLoan(t) ==
  /\ pc[t] = "unrecord"
  /\ loaned' = [loaned EXCEPT ![Sub] = @ \ {frame[t].message}]
  /\ Go(t, "discard")
  /\ UNCHANGED <<open, registered, zzddsVars, samples, raw, created, held, frame>>

DiscardLoan(t) ==
  /\ pc[t] = "discard"
  /\ ComeBack(t, "failed")
  /\ UNCHANGED <<open, registered, zzddsVars, samples, raw, loaned, held>>

TakeStep(t) ==
  \/ TakeSample(t) \/ TakeNothing(t) \/ TakeFails(t)
  \/ LookUpPublisher(t) \/ CheckPublisher(t)
  \/ ReadSample(t) \/ RecordLoan(t) \/ FillInfo(t) \/ UnrecordLoan(t) \/ DiscardLoan(t)

-----------------------------------------------------------------------------
(* Publishing.                                                             *)

\* write_serialized: the sample goes on its way to the reader.
Write(p) ==
  /\ written < MaxWritten
  /\ written' = written + 1
  /\ flying' = [flying EXCEPT ![p] = @ + 1]
  /\ UNCHANGED known

\* rmw_publish and rmw_publish_serialized_message; a call that fails, to
\* serialize or to write, changes nothing.
Publish(p) ==
  /\ p \in open
  /\ Write(p)
  /\ UNCHANGED <<open, registered, samples, raw, loanVars, pc, frame>>

\* rmw_borrow_loaned_message: created, and recorded under the mutex; undone if
\* that fails.
Borrow(t, p) ==
  /\ Idle(t)
  /\ p \in open
  /\ \E m \in Messages \ created :
       /\ created' = created \cup {m}
       /\ loaned' = [loaned EXCEPT ![p] = @ \cup {m}]
       /\ held' = [held EXCEPT ![p] = @ \cup {m}]
  /\ UNCHANGED <<open, registered, zzddsVars, samples, raw, pc, frame>>

\* The first step of rmw_return_loaned_message_from_publisher or _subscription
\* and of rmw_publish_loaned_message (publishing): the message is no longer
\* lent.  A message the endpoint has not lent is rejected.
GiveBack(t, e, m, publishing) ==
  /\ Idle(t)
  /\ e \in open
  /\ m \in loaned[e] => m \in held[e]
  /\ publishing => e # Sub
  /\ IF m \in loaned[e]
     THEN /\ loaned' = [loaned EXCEPT ![e] = @ \ {m}]
          /\ held' = [held EXCEPT ![e] = @ \ {m}]
          /\ frame' = [frame EXCEPT ![t] = [NoFrame EXCEPT !.message = m, !.lender = e]]
          /\ Go(t, IF publishing THEN "write" ELSE "destroy")
     ELSE UNCHANGED <<loaned, held, frame, pc>>
  /\ UNCHANGED <<open, registered, zzddsVars, samples, raw, created>>

\* rmw_publish_loaned_message publishes the message; whether or not that
\* succeeds it is destroyed.
WriteLoan(t) ==
  /\ pc[t] = "write"
  /\ Go(t, "destroy")
  /\ \/ Write(frame[t].lender)
     \/ UNCHANGED zzddsVars /\ (written < MaxWritten => "write" \in Failing)
  /\ UNCHANGED <<open, registered, samples, raw, loanVars, frame>>

DestroyMessage(t) ==
  /\ pc[t] = "destroy"
  /\ created' = created \ {frame[t].message}
  /\ Return(t, "idle")
  /\ UNCHANGED <<open, registered, zzddsVars, samples, raw, loaned, held>>

-----------------------------------------------------------------------------
(* Endpoints come and go.                                                  *)

\* rmw_create_publisher records its GUID before the application has the
\* publisher.  The reader is matched with a publisher before it gets a sample.
OpenPublisher(p) ==
  /\ p \in Publishers \ (open \cup known)
  /\ flying[p] = 0
  /\ open' = open \cup {p}
  /\ registered' = IF p \in Own THEN registered \cup {p} ELSE registered
  /\ known' = known \cup {p}
  /\ UNCHANGED <<flying, written, samples, raw, loanVars, pc, frame>>

\* The application destroys an endpoint when no thread works with it; what it
\* has borrowed from it is gone then.  A publisher is no longer one of this
\* participant's.
CloseEndpoint(t, e) ==
  /\ Idle(t)
  /\ e \in open \ Remotes
  /\ \A u \in Threads : frame[u].lender # e
  /\ open' = open \ {e}
  /\ registered' = registered \ {e}
  /\ held' = [held EXCEPT ![e] = {}]
  /\ frame' = [frame EXCEPT ![t] = [NoFrame EXCEPT !.lender = e]]
  /\ Go(t, "walk")
  /\ UNCHANGED <<zzddsVars, samples, raw, created, loaned>>

\* Every message still lent is destroyed.
WalkLoans(t) ==
  LET e == frame[t].lender IN
  /\ pc[t] = "walk"
  /\ created' = created \ loaned[e]
  /\ loaned' = [loaned EXCEPT ![e] = {}]
  /\ Return(t, "idle")
  /\ UNCHANGED <<open, registered, zzddsVars, samples, raw, held>>

RemoteLeaves(r) ==
  /\ r \in open \cap Remotes
  /\ open' = open \ {r}
  /\ UNCHANGED <<registered, zzddsVars, samples, raw, loanVars, pc, frame>>

-----------------------------------------------------------------------------
(* zzdds.                                                                  *)

Receive(p, data) == samples' = Append(samples, [from |-> p, data |-> data])

\* A sample arrives.
Arrive(p) ==
  /\ flying[p] > 0
  /\ p \in known
  /\ Sub \in open
  /\ flying' = [flying EXCEPT ![p] = @ - 1]
  /\ Receive(p, TRUE)
  /\ UNCHANGED <<open, registered, known, written, raw, loanVars, pc, frame>>

\* The reader loses a publisher that has gone and with it, perhaps, what was on
\* its way; it may say so with a sample that has no data.
Unmatch(p) ==
  /\ p \in known \ open
  /\ \A t \in Threads : pc[t] = "walk" => frame[t].lender # p
  /\ known' = known \ {p}
  /\ flying' = [flying EXCEPT ![p] = 0]
  /\ \/ UNCHANGED <<samples, written>>
     \/ /\ Sub \in open
        /\ written < MaxWritten
        /\ Receive(p, FALSE)
        /\ written' = written + 1
  /\ UNCHANGED <<open, registered, raw, loanVars, pc, frame>>

-----------------------------------------------------------------------------

Init ==
  /\ open = {Sub}
  /\ registered = {}
  /\ known = {}
  /\ flying = [p \in Publishers |-> 0]
  /\ written = 0
  /\ samples = <<>>
  /\ raw = 0
  /\ created = {}
  /\ loaned = [e \in Lenders |-> {}]
  /\ held = [e \in Lenders |-> {}]
  /\ pc = [t \in Threads |-> "idle"]
  /\ frame = [t \in Threads |-> NoFrame]

Step(t) == TakeStep(t) \/ WriteLoan(t) \/ DestroyMessage(t) \/ WalkLoans(t)

Call(t) ==
  \/ \E op \in Takes : BeginTake(t, op)
  \/ \E p \in Own : Borrow(t, p)
  \/ \E e \in Lenders, m \in Messages, publishing \in BOOLEAN : GiveBack(t, e, m, publishing)
  \/ \E e \in Lenders : CloseEndpoint(t, e)

Next ==
  \/ \E t \in Threads : Call(t) \/ Step(t)
  \/ \E p \in Publishers : OpenPublisher(p) \/ Publish(p) \/ Arrive(p) \/ Unmatch(p)
  \/ \E r \in Remotes : RemoteLeaves(r)

Spec == Init /\ [][Next]_vars

\* A call that has begun runs on; the application takes again and again while
\* it has the subscription, and zzdds gives a sample in the end.
FairSpec ==
  /\ Spec
  /\ \A t \in Threads : WF_vars(Step(t)) /\ SF_vars(BeginTake(t, "take")) /\ SF_vars(TakeSample(t))

-----------------------------------------------------------------------------
(* Correctness.                                                            *)

Stream ==
  INSTANCE SampleStream WITH
    Callers <- Threads,
    waiting <- samples,
    inHand  <- [t \in Threads |-> frame[t].sample],
    kept    <- {t \in Threads : pc[t] \in {"read", "record", "info", "unrecord", "discard"}},
    owned   <- open \cap Own,
    result  <- [t \in Threads |->
                  CASE pc[t] = "failed" -> "error"
                    [] pc[t] \in {"idle", "write", "destroy", "walk"} -> "returned"
                    [] OTHER -> "pending"]

\* Every sample has the fate the stream promises, whichever functions take at
\* once: none is delivered twice, lost without an error, hidden from a caller
\* it is for, or shown although its publisher is one of this participant's,
\* and a take that comes back without a sample has left none behind, unless the
\* one it took carries no data.
DeliversStream == Stream!Spec

\* The message a thread has created or taken back, and has not lent.
InHand(t) ==
  IF frame[t].message = None \/ pc[t] \in {"info", "unrecord"} THEN {} ELSE {frame[t].message}

\* Every message that exists is lent by one endpoint or in the hands of one
\* thread, so each is destroyed once, by the call or the destruction that
\* should, although memory is used again; and what the application holds is
\* lent.  No raw loan is kept: there is one per sample being read.
LoansAccounted ==
  /\ created = (UNION {loaned[e] : e \in Lenders}) \cup (UNION {InHand(t) : t \in Threads})
  /\ \A e, f \in Lenders : e # f => loaned[e] \cap loaned[f] = {}
  /\ \A e \in Lenders : held[e] \subseteq loaned[e]
  /\ \A e \in Lenders, t \in Threads : loaned[e] \cap InHand(t) = {}
  /\ \A t, u \in Threads : t # u => InHand(t) \cap InHand(u) = {}
  /\ raw = Cardinality({t \in Threads : \/ pc[t] \in {"lookup", "check", "read"}
                                        \/ pc[t] = "info" /\ frame[t].op = "serialized_with_info"})

\* A sample that has arrived is taken out, however many of this participant's
\* own are hidden on the way to it, unless the subscription is destroyed first.
SamplesAreTaken == samples # <<>> ~> (samples = <<>> \/ Sub \notin open)
===============================================================================
