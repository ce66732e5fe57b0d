---------------------------- MODULE DataPath_proof ----------------------------
(***************************************************************************)
(* Proofs about DataPath, for any number of threads, publishers and        *)
(* messages, whichever take functions are used and whatever fails: the     *)
(* memory of loans is accounted for, and a subscription keeps the promises *)
(* of SampleStream.  And about the conversions of QoS policies and of      *)
(* serialized messages, for all of them.                                   *)
(***************************************************************************)
EXTENDS DataPath, Conversions, FiniteSetTheorems, TLAPS

\* Where a thread is inside a take function, and where its message, if there is
\* one, is recorded as a loan and not lent yet.
Seeing     == {"lookup", "check", "read", "record", "info", "unrecord", "discard"}
Taking     == Seeing \cup {"take"}
Recorded   == {"info", "unrecord"}
GivingBack == {"write", "destroy"}
Places     == Taking \cup GivingBack \cup {"idle", "failed", "walk"}

Samples == [from : Publishers, data : BOOLEAN]

Frames ==
  [op : TakeFunctions \cup {"none"}, sample : {<<>>} \cup {<<s>> : s \in Samples},
   message : Messages \cup {None}, lender : Lenders \cup {None}, left : Nat]

\* Every variable has its type.
TypeOK ==
  /\ open \in SUBSET (Publishers \cup {Sub})
  /\ registered \in SUBSET Own
  /\ known \in SUBSET Publishers
  /\ flying \in [Publishers -> Nat]
  /\ written \in Nat
  /\ samples \in Seq(Samples)
  /\ raw \in Int
  /\ created \in SUBSET Messages
  /\ loaned \in [Lenders -> SUBSET Messages]
  /\ held \in [Lenders -> SUBSET Messages]
  /\ pc \in [Threads -> Places]
  /\ frame \in [Threads -> Frames]

\* zzdds knows every publication there is, and those of this participant are
\* registered.
EndpointsAreKnown == open \ {Sub} \subseteq known /\ open \cap Own \subseteq registered

\* The locals of a thread by where it is.
FrameFits(t) ==
  /\ pc[t] \in Seeing <=> frame[t].sample # <<>>
  /\ pc[t] \in {"idle", "failed", "walk"} => frame[t].message = None
  /\ pc[t] \in {"idle", "failed"} => frame[t].lender = None
  /\ pc[t] \in Taking =>
       /\ frame[t].lender = Sub
       /\ Lends(frame[t].op) <=> frame[t].message # None
       /\ Lends(frame[t].op) => frame[t].left = 1
  /\ pc[t] \in GivingBack => frame[t].message # None /\ frame[t].lender # None
  /\ pc[t] = "write" => frame[t].lender # Sub
  /\ pc[t] = "walk" => frame[t].lender # None
  /\ pc[t] \in {"record", "unrecord", "discard"} => Lends(frame[t].op)
  /\ pc[t] \in {"record", "info", "unrecord", "discard"} => Sample(t).data
  /\ pc[t] = "check" => Ignoring

FramesFit == \A t \in Threads : FrameFits(t)

\* An endpoint is destroyed by one thread, which finds nobody working with it.
DestroyedAlone ==
  \A t \in Threads : pc[t] = "walk" =>
    /\ frame[t].lender \notin open
    /\ held[frame[t].lender] = {}
    /\ frame[t].lender # Sub => frame[t].lender \in known
    /\ \A u \in Threads : u # t => frame[u].lender # frame[t].lender

\* The message whose loan thread t has recorded and not handed over yet.
Told(t) == IF pc[t] \in Recorded THEN {frame[t].message} \ {None} ELSE {}

\* Who has which message: the first five parts of LoansAccounted, and what a
\* thread has recorded for itself nobody else gives back.
MessagesAccounted ==
  /\ \A m \in Messages :
       m \in created <=> \/ \E e \in Lenders : m \in loaned[e]
                         \/ \E t \in Threads : m \in InHand(t)
  /\ \A e, f \in Lenders : e # f => loaned[e] \cap loaned[f] = {}
  /\ \A e \in Lenders : held[e] \subseteq loaned[e]
  /\ \A e \in Lenders, t \in Threads : loaned[e] \cap InHand(t) = {}
  /\ \A t, u \in Threads : t # u => InHand(t) \cap InHand(u) = {}
  /\ \A t \in Threads : Told(t) \subseteq loaned[Sub] \ held[Sub]
  /\ \A t, u \in Threads : t # u => Told(t) \cap Told(u) = {}

\* The threads whose take has a raw loan.
HoldsRaw(t) ==
  \/ pc[t] \in {"lookup", "check", "read"}
  \/ pc[t] = "info" /\ frame[t].op = "serialized_with_info"

RawAccounted == raw = Cardinality({t \in Threads : HoldsRaw(t)})

\* The inductive invariant.
IInv ==
  /\ TypeOK
  /\ EndpointsAreKnown
  /\ FramesFit
  /\ DestroyedAlone
  /\ MessagesAccounted
  /\ RawAccounted

\* A step of thread t leaves what the other threads do alone.
OnlyMoves(t) == \A u \in Threads \ {t} : pc'[u] = pc[u] /\ frame'[u] = frame[u]

-----------------------------------------------------------------------------
(* Locals.                                                                 *)

\* The locals a call begins with, and what becomes of them, have their type.
LEMMA FrameTypes ==
  /\ NoFrame \in Frames
  /\ \A f \in Frames : [f EXCEPT !.sample = <<>>] \in Frames
  /\ \A f \in Frames : f.left > 1 => [[f EXCEPT !.left = f.left - 1] EXCEPT !.sample = <<>>] \in Frames
  /\ \A f \in Frames, s \in Samples : [f EXCEPT !.sample = <<s>>] \in Frames
<1>1. NoFrame \in Frames
  BY DEF NoFrame, Frames
<1>2. ASSUME NEW f \in Frames
      PROVE  [f EXCEPT !.sample = <<>>] \in Frames
  BY DEF Frames
<1>3. ASSUME NEW f \in Frames, f.left > 1
      PROVE  [[f EXCEPT !.left = f.left - 1] EXCEPT !.sample = <<>>] \in Frames
  <2>1. f.left \in Nat
    BY DEF Frames
  <2>2. f.left - 1 \in Nat
    BY <1>3, <2>1
  <2>3. [f EXCEPT !.left = f.left - 1] \in Frames
    BY <2>2 DEF Frames
  <2> QED
    BY <1>2, <2>3
<1>4. ASSUME NEW f \in Frames, NEW s \in Samples
      PROVE  [f EXCEPT !.sample = <<s>>] \in Frames
  BY DEF Frames
<1> QED
  BY <1>1, <1>2, <1>3, <1>4

\* A thread that has a sample has one of some publisher.
LEMMA SampleTyped ==
  ASSUME TypeOK, NEW t \in Threads, frame[t].sample # <<>>
  PROVE  /\ Sample(t) \in Samples
         /\ Sample(t).from \in Publishers /\ Sample(t).data \in BOOLEAN
         /\ frame[t].sample = <<Sample(t)>>
<1>1. frame[t].sample \in {<<>>} \cup {<<s>> : s \in Samples}
  BY DEF TypeOK, Frames
<1>2. PICK s \in Samples : frame[t].sample = <<s>>
  BY <1>1
<1>3. Sample(t) = s
  BY <1>2 DEF Sample
<1> QED
  BY <1>2, <1>3 DEF Samples

-----------------------------------------------------------------------------
(* Who has which message.                                                  *)

\* A thread has no message of another's, and none that is lent.
LEMMA HandsTyped ==
  ASSUME TypeOK, NEW t \in Threads
  PROVE  InHand(t) \in SUBSET Messages /\ Told(t) \in SUBSET Messages
  BY DEF TypeOK, Frames, InHand, Told

\* Where a thread passes on nothing, nothing changes hands.
LEMMA HandsKept ==
  ASSUME MessagesAccounted, UNCHANGED loanVars,
         \A u \in Threads : InHand(u)' = InHand(u) /\ Told(u)' = Told(u)
  PROVE  MessagesAccounted'
  BY DEF MessagesAccounted, loanVars

\* The message in a thread's hand is destroyed; no other is touched.
LEMMA MessageDestroyed ==
  ASSUME TypeOK, MessagesAccounted, NEW t \in Threads,
         \A u \in Threads \ {t} : InHand(u)' = InHand(u) /\ Told(u)' = Told(u),
         InHand(t)' = {} /\ Told(t)' = {},
         created' = created \ InHand(t),
         UNCHANGED <<loaned, held>>
  PROVE  MessagesAccounted'
<1>1. \A x \in Messages :
        x \in created' <=> \/ \E e \in Lenders : x \in loaned'[e]
                           \/ \E u \in Threads : x \in InHand(u)'
  BY DEF MessagesAccounted
<1> QED
  BY <1>1 DEF MessagesAccounted

\* A message is created in the hand of a thread that had none.
LEMMA MessageCreated ==
  ASSUME TypeOK, MessagesAccounted, NEW t \in Threads, NEW m \in Messages \ created,
         \A u \in Threads \ {t} : InHand(u)' = InHand(u) /\ Told(u)' = Told(u),
         InHand(t) = {} /\ InHand(t)' = {m} /\ Told(t)' = {},
         created' = created \cup {m},
         UNCHANGED <<loaned, held>>
  PROVE  MessagesAccounted'
<1>1. \A x \in Messages :
        x \in created' <=> \/ \E e \in Lenders : x \in loaned'[e]
                           \/ \E u \in Threads : x \in InHand(u)'
  BY DEF MessagesAccounted
<1>2. /\ \A e \in Lenders : m \notin loaned[e]
      /\ \A u \in Threads : m \notin InHand(u)
  BY DEF MessagesAccounted
<1> QED
  BY <1>1, <1>2 DEF MessagesAccounted

\* A message in hand is recorded as a loan of the subscription; the thread keeps
\* it to itself or lends it at once.
LEMMA MessageRecorded ==
  ASSUME TypeOK, MessagesAccounted, NEW t \in Threads, NEW m \in Messages,
         \A u \in Threads \ {t} : InHand(u)' = InHand(u) /\ Told(u)' = Told(u),
         InHand(t) = {m} /\ InHand(t)' = {},
         loaned' = [loaned EXCEPT ![Sub] = @ \cup {m}],
         \/ Told(t)' = {m} /\ held' = held
         \/ Told(t)' = {} /\ held' = [held EXCEPT ![Sub] = @ \cup {m}],
         created' = created
  PROVE  MessagesAccounted'
<1>0. Sub \in Lenders
  BY DEF Lenders
<1>1. /\ \A e \in Lenders : m \notin loaned[e] /\ m \notin held[e]
      /\ \A u \in Threads \ {t} : m \notin InHand(u)
      /\ \A u \in Threads : m \notin Told(u)
  BY <1>0 DEF MessagesAccounted
<1>2. /\ loaned'[Sub] = loaned[Sub] \cup {m}
      /\ \A e \in Lenders \ {Sub} : loaned'[e] = loaned[e] /\ held'[e] = held[e]
      /\ \/ Told(t)' = {m} /\ held'[Sub] = held[Sub]
         \/ Told(t)' = {} /\ held'[Sub] = held[Sub] \cup {m}
  BY <1>0 DEF TypeOK
<1>3. \A x \in Messages :
        x \in created' <=> \/ \E e \in Lenders : x \in loaned'[e]
                           \/ \E u \in Threads : x \in InHand(u)'
  BY <1>0, <1>1, <1>2 DEF MessagesAccounted
<1>4. \A e, f \in Lenders : e # f => loaned'[e] \cap loaned'[f] = {}
  BY <1>1, <1>2 DEF MessagesAccounted
<1>5. \A e \in Lenders : held'[e] \subseteq loaned'[e]
  BY <1>2 DEF MessagesAccounted
<1>6. \A e \in Lenders, u \in Threads : loaned'[e] \cap InHand(u)' = {}
  BY <1>1, <1>2 DEF MessagesAccounted
<1>7. \A u, v \in Threads : u # v => InHand(u)' \cap InHand(v)' = {}
  BY DEF MessagesAccounted
<1>8. \A u \in Threads : Told(u)' \subseteq loaned'[Sub] \ held'[Sub]
  <2>1. Told(t)' \subseteq loaned'[Sub] \ held'[Sub]
    BY <1>0, <1>1, <1>2
  <2>2. ASSUME NEW u \in Threads \ {t}
        PROVE  Told(u)' \subseteq loaned'[Sub] \ held'[Sub]
    <3>1. Told(u)' = Told(u) /\ Told(u) \subseteq loaned[Sub] \ held[Sub] /\ m \notin Told(u)
      BY <1>1 DEF MessagesAccounted
    <3> QED
      BY <1>2, <3>1
  <2> QED
    BY <2>1, <2>2
<1>9. \A u, v \in Threads : u # v => Told(u)' \cap Told(v)' = {}
  BY <1>1 DEF MessagesAccounted
<1> QED
  BY <1>3, <1>4, <1>5, <1>6, <1>7, <1>8, <1>9 DEF MessagesAccounted

\* A message that was recorded is lent to the application, or taken back in hand.
LEMMA MessageTold ==
  ASSUME TypeOK, MessagesAccounted, NEW t \in Threads, NEW m \in Messages,
         \A u \in Threads \ {t} : InHand(u)' = InHand(u) /\ Told(u)' = Told(u),
         InHand(t) = {} /\ Told(t) = {m} /\ Told(t)' = {},
         \/ /\ InHand(t)' = {} /\ loaned' = loaned
            /\ held' = [held EXCEPT ![Sub] = @ \cup {m}]
         \/ /\ InHand(t)' = {m} /\ held' = held
            /\ loaned' = [loaned EXCEPT ![Sub] = @ \ {m}],
         created' = created
  PROVE  MessagesAccounted'
<1>0. Sub \in Lenders
  BY DEF Lenders
<1>1. /\ m \in loaned[Sub] /\ m \notin held[Sub]
      /\ \A e \in Lenders \ {Sub} : m \notin loaned[e]
      /\ \A u \in Threads : m \notin InHand(u)
      /\ \A u \in Threads \ {t} : m \notin Told(u)
  BY <1>0 DEF MessagesAccounted
<1>2. /\ \A e \in Lenders \ {Sub} : loaned'[e] = loaned[e] /\ held'[e] = held[e]
      /\ \/ /\ InHand(t)' = {} /\ loaned'[Sub] = loaned[Sub]
            /\ held'[Sub] = held[Sub] \cup {m}
         \/ /\ InHand(t)' = {m} /\ held'[Sub] = held[Sub]
            /\ loaned'[Sub] = loaned[Sub] \ {m}
  BY <1>0 DEF TypeOK
<1>3. \A x \in Messages :
        x \in created' <=> \/ \E e \in Lenders : x \in loaned'[e]
                           \/ \E u \in Threads : x \in InHand(u)'
  BY <1>0, <1>1, <1>2 DEF MessagesAccounted
<1>4. \A e, f \in Lenders : e # f => loaned'[e] \cap loaned'[f] = {}
  BY <1>2 DEF MessagesAccounted
<1>5. \A e \in Lenders : held'[e] \subseteq loaned'[e]
  BY <1>0, <1>1, <1>2 DEF MessagesAccounted
<1>6. \A e \in Lenders, u \in Threads : loaned'[e] \cap InHand(u)' = {}
  BY <1>0, <1>1, <1>2 DEF MessagesAccounted
<1>7. \A u, v \in Threads : u # v => InHand(u)' \cap InHand(v)' = {}
  BY <1>1, <1>2 DEF MessagesAccounted
<1>8. \A u \in Threads : Told(u)' \subseteq loaned'[Sub] \ held'[Sub]
  BY <1>1, <1>2 DEF MessagesAccounted
<1>9. \A u, v \in Threads : u # v => Told(u)' \cap Told(v)' = {}
  BY DEF MessagesAccounted
<1> QED
  BY <1>3, <1>4, <1>5, <1>6, <1>7, <1>8, <1>9 DEF MessagesAccounted

\* A message is created and lent by an endpoint in one step.
LEMMA MessageBorrowed ==
  ASSUME TypeOK, MessagesAccounted, NEW e \in Lenders, NEW m \in Messages \ created,
         \A u \in Threads : InHand(u)' = InHand(u) /\ Told(u)' = Told(u),
         created' = created \cup {m},
         loaned' = [loaned EXCEPT ![e] = @ \cup {m}],
         held' = [held EXCEPT ![e] = @ \cup {m}]
  PROVE  MessagesAccounted'
<1>0. Sub \in Lenders
  BY DEF Lenders
<1>1. /\ \A f \in Lenders : m \notin loaned[f] /\ m \notin held[f]
      /\ \A u \in Threads : m \notin InHand(u) /\ m \notin Told(u)
  BY <1>0 DEF MessagesAccounted
<1>2. /\ loaned'[e] = loaned[e] \cup {m} /\ held'[e] = held[e] \cup {m}
      /\ \A f \in Lenders \ {e} : loaned'[f] = loaned[f] /\ held'[f] = held[f]
  BY DEF TypeOK
<1>3. \A x \in Messages :
        x \in created' <=> \/ \E f \in Lenders : x \in loaned'[f]
                           \/ \E u \in Threads : x \in InHand(u)'
  BY <1>2 DEF MessagesAccounted
<1>4. \A f, g \in Lenders : f # g => loaned'[f] \cap loaned'[g] = {}
  BY <1>1, <1>2 DEF MessagesAccounted
<1>5. \A f \in Lenders : held'[f] \subseteq loaned'[f]
  BY <1>2 DEF MessagesAccounted
<1>6. \A f \in Lenders, u \in Threads : loaned'[f] \cap InHand(u)' = {}
  BY <1>1, <1>2 DEF MessagesAccounted
<1>7. \A u \in Threads : Told(u)' \subseteq loaned'[Sub] \ held'[Sub]
  <2>1. ASSUME NEW u \in Threads
        PROVE  Told(u)' \subseteq loaned'[Sub] \ held'[Sub]
    <3>1. Told(u)' = Told(u) /\ Told(u) \subseteq loaned[Sub] \ held[Sub] /\ m \notin Told(u)
      BY <1>1 DEF MessagesAccounted
    <3> QED
      BY <1>0, <1>2, <3>1
  <2> QED
    BY <2>1
<1> QED
  BY <1>3, <1>4, <1>5, <1>6, <1>7 DEF MessagesAccounted

\* A message the application holds is taken back in hand by a thread that had
\* none.
LEMMA MessageGivenBack ==
  ASSUME TypeOK, MessagesAccounted, NEW t \in Threads, NEW e \in Lenders, NEW m \in held[e],
         \A u \in Threads \ {t} : InHand(u)' = InHand(u) /\ Told(u)' = Told(u),
         InHand(t) = {} /\ InHand(t)' = {m} /\ Told(t)' = {},
         created' = created,
         loaned' = [loaned EXCEPT ![e] = @ \ {m}],
         held' = [held EXCEPT ![e] = @ \ {m}]
  PROVE  MessagesAccounted'
<1>0. Sub \in Lenders
  BY DEF Lenders
<1>1. /\ m \in loaned[e]
      /\ \A f \in Lenders \ {e} : m \notin loaned[f] /\ m \notin held[f]
      /\ \A u \in Threads : m \notin InHand(u) /\ m \notin Told(u)
  BY <1>0 DEF MessagesAccounted
<1>2. /\ loaned'[e] = loaned[e] \ {m} /\ held'[e] = held[e] \ {m}
      /\ \A f \in Lenders \ {e} : loaned'[f] = loaned[f] /\ held'[f] = held[f]
  BY DEF TypeOK
<1>3. \A x \in Messages :
        x \in created' <=> \/ \E f \in Lenders : x \in loaned'[f]
                           \/ \E u \in Threads : x \in InHand(u)'
  BY <1>1, <1>2 DEF MessagesAccounted
<1>4. \A f, g \in Lenders : f # g => loaned'[f] \cap loaned'[g] = {}
  BY <1>2 DEF MessagesAccounted
<1>5. \A f \in Lenders : held'[f] \subseteq loaned'[f]
  BY <1>2 DEF MessagesAccounted
<1>6. \A f \in Lenders, u \in Threads : loaned'[f] \cap InHand(u)' = {}
  BY <1>1, <1>2 DEF MessagesAccounted
<1>7. \A u, v \in Threads : u # v => InHand(u)' \cap InHand(v)' = {}
  BY <1>1 DEF MessagesAccounted
<1>8. \A u \in Threads : Told(u)' \subseteq loaned'[Sub] \ held'[Sub]
  <2>1. ASSUME NEW u \in Threads \ {t}
        PROVE  Told(u)' \subseteq loaned'[Sub] \ held'[Sub]
    <3>1. Told(u)' = Told(u) /\ Told(u) \subseteq loaned[Sub] \ held[Sub] /\ m \notin Told(u)
      BY <1>1 DEF MessagesAccounted
    <3> QED
      BY <1>0, <1>2, <3>1
  <2> QED
    BY <2>1
<1>9. \A u, v \in Threads : u # v => Told(u)' \cap Told(v)' = {}
  BY DEF MessagesAccounted
<1> QED
  BY <1>3, <1>4, <1>5, <1>6, <1>7, <1>8, <1>9 DEF MessagesAccounted

\* The application gives up what it holds from an endpoint.
LEMMA MessagesGivenUp ==
  ASSUME TypeOK, MessagesAccounted, NEW e \in Lenders,
         \A u \in Threads : InHand(u)' = InHand(u) /\ Told(u)' = Told(u),
         created' = created, loaned' = loaned,
         held' = [held EXCEPT ![e] = {}]
  PROVE  MessagesAccounted'
<1>1. \A f \in Lenders : held'[f] \subseteq held[f]
  BY DEF TypeOK
<1>2. Sub \in Lenders
  BY DEF Lenders
<1> QED
  BY <1>1, <1>2 DEF MessagesAccounted

\* Every loan of an endpoint is destroyed, when the application holds none of
\* them and no thread is about to lend one.
LEMMA LoansDestroyed ==
  ASSUME TypeOK, MessagesAccounted, NEW e \in Lenders,
         \A u \in Threads : InHand(u)' = InHand(u) /\ Told(u)' = Told(u),
         created' = created \ loaned[e],
         loaned' = [loaned EXCEPT ![e] = {}],
         held' = held,
         held[e] = {},
         e = Sub => \A u \in Threads : Told(u) = {}
  PROVE  MessagesAccounted'
<1>0. Sub \in Lenders
  BY DEF Lenders
<1>1. loaned'[e] = {} /\ \A f \in Lenders \ {e} : loaned'[f] = loaned[f]
  BY DEF TypeOK
<1>2. \A x \in Messages :
        x \in created' <=> \/ \E f \in Lenders : x \in loaned'[f]
                           \/ \E u \in Threads : x \in InHand(u)'
  BY <1>1 DEF MessagesAccounted
<1>3. \A f \in Lenders : held'[f] \subseteq loaned'[f]
  BY <1>1 DEF MessagesAccounted
<1>4. \A u \in Threads : Told(u)' \subseteq loaned'[Sub] \ held'[Sub]
  BY <1>0, <1>1 DEF MessagesAccounted
<1> QED
  BY <1>1, <1>2, <1>3, <1>4 DEF MessagesAccounted

-----------------------------------------------------------------------------
(* What the steps have in common.                                          *)

\* The raw loans are counted by the threads that have one.
LEMMA RawMoves ==
  ASSUME TypeOK, RawAccounted, NEW t \in Threads, OnlyMoves(t),
         raw' = raw + (IF HoldsRaw(t)' THEN 1 ELSE 0) - (IF HoldsRaw(t) THEN 1 ELSE 0)
  PROVE  RawAccounted'
<1> DEFINE R == {u \in Threads : HoldsRaw(u)}
           S == {u \in Threads : HoldsRaw(u)'}
<1>1. IsFiniteSet(R) /\ Cardinality(R) \in Nat
  BY FS_Subset, FS_CardinalityType, DataPathConstants
<1>2. \A u \in Threads \ {t} : HoldsRaw(u)' <=> HoldsRaw(u)
  BY DEF OnlyMoves, HoldsRaw
<1>3. CASE HoldsRaw(t) <=> HoldsRaw(t)'
  <2>1. S = R
    BY <1>2, <1>3
  <2>2. raw' = raw
    BY <1>3 DEF TypeOK
  <2> QED
    BY <2>1, <2>2 DEF RawAccounted
<1>4. CASE HoldsRaw(t)' /\ ~HoldsRaw(t)
  <2>1. S = R \cup {t} /\ t \notin R
    BY <1>2, <1>4
  <2>2. Cardinality(S) = Cardinality(R) + 1
    BY <1>1, <2>1, FS_AddElement
  <2> QED
    BY <1>4, <2>2 DEF TypeOK, RawAccounted
<1>5. CASE ~HoldsRaw(t)' /\ HoldsRaw(t)
  <2>1. S = R \ {t} /\ t \in R
    BY <1>2, <1>5
  <2>2. Cardinality(S) = Cardinality(R) - 1
    BY <1>1, <2>1, FS_RemoveElement
  <2> QED
    BY <1>1, <1>5, <2>2 DEF TypeOK, RawAccounted
<1> QED
  BY <1>3, <1>4, <1>5

\* What a step of one thread owes to the invariant.
LEMMA ThreadStep ==
  ASSUME IInv, NEW t \in Threads, OnlyMoves(t),
         UNCHANGED <<open, registered, known>>,
         TypeOK',
         FrameFits(t)',
         pc'[t] # "walk",
         frame'[t].lender \in {frame[t].lender, None} \cup open,
         \A e \in Lenders : held'[e] # held[e] => e \in open \/ e = frame[t].lender,
         MessagesAccounted',
         raw' = raw + (IF HoldsRaw(t)' THEN 1 ELSE 0) - (IF HoldsRaw(t) THEN 1 ELSE 0)
  PROVE  IInv'
<1>1. EndpointsAreKnown'
  BY DEF IInv, EndpointsAreKnown
<1>2. FramesFit'
  BY DEF IInv, FramesFit, FrameFits, OnlyMoves, Sample
<1>3. DestroyedAlone'
  <2> SUFFICES ASSUME NEW u \in Threads, pc'[u] = "walk"
               PROVE  /\ frame'[u].lender \notin open'
                      /\ held'[frame'[u].lender] = {}
                      /\ frame'[u].lender # Sub => frame'[u].lender \in known'
                      /\ \A v \in Threads : v # u => frame'[v].lender # frame'[u].lender
    BY DEF DestroyedAlone
  <2>1. u # t /\ pc[u] = "walk" /\ frame'[u] = frame[u]
    BY DEF OnlyMoves
  <2>2. /\ frame[u].lender \notin open /\ held[frame[u].lender] = {}
        /\ frame[u].lender # Sub => frame[u].lender \in known
        /\ \A v \in Threads : v # u => frame[v].lender # frame[u].lender
    BY <2>1 DEF IInv, DestroyedAlone
  <2>3. frame[u].lender \in Lenders /\ frame[u].lender # None
    BY <2>1 DEF IInv, TypeOK, Frames, FramesFit, FrameFits
  <2>4. held'[frame[u].lender] = {}
    BY <2>1, <2>2, <2>3
  <2>5. \A v \in Threads : v # u => frame'[v].lender # frame'[u].lender
    BY <2>1, <2>2, <2>3 DEF OnlyMoves
  <2> QED
    BY <2>1, <2>2, <2>4, <2>5
<1>4. RawAccounted'
  BY RawMoves DEF IInv
<1> QED
  BY <1>1, <1>2, <1>3, <1>4 DEF IInv

-----------------------------------------------------------------------------
(* The steps of taking.                                                    *)

\* What a thread at t's place has in hand and has recorded.
LEMMA HandsOfOthers ==
  ASSUME NEW t \in Threads, OnlyMoves(t)
  PROVE  \A u \in Threads \ {t} : InHand(u)' = InHand(u) /\ Told(u)' = Told(u)
  BY DEF OnlyMoves, InHand, Told

\* A call that returns is done with its locals.
LEMMA Returns ==
  ASSUME TypeOK, NEW t \in Threads, NEW how \in {"idle", "failed"}, Return(t, how)
  PROVE  /\ OnlyMoves(t)
         /\ pc' \in [Threads -> Places] /\ frame' \in [Threads -> Frames]
         /\ pc'[t] = how /\ frame'[t] = NoFrame
         /\ FrameFits(t)'
         /\ InHand(t)' = {} /\ Told(t)' = {} /\ ~HoldsRaw(t)'
<1>1. pc'[t] = how /\ frame'[t] = NoFrame /\ OnlyMoves(t)
  BY DEF TypeOK, Return, Go, OnlyMoves
<1>2. pc' \in [Threads -> Places] /\ frame' \in [Threads -> Frames]
  BY FrameTypes DEF TypeOK, Return, Go, Places
<1>3. FrameFits(t)'
  BY <1>1 DEF FrameFits, NoFrame, Seeing, Taking, GivingBack
<1>4. InHand(t)' = {} /\ Told(t)' = {} /\ ~HoldsRaw(t)'
  BY <1>1 DEF InHand, Told, Recorded, HoldsRaw, NoFrame
<1> QED
  BY <1>1, <1>2, <1>3, <1>4

\* A take that comes back empty-handed destroys the message it has created and
\* not recorded.
LEMMA ComeBackStep ==
  ASSUME IInv, NEW t \in Threads, NEW how \in {"idle", "failed"},
         pc[t] \in Taking, Told(t) = {},
         ComeBack(t, how),
         UNCHANGED <<open, registered, zzddsVars, loaned, held>>,
         samples' \in Seq(Samples),
         raw' = raw - (IF HoldsRaw(t) THEN 1 ELSE 0)
  PROVE  IInv'
<1>1. /\ OnlyMoves(t)
      /\ pc' \in [Threads -> Places] /\ frame' \in [Threads -> Frames]
      /\ pc'[t] = how /\ frame'[t] = NoFrame
      /\ FrameFits(t)' /\ InHand(t)' = {} /\ Told(t)' = {} /\ ~HoldsRaw(t)'
  BY Returns DEF IInv, ComeBack
<1>2. TypeOK'
  BY <1>1 DEF IInv, TypeOK, ComeBack, zzddsVars
<1>3. created' = created \ InHand(t)
  BY DataPathConstants DEF IInv, TypeOK, ComeBack, InHand, Told, Recorded
<1>4. MessagesAccounted'
  BY <1>1, <1>3, HandsOfOthers, MessageDestroyed DEF IInv
<1>5. raw' = raw + (IF HoldsRaw(t)' THEN 1 ELSE 0) - (IF HoldsRaw(t) THEN 1 ELSE 0)
  BY <1>1 DEF IInv, TypeOK
<1>6. pc'[t] # "walk" /\ frame'[t].lender = None
  BY <1>1 DEF NoFrame
<1> QED
  BY <1>1, <1>2, <1>4, <1>5, <1>6, ThreadStep DEF zzddsVars

\* The locals a take begins with, and those of a thread that has taken a message
\* back.
LEMMA BeginningFrame ==
  ASSUME NEW op, NEW m, NEW left
  PROVE  [NoFrame EXCEPT !.op = op, !.message = m, !.lender = Sub, !.left = left]
           = [op |-> op, sample |-> <<>>, message |-> m, lender |-> Sub, left |-> left]
<1> DEFINE R1 == [op |-> op, sample |-> <<>>, message |-> None, lender |-> None, left |-> 0]
           R2 == [op |-> op, sample |-> <<>>, message |-> m, lender |-> None, left |-> 0]
           R3 == [op |-> op, sample |-> <<>>, message |-> m, lender |-> Sub, left |-> 0]
           R4 == [op |-> op, sample |-> <<>>, message |-> m, lender |-> Sub, left |-> left]
<1>1. /\ [NoFrame EXCEPT !.op = op] = R1
      /\ [R1 EXCEPT !.message = m] = R2
      /\ [R2 EXCEPT !.lender = Sub] = R3
      /\ [R3 EXCEPT !.left = left] = R4
  BY DEF NoFrame
<1> HIDE DEF R1, R2, R3, R4
<1>2. [NoFrame EXCEPT !.op = op, !.message = m, !.lender = Sub, !.left = left] = R4
  BY <1>1, Zenon
<1> QED
  BY <1>2 DEF R4

LEMMA GivingFrame ==
  ASSUME NEW m, NEW e
  PROVE  [NoFrame EXCEPT !.message = m, !.lender = e]
           = [op |-> "none", sample |-> <<>>, message |-> m, lender |-> e, left |-> 0]
<1> DEFINE R1 == [op |-> "none", sample |-> <<>>, message |-> m, lender |-> None, left |-> 0]
           R2 == [op |-> "none", sample |-> <<>>, message |-> m, lender |-> e, left |-> 0]
<1>1. [NoFrame EXCEPT !.message = m] = R1 /\ [R1 EXCEPT !.lender = e] = R2
  BY DEF NoFrame
<1> HIDE DEF R1, R2
<1>2. [NoFrame EXCEPT !.message = m, !.lender = e] = R2
  BY <1>1, Zenon
<1> QED
  BY <1>2 DEF R2

\* A call that lends creates its message before it takes (rmw_data_plane.cpp
\* 1325).
LEMMA BeginTakeInv ==
  ASSUME IInv, NEW t \in Threads, NEW op \in Takes, BeginTake(t, op)
  PROVE  IInv'
<1>0. /\ Idle(t) /\ Sub \in open /\ op \in TakeFunctions
      /\ UNCHANGED <<open, registered, zzddsVars, samples, raw, loaned, held>>
      /\ frame[t].message = None /\ frame[t].lender = None
      /\ InHand(t) = {} /\ Told(t) = {} /\ ~HoldsRaw(t)
  BY DataPathConstants DEF BeginTake, Idle, IInv, FramesFit, FrameFits, InHand, Told, HoldsRaw, Recorded
<1>1. CASE Return(t, "failed") /\ created' = created
  <2>1. /\ OnlyMoves(t)
        /\ pc' \in [Threads -> Places] /\ frame' \in [Threads -> Frames]
        /\ pc'[t] = "failed" /\ frame'[t] = NoFrame
        /\ FrameFits(t)' /\ InHand(t)' = {} /\ Told(t)' = {} /\ ~HoldsRaw(t)'
    BY <1>1, Returns DEF IInv
  <2>2. TypeOK'
    BY <1>0, <1>1, <2>1 DEF IInv, TypeOK, zzddsVars
  <2>3. MessagesAccounted'
    BY <1>0, <1>1, <2>1, HandsOfOthers, MessageDestroyed DEF IInv
  <2>4. raw' = raw + (IF HoldsRaw(t)' THEN 1 ELSE 0) - (IF HoldsRaw(t) THEN 1 ELSE 0)
    BY <1>0, <2>1 DEF IInv, TypeOK
  <2>5. pc'[t] # "walk" /\ frame'[t].lender = None
    BY <2>1 DEF NoFrame
  <2> QED
    BY <1>0, <2>1, <2>2, <2>3, <2>4, <2>5, ThreadStep DEF zzddsVars
<1>2. ASSUME NEW m \in IF Lends(op) THEN Messages \ created ELSE {None},
             created' = created \cup ({m} \ {None}),
             Go(t, "take"),
             frame' = [frame EXCEPT ![t] =
                         [NoFrame EXCEPT !.op = op, !.message = m, !.lender = Sub,
                            !.left = IF op = "sequence" THEN BatchSize ELSE 1]]
      PROVE  IInv'
  <2> DEFINE f == [op |-> op, sample |-> <<>>, message |-> m, lender |-> Sub,
                   left |-> IF op = "sequence" THEN BatchSize ELSE 1]
  <2>1. frame'[t] = f /\ frame' = [frame EXCEPT ![t] = f]
    BY <1>2, BeginningFrame DEF IInv, TypeOK
  <2>2. pc'[t] = "take" /\ OnlyMoves(t) /\ pc' \in [Threads -> Places]
    BY <1>2 DEF IInv, TypeOK, Go, OnlyMoves, Places, Taking
  <2>3. /\ Lends(op) => m \in Messages \ created /\ m # None /\ op # "sequence"
        /\ ~Lends(op) => m = None
    BY <1>2, DataPathConstants DEF Lends
  <2>4. f \in Frames
    BY <1>0, <2>3, DataPathConstants DEF Frames, Lenders
  <2>5. TypeOK'
    <3>1. frame' \in [Threads -> Frames] /\ created' \in SUBSET Messages
      BY <1>2, <2>1, <2>3, <2>4 DEF IInv, TypeOK
    <3> QED
      BY <1>0, <2>2, <3>1 DEF IInv, TypeOK, zzddsVars
  <2>6. FrameFits(t)'
    BY <2>1, <2>2, <2>3 DEF FrameFits, Seeing, Taking, GivingBack
  <2>7. ~HoldsRaw(t)' /\ Told(t)' = {}
    BY <2>2 DEF HoldsRaw, Told, Recorded
  <2>8. MessagesAccounted'
    <3>1. CASE Lends(op)
      <4>1. InHand(t)' = {m} /\ created' = created \cup {m}
        BY <1>2, <2>1, <2>2, <2>3, <3>1 DEF InHand
      <4> QED
        BY <1>0, <2>2, <2>3, <2>7, <3>1, <4>1, HandsOfOthers, MessageCreated DEF IInv
    <3>2. CASE ~Lends(op)
      <4>1. InHand(t)' = {} /\ created' = created
        BY <1>2, <2>1, <2>2, <2>3, <3>2 DEF InHand
      <4> QED
        BY <1>0, <2>2, <2>7, <4>1, HandsOfOthers, MessageDestroyed DEF IInv
    <3> QED
      BY <3>1, <3>2
  <2>9. raw' = raw + (IF HoldsRaw(t)' THEN 1 ELSE 0) - (IF HoldsRaw(t) THEN 1 ELSE 0)
    BY <1>0, <2>7 DEF IInv, TypeOK
  <2>10. frame'[t].lender \in open /\ pc'[t] # "walk"
    BY <1>0, <2>1, <2>2
  <2> QED
    BY <1>0, <2>2, <2>5, <2>6, <2>8, <2>9, <2>10, ThreadStep DEF zzddsVars
<1> QED
  BY <1>1, <1>2 DEF BeginTake

\* A sample is taken out with its raw loan (rmw_data_plane.cpp
\* take_visible_sample).
LEMMA TakeSampleInv ==
  ASSUME IInv, NEW t \in Threads, TakeSample(t)
  PROVE  IInv'
<1> DEFINE s == Head(samples)
<1>1. s \in Samples /\ Tail(samples) \in Seq(Samples)
  BY DEF IInv, TypeOK, TakeSample
<1>2. /\ pc[t] = "take" /\ pc'[t] = "lookup" /\ OnlyMoves(t)
      /\ frame'[t] = [frame[t] EXCEPT !.sample = <<s>>]
      /\ pc' \in [Threads -> Places]
  BY DEF IInv, TypeOK, TakeSample, Go, OnlyMoves, Places, Taking, Seeing
<1>3. frame' \in [Threads -> Frames]
  BY <1>1, FrameTypes DEF IInv, TypeOK, TakeSample
<1>4. TypeOK'
  BY <1>1, <1>2, <1>3 DEF IInv, TypeOK, TakeSample, LeftByTake, zzddsVars, loanVars
<1>5. /\ frame'[t].op = frame[t].op /\ frame'[t].message = frame[t].message
      /\ frame'[t].lender = frame[t].lender /\ frame'[t].left = frame[t].left
      /\ frame'[t].sample = <<s>>
  BY <1>2 DEF IInv, TypeOK, Frames
<1>6. FrameFits(t)'
  BY <1>2, <1>5 DEF IInv, FramesFit, FrameFits, Seeing, Taking, GivingBack
<1>7. InHand(t)' = InHand(t) /\ Told(t)' = Told(t) /\ HoldsRaw(t)' /\ ~HoldsRaw(t)
  BY <1>2, <1>5 DEF InHand, Told, Recorded, HoldsRaw
<1>8. MessagesAccounted'
  BY <1>2, <1>7, HandsOfOthers, HandsKept DEF IInv, TakeSample
<1>9. raw' = raw + (IF HoldsRaw(t)' THEN 1 ELSE 0) - (IF HoldsRaw(t) THEN 1 ELSE 0)
  BY <1>7 DEF IInv, TypeOK, TakeSample
<1> QED
  BY <1>2, <1>4, <1>5, <1>6, <1>8, <1>9, ThreadStep DEF TakeSample, zzddsVars, loanVars

\* A take that finds no sample, or fails, leaves no raw loan.
LEMMA TakeNothingInv ==
  ASSUME IInv, NEW t \in Threads, TakeNothing(t) \/ TakeFails(t)
  PROVE  IInv'
<1>1. /\ pc[t] = "take" /\ ~HoldsRaw(t) /\ Told(t) = {}
      /\ \E how \in {"idle", "failed"} : ComeBack(t, how)
      /\ UNCHANGED <<open, registered, zzddsVars, samples, raw, loaned, held>>
  BY DEF TakeNothing, TakeFails, HoldsRaw, Told, Recorded
<1>2. samples' \in Seq(Samples) /\ raw' = raw - (IF HoldsRaw(t) THEN 1 ELSE 0)
  BY <1>1 DEF IInv, TypeOK
<1> QED
  BY <1>1, <1>2, ComeBackStep DEF Taking

\* What t works on stays what it is while it moves on.
LEMMA GoesOn ==
  ASSUME TypeOK, NEW t \in Threads, NEW where \in Places, Go(t, where), frame' = frame
  PROVE  /\ OnlyMoves(t) /\ pc'[t] = where /\ frame'[t] = frame[t]
         /\ pc' \in [Threads -> Places]
  BY DEF TypeOK, Go, OnlyMoves

\* The publisher of a sample is looked up while its raw loan is there; a take
\* that gave something else returns that loan.
LEMMA LookUpPublisherInv ==
  ASSUME IInv, NEW t \in Threads, LookUpPublisher(t)
  PROVE  IInv'
<1>1. /\ pc[t] = "lookup" /\ HoldsRaw(t) /\ Told(t) = {}
      /\ UNCHANGED <<open, registered, zzddsVars, samples, loaned, held>>
      /\ samples' \in Seq(Samples)
  BY DEF IInv, TypeOK, LookUpPublisher, HoldsRaw, Told, Recorded
<1>2. CASE raw' = raw - 1 /\ ComeBack(t, "failed")
  BY <1>1, <1>2, ComeBackStep DEF Taking, Seeing
<1>3. CASE /\ Go(t, IF Ignoring /\ KnowsPublisher(t) THEN "check" ELSE "read")
           /\ UNCHANGED <<raw, created, frame>>
  <2>1. /\ OnlyMoves(t) /\ pc'[t] = IF Ignoring /\ KnowsPublisher(t) THEN "check" ELSE "read"
        /\ frame'[t] = frame[t] /\ pc' \in [Threads -> Places]
    BY <1>3, GoesOn DEF IInv, Places, Taking, Seeing
  <2>2. TypeOK'
    BY <1>1, <1>3, <2>1 DEF IInv, TypeOK, zzddsVars
  <2>3. FrameFits(t)' /\ HoldsRaw(t)' /\ InHand(t)' = InHand(t) /\ Told(t)' = Told(t)
    BY <1>1, <2>1 DEF IInv, FramesFit, FrameFits, HoldsRaw, InHand, Told, Recorded, Seeing,
       Taking, GivingBack
  <2>4. MessagesAccounted'
    BY <1>1, <1>3, <2>1, <2>3, HandsOfOthers, HandsKept DEF IInv, loanVars
  <2>5. raw' = raw + (IF HoldsRaw(t)' THEN 1 ELSE 0) - (IF HoldsRaw(t) THEN 1 ELSE 0)
    BY <1>1, <1>3, <2>3 DEF IInv, TypeOK
  <2> QED
    BY <1>1, <2>1, <2>2, <2>3, <2>4, <2>5, ThreadStep DEF zzddsVars
<1> QED
  BY <1>2, <1>3 DEF LookUpPublisher

\* A hidden sample gives its raw loan back and its message is used for the next.
LEMMA CheckPublisherInv ==
  ASSUME IInv, NEW t \in Threads, CheckPublisher(t)
  PROVE  IInv'
<1>1. /\ pc[t] = "check" /\ HoldsRaw(t) /\ created' = created
      /\ UNCHANGED <<open, registered, zzddsVars, samples, loaned, held>>
  BY DEF CheckPublisher, Hide, HoldsRaw
<1>2. CASE raw' = raw - 1 /\ Hide(t)
  <2>1. /\ OnlyMoves(t) /\ pc'[t] = "take" /\ pc' \in [Threads -> Places]
        /\ frame'[t] = [frame[t] EXCEPT !.sample = <<>>]
    BY <1>2 DEF IInv, TypeOK, Hide, Go, OnlyMoves, Places, Taking
  <2>2. frame' \in [Threads -> Frames]
    BY <1>2, FrameTypes DEF IInv, TypeOK, Hide
  <2>3. TypeOK'
    BY <1>1, <1>2, <2>1, <2>2 DEF IInv, TypeOK, zzddsVars
  <2>4. /\ frame'[t].op = frame[t].op /\ frame'[t].message = frame[t].message
        /\ frame'[t].lender = frame[t].lender /\ frame'[t].left = frame[t].left
        /\ frame'[t].sample = <<>>
    BY <2>1 DEF IInv, TypeOK, Frames
  <2>5. FrameFits(t)' /\ ~HoldsRaw(t)' /\ InHand(t)' = InHand(t) /\ Told(t)' = Told(t)
    BY <1>1, <2>1, <2>4 DEF IInv, FramesFit, FrameFits, HoldsRaw, InHand, Told, Recorded,
       Seeing, Taking, GivingBack
  <2>6. MessagesAccounted'
    BY <1>1, <2>1, <2>5, HandsOfOthers, HandsKept DEF IInv, loanVars
  <2>7. raw' = raw + (IF HoldsRaw(t)' THEN 1 ELSE 0) - (IF HoldsRaw(t) THEN 1 ELSE 0)
    BY <1>1, <1>2, <2>5 DEF IInv, TypeOK
  <2> QED
    BY <1>1, <2>1, <2>3, <2>4, <2>5, <2>6, <2>7, ThreadStep DEF zzddsVars
<1>3. CASE Go(t, "read") /\ UNCHANGED <<raw, created, frame>>
  <2>1. OnlyMoves(t) /\ pc'[t] = "read" /\ frame'[t] = frame[t] /\ pc' \in [Threads -> Places]
    BY <1>3, GoesOn DEF IInv, Places, Taking, Seeing
  <2>2. TypeOK'
    BY <1>1, <1>3, <2>1 DEF IInv, TypeOK, zzddsVars
  <2>3. FrameFits(t)' /\ HoldsRaw(t)' /\ InHand(t)' = InHand(t) /\ Told(t)' = Told(t)
    BY <1>1, <2>1 DEF IInv, FramesFit, FrameFits, HoldsRaw, InHand, Told, Recorded, Seeing,
       Taking, GivingBack
  <2>4. MessagesAccounted'
    BY <1>1, <2>1, <2>3, HandsOfOthers, HandsKept DEF IInv, loanVars
  <2>5. raw' = raw + (IF HoldsRaw(t)' THEN 1 ELSE 0) - (IF HoldsRaw(t) THEN 1 ELSE 0)
    BY <1>1, <1>3, <2>3 DEF IInv, TypeOK
  <2> QED
    BY <1>1, <2>1, <2>2, <2>3, <2>4, <2>5, ThreadStep DEF zzddsVars
<1> QED
  BY <1>2, <1>3 DEF CheckPublisher

\* A sample is handed over by a call that lends nothing, whether or not the call
\* goes on for another.
LEMMA HandsOverStep ==
  ASSUME IInv, NEW t \in Threads,
         pc[t] \in {"read", "info"}, ~Lends(frame[t].op),
         HandOver(t),
         UNCHANGED <<open, registered, zzddsVars, samples, loanVars>>,
         raw' = raw - (IF HoldsRaw(t) THEN 1 ELSE 0)
  PROVE  IInv'
<1>1. /\ FrameFits(t) /\ frame[t] \in Frames
      /\ frame[t].message = None /\ frame[t].lender = Sub
      /\ InHand(t) = {} /\ Told(t) = {}
  BY DEF IInv, TypeOK, FramesFit, FrameFits, Taking, Seeing, InHand, Told, Recorded
<1>2. CASE frame[t].left > 1
  <2> DEFINE f == [[frame[t] EXCEPT !.left = frame[t].left - 1] EXCEPT !.sample = <<>>]
  <2>1. /\ pc' = [pc EXCEPT ![t] = "take"] /\ frame' = [frame EXCEPT ![t] = f]
    BY <1>2 DEF HandOver, Go, IInv, TypeOK
  <2>2. /\ f \in Frames
        /\ f.op = frame[t].op /\ f.message = None /\ f.lender = Sub /\ f.sample = <<>>
    <3>1. f \in Frames
      BY <1>1, <1>2, FrameTypes
    <3> QED
      BY <1>1, <3>1 DEF Frames
  <2>3. /\ OnlyMoves(t) /\ pc'[t] = "take" /\ frame'[t] = f
        /\ pc' \in [Threads -> Places] /\ frame' \in [Threads -> Frames]
    BY <2>1, <2>2 DEF IInv, TypeOK, OnlyMoves, Places, Taking
  <2>4. TypeOK'
    BY <2>3 DEF IInv, TypeOK, zzddsVars, loanVars
  <2>5. FrameFits(t)' /\ ~HoldsRaw(t)' /\ InHand(t)' = {} /\ Told(t)' = {}
    BY <2>2, <2>3 DEF FrameFits, HoldsRaw, InHand, Told, Recorded, Seeing, Taking, GivingBack
  <2>6. MessagesAccounted'
    BY <1>1, <2>3, <2>5, HandsOfOthers, HandsKept DEF IInv, loanVars
  <2>7. raw' = raw + (IF HoldsRaw(t)' THEN 1 ELSE 0) - (IF HoldsRaw(t) THEN 1 ELSE 0)
    BY <2>5 DEF IInv, TypeOK
  <2> QED
    BY <1>1, <2>2, <2>3, <2>4, <2>5, <2>6, <2>7, ThreadStep DEF zzddsVars, loanVars
<1>3. CASE ~(frame[t].left > 1)
  <2>1. /\ OnlyMoves(t)
        /\ pc' \in [Threads -> Places] /\ frame' \in [Threads -> Frames]
        /\ pc'[t] = "idle" /\ frame'[t] = NoFrame
        /\ FrameFits(t)' /\ InHand(t)' = {} /\ Told(t)' = {} /\ ~HoldsRaw(t)'
    BY <1>3, Returns DEF IInv, HandOver
  <2>2. TypeOK'
    BY <2>1 DEF IInv, TypeOK, zzddsVars, loanVars
  <2>3. MessagesAccounted'
    BY <1>1, <2>1, HandsOfOthers, HandsKept DEF IInv, loanVars
  <2>4. raw' = raw + (IF HoldsRaw(t)' THEN 1 ELSE 0) - (IF HoldsRaw(t) THEN 1 ELSE 0)
    BY <2>1 DEF IInv, TypeOK
  <2>5. pc'[t] # "walk" /\ frame'[t].lender = None
    BY <2>1 DEF NoFrame
  <2> QED
    BY <2>1, <2>2, <2>3, <2>4, <2>5, ThreadStep DEF zzddsVars, loanVars
<1> QED
  BY <1>2, <1>3

\* Reading ends the raw loan, but for rmw_take_serialized_message_with_info,
\* which looks at the sample's publisher first (rmw_data_plane.cpp 1490).
LEMMA ReadSampleInv ==
  ASSUME IInv, NEW t \in Threads, ReadSample(t)
  PROVE  IInv'
<1> DEFINE op == frame[t].op
<1>1. /\ pc[t] = "read" /\ HoldsRaw(t) /\ Told(t) = {} /\ FrameFits(t)
      /\ UNCHANGED <<open, registered, zzddsVars, samples, loaned, held>>
      /\ samples' \in Seq(Samples)
  BY DEF IInv, TypeOK, FramesFit, ReadSample, HoldsRaw, Told, Recorded
<1>2. CASE raw' = raw - 1 /\ \E how \in {"idle", "failed"} : ComeBack(t, how)
  BY <1>1, <1>2, ComeBackStep DEF Taking, Seeing
<1>3. CASE /\ Sample(t).data
           /\ raw' = IF op = "serialized_with_info" THEN raw ELSE raw - 1
           /\ Lends(op) \/ WantsInfo(op)
           /\ Go(t, IF Lends(op) THEN "record" ELSE "info")
           /\ UNCHANGED <<frame, created>>
  <2>1. /\ OnlyMoves(t) /\ pc'[t] = IF Lends(op) THEN "record" ELSE "info"
        /\ frame'[t] = frame[t] /\ pc' \in [Threads -> Places]
    BY <1>3, GoesOn DEF IInv, Places, Taking, Seeing
  <2>2. TypeOK'
    BY <1>1, <1>3, <2>1 DEF IInv, TypeOK, zzddsVars
  <2>3. FrameFits(t)' /\ InHand(t)' = InHand(t) /\ Told(t)' = Told(t)
    BY <1>1, <1>3, <2>1 DEF FrameFits, Sample, InHand, Told, Recorded, Seeing, Taking, GivingBack
  <2>4. HoldsRaw(t)' <=> op = "serialized_with_info"
    BY <1>1, <2>1 DEF HoldsRaw, Lends
  <2>5. MessagesAccounted'
    BY <1>1, <1>3, <2>1, <2>3, HandsOfOthers, HandsKept DEF IInv, loanVars
  <2>6. raw' = raw + (IF HoldsRaw(t)' THEN 1 ELSE 0) - (IF HoldsRaw(t) THEN 1 ELSE 0)
    BY <1>1, <1>3, <2>4 DEF IInv, TypeOK
  <2> QED
    BY <1>1, <2>1, <2>2, <2>3, <2>5, <2>6, ThreadStep DEF zzddsVars
<1>4. CASE /\ raw' = IF op = "serialized_with_info" THEN raw ELSE raw - 1
           /\ ~(Lends(op) \/ WantsInfo(op))
           /\ HandOver(t) /\ created' = created
  <2>1. raw' = raw - (IF HoldsRaw(t) THEN 1 ELSE 0)
    BY <1>1, <1>4 DEF WantsInfo
  <2> QED
    BY <1>1, <1>4, <2>1, HandsOverStep DEF loanVars
<1> QED
  BY <1>2, <1>3, <1>4 DEF ReadSample

\* A call that lends is done with one sample.
LEMMA LendsOnce ==
  ASSUME IInv, NEW t \in Threads, pc[t] \in Taking, Lends(frame[t].op)
  PROVE  /\ frame[t].message \in Messages /\ frame[t].message # None
         /\ frame[t].left = 1 /\ frame[t].lender = Sub
         /\ HandOver(t) => Return(t, "idle")
  BY DEF IInv, TypeOK, Frames, FramesFit, FrameFits, HandOver

\* The loan is recorded before the application has it (rmw_data_plane.cpp 1360).
LEMMA RecordLoanInv ==
  ASSUME IInv, NEW t \in Threads, RecordLoan(t)
  PROVE  IInv'
<1> DEFINE m == frame[t].message
<1>1. /\ pc[t] = "record" /\ FrameFits(t) /\ Lends(frame[t].op) /\ pc[t] \in Taking
      /\ UNCHANGED <<open, registered, zzddsVars, samples, raw>>
      /\ samples' \in Seq(Samples)
  BY DEF IInv, TypeOK, FramesFit, FrameFits, RecordLoan, Taking, Seeing
<1>2. /\ InHand(t) = {m} /\ Told(t) = {} /\ ~HoldsRaw(t)
      /\ m \in Messages /\ m # None /\ frame[t].lender = Sub
      /\ HandOver(t) => Return(t, "idle")
  BY <1>1, LendsOnce DEF InHand, Told, HoldsRaw, Recorded
<1>3. CASE ComeBack(t, "failed") /\ UNCHANGED <<loaned, held>>
  BY <1>1, <1>2, <1>3, ComeBackStep DEF IInv, TypeOK
<1>4. CASE /\ loaned' = [loaned EXCEPT ![Sub] = @ \cup {m}]
           /\ Go(t, "info") /\ UNCHANGED <<frame, held>>
           /\ created' = created
  <2>1. OnlyMoves(t) /\ pc'[t] = "info" /\ frame'[t] = frame[t] /\ pc' \in [Threads -> Places]
    BY <1>4, GoesOn DEF IInv, Places, Taking, Seeing
  <2>2. TypeOK'
    BY <1>1, <1>2, <1>4, <2>1 DEF IInv, TypeOK, zzddsVars
  <2>3. FrameFits(t)' /\ InHand(t)' = {} /\ Told(t)' = {m} /\ ~HoldsRaw(t)'
    BY <1>1, <1>2, <2>1 DEF FrameFits, Sample, HoldsRaw, InHand, Told, Recorded, Seeing, Taking,
       GivingBack, Lends
  <2>4. MessagesAccounted'
    BY <1>2, <1>4, <2>1, <2>3, HandsOfOthers, MessageRecorded DEF IInv
  <2>5. raw' = raw + (IF HoldsRaw(t)' THEN 1 ELSE 0) - (IF HoldsRaw(t) THEN 1 ELSE 0)
    BY <1>1, <1>2, <2>3 DEF IInv, TypeOK
  <2> QED
    BY <1>1, <1>4, <2>1, <2>2, <2>3, <2>4, <2>5, ThreadStep DEF zzddsVars
<1>5. CASE /\ loaned' = [loaned EXCEPT ![Sub] = @ \cup {m}]
           /\ HandOver(t) /\ Lend(t)
           /\ created' = created
  <2>1. /\ OnlyMoves(t)
        /\ pc' \in [Threads -> Places] /\ frame' \in [Threads -> Frames]
        /\ pc'[t] = "idle" /\ frame'[t] = NoFrame
        /\ FrameFits(t)' /\ InHand(t)' = {} /\ Told(t)' = {} /\ ~HoldsRaw(t)'
    BY <1>2, <1>5, Returns DEF IInv
  <2>2. held' = [held EXCEPT ![Sub] = @ \cup {m}]
    BY <1>5 DEF Lend
  <2>3. TypeOK'
    <3>1. /\ loaned' \in [Lenders -> SUBSET Messages] /\ held' \in [Lenders -> SUBSET Messages]
          /\ created' \in SUBSET Messages
      BY <1>1, <1>2, <1>5, <2>2 DEF IInv, TypeOK
    <3>2. raw' \in Int
      BY <1>1, <1>2 DEF IInv, TypeOK
    <3> QED
      BY <1>1, <2>1, <3>1, <3>2 DEF IInv, TypeOK, zzddsVars
  <2>4. MessagesAccounted'
    BY <1>2, <1>5, <2>1, <2>2, HandsOfOthers, MessageRecorded DEF IInv
  <2>5. raw' = raw + (IF HoldsRaw(t)' THEN 1 ELSE 0) - (IF HoldsRaw(t) THEN 1 ELSE 0)
    BY <1>1, <1>2, <2>1 DEF IInv, TypeOK
  <2>6. \A e \in Lenders : held'[e] # held[e] => e = frame[t].lender
    BY <1>2, <2>2 DEF IInv, TypeOK
  <2>7. pc'[t] # "walk" /\ frame'[t].lender = None
    BY <2>1 DEF NoFrame
  <2> QED
    BY <1>1, <2>1, <2>3, <2>4, <2>5, <2>6, <2>7, ThreadStep DEF zzddsVars
<1> QED
  BY <1>3, <1>4, <1>5 DEF RecordLoan

\* A loan is lent once its publisher is known, or taken back
\* (rmw_data_plane.cpp 1372).
LEMMA FillInfoInv ==
  ASSUME IInv, NEW t \in Threads, FillInfo(t)
  PROVE  IInv'
<1> DEFINE op == frame[t].op
           m == frame[t].message
<1>1. /\ pc[t] = "info" /\ FrameFits(t) /\ pc[t] \in Taking
      /\ raw' = IF op = "serialized_with_info" THEN raw - 1 ELSE raw
      /\ UNCHANGED <<open, registered, zzddsVars, samples, loaned>>
      /\ samples' \in Seq(Samples)
  BY DEF IInv, TypeOK, FramesFit, FillInfo, Taking, Seeing
<1>2. raw' = raw - (IF HoldsRaw(t) THEN 1 ELSE 0)
  BY <1>1 DEF IInv, TypeOK, HoldsRaw
<1>3. CASE ~Lends(op)
  <2>1. Told(t) = {}
    BY <1>1, <1>3 DEF FrameFits, Told
  <2>2. CASE HandOver(t) /\ UNCHANGED <<held, created>>
    BY <1>1, <1>2, <1>3, <2>2, HandsOverStep DEF loanVars
  <2>3. CASE ComeBack(t, "failed") /\ UNCHANGED held
    BY <1>1, <1>2, <2>1, <2>3, ComeBackStep
  <2> QED
    BY <1>3, <2>2, <2>3 DEF FillInfo
<1>4. CASE Lends(op)
  <2>1. /\ m \in Messages /\ m # None /\ frame[t].lender = Sub
        /\ HandOver(t) => Return(t, "idle")
        /\ InHand(t) = {} /\ Told(t) = {m} /\ ~HoldsRaw(t) /\ raw' = raw
    BY <1>1, <1>2, <1>4, LendsOnce DEF IInv, TypeOK, InHand, Told, HoldsRaw, Recorded, Lends
  <2>2. CASE HandOver(t) /\ Lend(t) /\ created' = created
    <3>1. /\ OnlyMoves(t)
          /\ pc' \in [Threads -> Places] /\ frame' \in [Threads -> Frames]
          /\ pc'[t] = "idle" /\ frame'[t] = NoFrame
          /\ FrameFits(t)' /\ InHand(t)' = {} /\ Told(t)' = {} /\ ~HoldsRaw(t)'
      BY <2>1, <2>2, Returns DEF IInv
    <3>2. held' = [held EXCEPT ![Sub] = @ \cup {m}]
      BY <2>2 DEF Lend
    <3>3. TypeOK'
      BY <1>1, <2>1, <2>2, <3>1, <3>2 DEF IInv, TypeOK, zzddsVars
    <3>4. MessagesAccounted'
      BY <1>1, <2>1, <2>2, <3>1, <3>2, HandsOfOthers, MessageTold DEF IInv
    <3>5. raw' = raw + (IF HoldsRaw(t)' THEN 1 ELSE 0) - (IF HoldsRaw(t) THEN 1 ELSE 0)
      BY <2>1, <3>1 DEF IInv, TypeOK
    <3>6. \A e \in Lenders : held'[e] # held[e] => e = frame[t].lender
      BY <2>1, <3>2 DEF IInv, TypeOK
    <3>7. pc'[t] # "walk" /\ frame'[t].lender = None
      BY <3>1 DEF NoFrame
    <3> QED
      BY <1>1, <3>1, <3>3, <3>4, <3>5, <3>6, <3>7, ThreadStep DEF zzddsVars
  <2>3. CASE TakeBack(t) /\ UNCHANGED held
    <3>1. /\ OnlyMoves(t) /\ pc'[t] = "unrecord" /\ frame'[t] = frame[t]
          /\ pc' \in [Threads -> Places] /\ UNCHANGED <<created, frame>>
      BY <2>3, GoesOn DEF IInv, Places, Taking, Seeing, TakeBack
    <3>2. TypeOK'
      BY <1>1, <2>1, <2>3, <3>1 DEF IInv, TypeOK, zzddsVars
    <3>3. FrameFits(t)' /\ InHand(t)' = InHand(t) /\ Told(t)' = Told(t) /\ ~HoldsRaw(t)'
      BY <1>1, <1>4, <3>1 DEF FrameFits, Sample, HoldsRaw, InHand, Told, Recorded, Seeing, Taking,
         GivingBack
    <3>4. MessagesAccounted'
      BY <1>1, <2>3, <3>1, <3>3, HandsOfOthers, HandsKept DEF IInv, loanVars
    <3>5. raw' = raw + (IF HoldsRaw(t)' THEN 1 ELSE 0) - (IF HoldsRaw(t) THEN 1 ELSE 0)
      BY <2>1, <3>3 DEF IInv, TypeOK
    <3> QED
      BY <1>1, <2>3, <3>1, <3>2, <3>3, <3>4, <3>5, ThreadStep DEF zzddsVars
  <2> QED
    BY <1>4, <2>2, <2>3 DEF FillInfo
<1> QED
  BY <1>3, <1>4

\* A loan that cannot be completed is taken out of the record, so that only this
\* thread destroys its message (rmw_data_plane.cpp 1378).
LEMMA UnrecordLoanInv ==
  ASSUME IInv, NEW t \in Threads, UnrecordLoan(t)
  PROVE  IInv'
<1> DEFINE m == frame[t].message
<1>1. /\ pc[t] = "unrecord" /\ FrameFits(t) /\ Lends(frame[t].op) /\ pc[t] \in Taking
      /\ loaned' = [loaned EXCEPT ![Sub] = @ \ {m}]
      /\ UNCHANGED <<open, registered, zzddsVars, samples, raw, created, held, frame>>
  BY DEF IInv, FramesFit, FrameFits, UnrecordLoan, Taking, Seeing
<1>2. m \in Messages /\ m # None /\ InHand(t) = {} /\ Told(t) = {m} /\ ~HoldsRaw(t)
  BY <1>1, LendsOnce DEF InHand, Told, HoldsRaw, Recorded
<1>3. OnlyMoves(t) /\ pc'[t] = "discard" /\ frame'[t] = frame[t] /\ pc' \in [Threads -> Places]
  BY <1>1, GoesOn DEF IInv, Places, Taking, Seeing, UnrecordLoan
<1>4. TypeOK'
  BY <1>1, <1>2, <1>3 DEF IInv, TypeOK, zzddsVars
<1>5. FrameFits(t)' /\ InHand(t)' = {m} /\ Told(t)' = {} /\ ~HoldsRaw(t)'
  BY <1>1, <1>2, <1>3 DEF FrameFits, Sample, HoldsRaw, InHand, Told, Recorded, Seeing, Taking,
     GivingBack
<1>6. MessagesAccounted'
  BY <1>1, <1>2, <1>3, <1>5, HandsOfOthers, MessageTold DEF IInv
<1>7. raw' = raw + (IF HoldsRaw(t)' THEN 1 ELSE 0) - (IF HoldsRaw(t) THEN 1 ELSE 0)
  BY <1>1, <1>2, <1>5 DEF IInv, TypeOK
<1> QED
  BY <1>1, <1>3, <1>4, <1>5, <1>6, <1>7, ThreadStep DEF zzddsVars

\* Its message is destroyed and the take fails.
LEMMA DiscardLoanInv ==
  ASSUME IInv, NEW t \in Threads, DiscardLoan(t)
  PROVE  IInv'
<1>1. /\ pc[t] = "discard" /\ Told(t) = {} /\ ~HoldsRaw(t) /\ ComeBack(t, "failed")
      /\ UNCHANGED <<open, registered, zzddsVars, samples, raw, loaned, held>>
  BY DEF DiscardLoan, Told, Recorded, HoldsRaw
<1>2. samples' \in Seq(Samples) /\ raw' = raw - (IF HoldsRaw(t) THEN 1 ELSE 0)
  BY <1>1 DEF IInv, TypeOK
<1> QED
  BY <1>1, <1>2, ComeBackStep DEF Taking, Seeing

-----------------------------------------------------------------------------
(* The steps of lending and giving back.                                   *)

\* A message borrowed is created and recorded at once (rmw_data_plane.cpp
\* rmw_borrow_loaned_message).
LEMMA BorrowInv ==
  ASSUME IInv, NEW t \in Threads, NEW p \in Own, Borrow(t, p)
  PROVE  IInv'
<1>1. /\ Idle(t) /\ p \in open /\ p \in Lenders
      /\ UNCHANGED <<open, registered, zzddsVars, samples, raw, pc, frame>>
  BY DEF Borrow, Lenders
<1>2. PICK m \in Messages \ created :
        /\ created' = created \cup {m}
        /\ loaned' = [loaned EXCEPT ![p] = @ \cup {m}]
        /\ held' = [held EXCEPT ![p] = @ \cup {m}]
  BY DEF Borrow
<1>3. /\ OnlyMoves(t) /\ pc'[t] # "walk" /\ FrameFits(t)'
      /\ \A u \in Threads : InHand(u)' = InHand(u) /\ Told(u)' = Told(u)
      /\ HoldsRaw(t)' <=> HoldsRaw(t)
  BY <1>1 DEF Idle, OnlyMoves, IInv, FramesFit, FrameFits, Sample, InHand, Told, HoldsRaw
<1>4. TypeOK'
  BY <1>1, <1>2 DEF IInv, TypeOK, zzddsVars
<1>5. MessagesAccounted'
  BY <1>1, <1>2, <1>3, MessageBorrowed DEF IInv
<1>6. raw' = raw + (IF HoldsRaw(t)' THEN 1 ELSE 0) - (IF HoldsRaw(t) THEN 1 ELSE 0)
  BY <1>1, <1>3 DEF IInv, TypeOK
<1>7. \A e \in Lenders : held'[e] # held[e] => e \in open
  BY <1>1, <1>2 DEF IInv, TypeOK
<1> QED
  BY <1>1, <1>3, <1>4, <1>5, <1>6, <1>7, ThreadStep DEF zzddsVars

\* Who gives a message back takes it out of the record first, so that nobody
\* else can (rmw_data_plane.cpp rmw_return_loaned_message_from_publisher).
LEMMA GiveBackInv ==
  ASSUME IInv, NEW t \in Threads, NEW e \in Lenders, NEW m \in Messages,
         NEW publishing \in BOOLEAN, GiveBack(t, e, m, publishing), m \in loaned[e]
  PROVE  IInv'
<1> DEFINE f == [op |-> "none", sample |-> <<>>, message |-> m, lender |-> e, left |-> 0]
<1>1. /\ Idle(t) /\ e \in open /\ m \in held[e] /\ m # None /\ e # None
      /\ publishing => e # Sub
      /\ loaned' = [loaned EXCEPT ![e] = @ \ {m}]
      /\ held' = [held EXCEPT ![e] = @ \ {m}]
      /\ Go(t, IF publishing THEN "write" ELSE "destroy")
      /\ UNCHANGED <<open, registered, zzddsVars, samples, raw, created>>
  BY DataPathConstants DEF GiveBack, Lenders
<1>2. frame' = [frame EXCEPT ![t] = f]
  BY GivingFrame DEF GiveBack
<1>3. f \in Frames
  BY DEF Frames
<1>4. /\ OnlyMoves(t) /\ frame'[t] = f
      /\ pc'[t] = IF publishing THEN "write" ELSE "destroy"
      /\ pc' \in [Threads -> Places] /\ frame' \in [Threads -> Frames]
  BY <1>1, <1>2, <1>3 DEF IInv, TypeOK, OnlyMoves, Go, Places, GivingBack
<1>5. TypeOK'
  BY <1>1, <1>4 DEF IInv, TypeOK, zzddsVars
<1>6. FrameFits(t)'
  BY <1>1, <1>4 DEF FrameFits, Seeing, Taking, GivingBack
<1>7. /\ InHand(t) = {} /\ InHand(t)' = {m} /\ Told(t)' = {}
      /\ ~HoldsRaw(t) /\ ~HoldsRaw(t)'
  BY <1>1, <1>4 DEF IInv, FramesFit, FrameFits, Idle, InHand, Told, Recorded, HoldsRaw
<1>8. MessagesAccounted'
  BY <1>1, <1>4, <1>7, HandsOfOthers, MessageGivenBack DEF IInv
<1>9. raw' = raw + (IF HoldsRaw(t)' THEN 1 ELSE 0) - (IF HoldsRaw(t) THEN 1 ELSE 0)
  BY <1>1, <1>7 DEF IInv, TypeOK
<1>10. \A d \in Lenders : held'[d] # held[d] => d \in open
  BY <1>1 DEF IInv, TypeOK
<1>11. pc'[t] # "walk" /\ frame'[t].lender \in open
  BY <1>1, <1>4
<1> QED
  BY <1>1, <1>4, <1>5, <1>6, <1>8, <1>9, <1>10, <1>11, ThreadStep DEF zzddsVars

\* A loaned message is published before it is destroyed, by the thread that has
\* it (rmw_data_plane.cpp rmw_publish_loaned_message).
LEMMA WriteLoanInv ==
  ASSUME IInv, NEW t \in Threads, WriteLoan(t)
  PROVE  IInv'
<1>1. /\ pc[t] = "write" /\ Go(t, "destroy") /\ known' = known
      /\ UNCHANGED <<open, registered, samples, raw, loanVars, frame>>
  BY DEF WriteLoan, Write, zzddsVars
<1>2. OnlyMoves(t) /\ pc'[t] = "destroy" /\ frame'[t] = frame[t] /\ pc' \in [Threads -> Places]
  BY <1>1, GoesOn DEF IInv, Places, GivingBack
<1>3. flying' \in [Publishers -> Nat] /\ written' \in Nat
  BY DEF IInv, TypeOK, WriteLoan, Write, zzddsVars
<1>4. TypeOK'
  BY <1>1, <1>2, <1>3 DEF IInv, TypeOK, loanVars
<1>5. /\ FrameFits(t)' /\ InHand(t)' = InHand(t) /\ Told(t)' = Told(t)
      /\ ~HoldsRaw(t)' /\ ~HoldsRaw(t)
  BY <1>1, <1>2 DEF IInv, FramesFit, FrameFits, InHand, Told, Recorded, HoldsRaw, Seeing, Taking,
     GivingBack
<1>6. MessagesAccounted'
  BY <1>1, <1>2, <1>5, HandsOfOthers, HandsKept DEF IInv
<1>7. raw' = raw + (IF HoldsRaw(t)' THEN 1 ELSE 0) - (IF HoldsRaw(t) THEN 1 ELSE 0)
  BY <1>1, <1>5 DEF IInv, TypeOK
<1> QED
  BY <1>1, <1>2, <1>4, <1>5, <1>6, <1>7, ThreadStep DEF loanVars

LEMMA DestroyMessageInv ==
  ASSUME IInv, NEW t \in Threads, DestroyMessage(t)
  PROVE  IInv'
<1>1. /\ pc[t] = "destroy" /\ Return(t, "idle") /\ FrameFits(t)
      /\ created' = created \ {frame[t].message}
      /\ UNCHANGED <<open, registered, zzddsVars, samples, raw, loaned, held>>
  BY DEF IInv, FramesFit, DestroyMessage
<1>2. /\ OnlyMoves(t)
      /\ pc' \in [Threads -> Places] /\ frame' \in [Threads -> Frames]
      /\ pc'[t] = "idle" /\ frame'[t] = NoFrame
      /\ FrameFits(t)' /\ InHand(t)' = {} /\ Told(t)' = {} /\ ~HoldsRaw(t)'
  BY <1>1, Returns DEF IInv
<1>3. TypeOK'
  BY <1>1, <1>2 DEF IInv, TypeOK, zzddsVars
<1>4. created' = created \ InHand(t) /\ ~HoldsRaw(t)
  BY <1>1 DEF FrameFits, GivingBack, InHand, Recorded, HoldsRaw
<1>5. MessagesAccounted'
  BY <1>1, <1>2, <1>4, HandsOfOthers, MessageDestroyed DEF IInv
<1>6. raw' = raw + (IF HoldsRaw(t)' THEN 1 ELSE 0) - (IF HoldsRaw(t) THEN 1 ELSE 0)
  BY <1>1, <1>2, <1>4 DEF IInv, TypeOK
<1>7. pc'[t] # "walk" /\ frame'[t].lender = None
  BY <1>2 DEF NoFrame
<1> QED
  BY <1>1, <1>2, <1>3, <1>5, <1>6, <1>7, ThreadStep DEF zzddsVars

-----------------------------------------------------------------------------
(* The steps of endpoints and of zzdds.                                    *)

\* An endpoint is destroyed when no thread works with it, and what the
\* application has borrowed from it is gone then.
LEMMA CloseEndpointInv ==
  ASSUME IInv, NEW t \in Threads, NEW e \in Lenders, CloseEndpoint(t, e)
  PROVE  IInv'
<1> DEFINE f == [op |-> "none", sample |-> <<>>, message |-> None, lender |-> e, left |-> 0]
<1>1. /\ Idle(t) /\ e \in open /\ e # None
      /\ \A u \in Threads : frame[u].lender # e
      /\ open' = open \ {e} /\ registered' = registered \ {e}
      /\ held' = [held EXCEPT ![e] = {}]
      /\ Go(t, "walk")
      /\ UNCHANGED <<zzddsVars, samples, raw, created, loaned>>
  BY DataPathConstants DEF CloseEndpoint, Lenders
<1>2. [NoFrame EXCEPT !.lender = e] = f /\ f \in Frames
  BY DEF NoFrame, Frames
<1>3. frame' = [frame EXCEPT ![t] = f]
  BY <1>2 DEF CloseEndpoint
<1>4. /\ OnlyMoves(t) /\ frame'[t] = f /\ pc'[t] = "walk"
      /\ pc' \in [Threads -> Places] /\ frame' \in [Threads -> Frames]
  BY <1>1, <1>2, <1>3 DEF IInv, TypeOK, OnlyMoves, Go, Places
<1>5. TypeOK'
  BY <1>1, <1>4 DEF IInv, TypeOK, zzddsVars
<1>6. EndpointsAreKnown'
  BY <1>1 DEF IInv, EndpointsAreKnown, zzddsVars
<1>7. FramesFit'
  <2>1. FrameFits(t)'
    BY <1>1, <1>4 DEF FrameFits, Seeing, Taking, GivingBack
  <2> QED
    BY <1>4, <2>1 DEF IInv, FramesFit, FrameFits, OnlyMoves, Sample
<1>8. DestroyedAlone'
  <2> SUFFICES ASSUME NEW u \in Threads, pc'[u] = "walk"
               PROVE  /\ frame'[u].lender \notin open'
                      /\ held'[frame'[u].lender] = {}
                      /\ frame'[u].lender # Sub => frame'[u].lender \in known'
                      /\ \A v \in Threads : v # u => frame'[v].lender # frame'[u].lender
    BY DEF DestroyedAlone
  <2>1. CASE u = t
    <3>1. e # Sub => e \in known'
      BY <1>1 DEF IInv, EndpointsAreKnown, zzddsVars
    <3>2. held'[e] = {} /\ e \notin open'
      BY <1>1 DEF IInv, TypeOK
    <3> QED
      BY <1>1, <1>4, <2>1, <3>1, <3>2 DEF OnlyMoves
  <2>2. CASE u # t
    <3>1. pc[u] = "walk" /\ frame'[u] = frame[u] /\ frame[u].lender # e
      BY <1>1, <1>4, <2>2 DEF OnlyMoves
    <3>2. /\ frame[u].lender \notin open /\ held[frame[u].lender] = {}
          /\ frame[u].lender # Sub => frame[u].lender \in known
          /\ \A v \in Threads : v # u => frame[v].lender # frame[u].lender
      BY <3>1 DEF IInv, DestroyedAlone
    <3>3. held'[frame[u].lender] = held[frame[u].lender]
      BY <1>1, <3>1 DEF IInv, TypeOK
    <3>4. \A v \in Threads : v # u => frame'[v].lender # frame'[u].lender
      BY <1>4, <3>1, <3>2 DEF OnlyMoves
    <3> QED
      BY <1>1, <3>1, <3>2, <3>3, <3>4 DEF zzddsVars
  <2> QED
    BY <2>1, <2>2
<1>9. /\ InHand(t) = {} /\ InHand(t)' = {} /\ Told(t) = {} /\ Told(t)' = {}
      /\ ~HoldsRaw(t) /\ ~HoldsRaw(t)'
  BY <1>1, <1>4 DEF IInv, FramesFit, FrameFits, Idle, InHand, Told, Recorded, HoldsRaw
<1>10. MessagesAccounted'
  BY <1>1, <1>4, <1>9, HandsOfOthers, MessagesGivenUp DEF IInv
<1>11. RawAccounted'
  <2>1. raw' = raw + (IF HoldsRaw(t)' THEN 1 ELSE 0) - (IF HoldsRaw(t) THEN 1 ELSE 0)
    BY <1>1, <1>9 DEF IInv, TypeOK
  <2> QED
    BY <1>4, <2>1, RawMoves DEF IInv
<1> QED
  BY <1>5, <1>6, <1>7, <1>8, <1>10, <1>11 DEF IInv

\* What a destroyed endpoint has lent is destroyed by the one thread that
\* destroys the endpoint (rmw_data_plane.cpp rmw_destroy_subscription).
LEMMA WalkLoansInv ==
  ASSUME IInv, NEW t \in Threads, WalkLoans(t)
  PROVE  IInv'
<1> DEFINE e == frame[t].lender
<1>1. /\ pc[t] = "walk" /\ Return(t, "idle") /\ FrameFits(t)
      /\ created' = created \ loaned[e]
      /\ loaned' = [loaned EXCEPT ![e] = {}]
      /\ UNCHANGED <<open, registered, zzddsVars, samples, raw, held>>
  BY DEF IInv, FramesFit, WalkLoans
<1>2. e \in Lenders
  BY <1>1 DEF IInv, TypeOK, Frames, FrameFits
<1>3. held[e] = {} /\ \A u \in Threads : u # t => frame[u].lender # e
  BY <1>1 DEF IInv, DestroyedAlone
<1>4. /\ OnlyMoves(t)
      /\ pc' \in [Threads -> Places] /\ frame' \in [Threads -> Frames]
      /\ pc'[t] = "idle" /\ frame'[t] = NoFrame
      /\ FrameFits(t)' /\ InHand(t)' = {} /\ Told(t)' = {} /\ ~HoldsRaw(t)'
  BY <1>1, Returns DEF IInv
<1>5. InHand(t) = {} /\ Told(t) = {} /\ ~HoldsRaw(t)
  BY <1>1 DEF FrameFits, InHand, Told, Recorded, HoldsRaw
<1>6. e = Sub => \A u \in Threads : Told(u) = {}
  <2>1. ASSUME e = Sub, NEW u \in Threads, u # t
        PROVE  Told(u) = {}
    <3>1. frame[u].lender # Sub /\ FrameFits(u)
      BY <1>3, <2>1 DEF IInv, FramesFit
    <3> QED
      BY <3>1 DEF FrameFits, Taking, Seeing, Told, Recorded
  <2> QED
    BY <1>5, <2>1
<1>7. MessagesAccounted'
  BY <1>1, <1>2, <1>3, <1>4, <1>5, <1>6, HandsOfOthers, LoansDestroyed DEF IInv
<1>8. TypeOK'
  BY <1>1, <1>2, <1>4 DEF IInv, TypeOK, zzddsVars
<1>9. raw' = raw + (IF HoldsRaw(t)' THEN 1 ELSE 0) - (IF HoldsRaw(t) THEN 1 ELSE 0)
  BY <1>1, <1>4, <1>5 DEF IInv, TypeOK
<1>10. pc'[t] # "walk" /\ frame'[t].lender = None
  BY <1>4 DEF NoFrame
<1> QED
  BY <1>1, <1>4, <1>7, <1>8, <1>9, <1>10, ThreadStep DEF zzddsVars

\* What a step that is no thread's owes to the invariant.
LEMMA WorldStep ==
  ASSUME IInv, UNCHANGED <<raw, loanVars, pc, frame>>,
         TypeOK', EndpointsAreKnown',
         \A t \in Threads : pc[t] = "walk" =>
           /\ frame[t].lender \notin open'
           /\ frame[t].lender # Sub => frame[t].lender \in known'
  PROVE  IInv'
<1>1. FramesFit' /\ RawAccounted'
  BY DEF IInv, FramesFit, FrameFits, Sample, RawAccounted, HoldsRaw
<1>2. MessagesAccounted'
  BY HandsKept DEF IInv, InHand, Told
<1>3. DestroyedAlone'
  BY DEF IInv, DestroyedAlone, loanVars
<1> QED
  BY <1>1, <1>2, <1>3 DEF IInv

LEMMA PublisherInv ==
  ASSUME IInv, NEW p \in Publishers, OpenPublisher(p) \/ Publish(p) \/ Arrive(p) \/ Unmatch(p)
  PROVE  IInv'
<1>0. \A t \in Threads : pc[t] = "walk" =>
        /\ frame[t].lender \notin open
        /\ frame[t].lender # Sub => frame[t].lender \in known
  BY DEF IInv, DestroyedAlone
<1>1. p # Sub
  BY DataPathConstants DEF Publishers
<1>2. CASE OpenPublisher(p)
  <2>1. TypeOK' /\ EndpointsAreKnown'
    BY <1>1, <1>2 DEF IInv, TypeOK, EndpointsAreKnown, OpenPublisher, loanVars
  <2>2. \A t \in Threads : pc[t] = "walk" =>
          /\ frame[t].lender \notin open'
          /\ frame[t].lender # Sub => frame[t].lender \in known'
    BY <1>0, <1>1, <1>2 DEF OpenPublisher
  <2> QED
    BY <1>2, <2>1, <2>2, WorldStep DEF OpenPublisher
<1>3. CASE Publish(p)
  <2>1. /\ written' \in Nat /\ flying' \in [Publishers -> Nat]
        /\ UNCHANGED <<open, registered, known, samples, raw, loanVars, pc, frame>>
    BY <1>3 DEF IInv, TypeOK, Publish, Write
  <2>2. TypeOK' /\ EndpointsAreKnown'
    BY <2>1 DEF IInv, TypeOK, EndpointsAreKnown, loanVars
  <2> QED
    BY <1>0, <2>1, <2>2, WorldStep
<1>4. CASE Arrive(p)
  <2>1. /\ flying' \in [Publishers -> Nat] /\ samples' \in Seq(Samples)
        /\ UNCHANGED <<open, registered, known, written, raw, loanVars, pc, frame>>
    BY <1>4 DEF IInv, TypeOK, Arrive, Receive, Samples
  <2>2. TypeOK' /\ EndpointsAreKnown'
    BY <2>1 DEF IInv, TypeOK, EndpointsAreKnown, loanVars
  <2> QED
    BY <1>0, <2>1, <2>2, WorldStep
<1>5. CASE Unmatch(p)
  <2>1. /\ p \in known \ open
        /\ \A t \in Threads : pc[t] = "walk" => frame[t].lender # p
        /\ known' = known \ {p}
        /\ UNCHANGED <<open, registered, raw, loanVars, pc, frame>>
    BY <1>5 DEF Unmatch
  <2>2. /\ flying' \in [Publishers -> Nat] /\ samples' \in Seq(Samples) /\ written' \in Nat
    <3>1. flying' \in [Publishers -> Nat]
      BY <1>5 DEF IInv, TypeOK, Unmatch
    <3>2. CASE UNCHANGED <<samples, written>>
      BY <3>1, <3>2 DEF IInv, TypeOK
    <3>3. CASE Receive(p, FALSE) /\ written' = written + 1
      BY <3>1, <3>3 DEF IInv, TypeOK, Receive, Samples
    <3> QED
      BY <1>5, <3>2, <3>3 DEF Unmatch
  <2>3. TypeOK' /\ EndpointsAreKnown'
    BY <2>1, <2>2 DEF IInv, TypeOK, EndpointsAreKnown, loanVars
  <2> QED
    BY <1>0, <2>1, <2>3, WorldStep
<1> QED
  BY <1>2, <1>3, <1>4, <1>5

LEMMA RemoteLeavesInv ==
  ASSUME IInv, NEW r \in Remotes, RemoteLeaves(r)
  PROVE  IInv'
<1>1. TypeOK' /\ EndpointsAreKnown'
  BY DEF IInv, TypeOK, EndpointsAreKnown, RemoteLeaves, zzddsVars, loanVars
<1>2. \A t \in Threads : pc[t] = "walk" =>
        /\ frame[t].lender \notin open'
        /\ frame[t].lender # Sub => frame[t].lender \in known'
  BY DEF IInv, DestroyedAlone, RemoteLeaves, zzddsVars
<1> QED
  BY <1>1, <1>2, WorldStep DEF RemoteLeaves

-----------------------------------------------------------------------------
(* The invariant.                                                          *)

LEMMA StutterInv ==
  ASSUME IInv, UNCHANGED vars
  PROVE  IInv'
<1>1. TypeOK' /\ EndpointsAreKnown'
  BY DEF IInv, TypeOK, EndpointsAreKnown, vars
<1>2. \A t \in Threads : pc[t] = "walk" =>
        /\ frame[t].lender \notin open'
        /\ frame[t].lender # Sub => frame[t].lender \in known'
  BY DEF IInv, DestroyedAlone, vars
<1> QED
  BY <1>1, <1>2, WorldStep DEF vars, loanVars

LEMMA InitInv ==
  ASSUME Init
  PROVE  IInv
<1>1. TypeOK
  <2>1. /\ flying \in [Publishers -> Nat] /\ samples \in Seq(Samples)
        /\ loaned \in [Lenders -> SUBSET Messages] /\ held \in [Lenders -> SUBSET Messages]
    BY DEF Init
  <2>2. pc \in [Threads -> Places] /\ frame \in [Threads -> Frames]
    BY FrameTypes DEF Init, Places
  <2> QED
    BY <2>1, <2>2 DEF Init, TypeOK
<1>2. EndpointsAreKnown
  BY DataPathConstants DEF Init, EndpointsAreKnown
<1>3. FramesFit
  BY DEF Init, NoFrame, FramesFit, FrameFits, Seeing, Taking, GivingBack
<1>4. DestroyedAlone
  BY DEF Init, DestroyedAlone
<1>5. \A t \in Threads : InHand(t) = {} /\ Told(t) = {} /\ ~HoldsRaw(t)
  BY DEF Init, NoFrame, InHand, Told, Recorded, HoldsRaw
<1>6. Sub \in Lenders
  BY DEF Lenders
<1>7. MessagesAccounted
  BY <1>5, <1>6 DEF Init, MessagesAccounted
<1>8. RawAccounted
  <2>1. {t \in Threads : HoldsRaw(t)} = {}
    BY <1>5
  <2> QED
    BY <2>1, FS_EmptySet DEF Init, RawAccounted
<1> QED
  BY <1>1, <1>2, <1>3, <1>4, <1>7, <1>8 DEF IInv

LEMMA NextInv ==
  ASSUME IInv, [Next]_vars
  PROVE  IInv'
<1>1. ASSUME NEW t \in Threads, Call(t)
      PROVE  IInv'
  <2>1. ASSUME NEW op \in Takes, BeginTake(t, op)
        PROVE  IInv'
    BY <2>1, BeginTakeInv
  <2>2. ASSUME NEW p \in Own, Borrow(t, p)
        PROVE  IInv'
    BY <2>2, BorrowInv
  <2>3. ASSUME NEW e \in Lenders, NEW m \in Messages, NEW publishing \in BOOLEAN,
               GiveBack(t, e, m, publishing)
        PROVE  IInv'
    <3>1. CASE m \in loaned[e]
      BY <2>3, <3>1, GiveBackInv
    <3>2. CASE m \notin loaned[e]
      BY <2>3, <3>2, StutterInv DEF GiveBack, vars, zzddsVars
    <3> QED
      BY <3>1, <3>2
  <2>4. ASSUME NEW e \in Lenders, CloseEndpoint(t, e)
        PROVE  IInv'
    BY <2>4, CloseEndpointInv
  <2> QED
    BY <1>1, <2>1, <2>2, <2>3, <2>4 DEF Call
<1>2. ASSUME NEW t \in Threads, TakeStep(t)
      PROVE  IInv'
  BY <1>2, TakeSampleInv, TakeNothingInv, LookUpPublisherInv, CheckPublisherInv, ReadSampleInv,
     RecordLoanInv, FillInfoInv, UnrecordLoanInv, DiscardLoanInv DEF TakeStep
<1>3. ASSUME NEW t \in Threads, WriteLoan(t) \/ DestroyMessage(t) \/ WalkLoans(t)
      PROVE  IInv'
  BY <1>3, WriteLoanInv, DestroyMessageInv, WalkLoansInv
<1>4. CASE \E p \in Publishers : OpenPublisher(p) \/ Publish(p) \/ Arrive(p) \/ Unmatch(p)
  BY <1>4, PublisherInv
<1>5. CASE \E r \in Remotes : RemoteLeaves(r)
  BY <1>5, RemoteLeavesInv
<1>6. CASE UNCHANGED vars
  BY <1>6, StutterInv
<1> QED
  BY <1>1, <1>2, <1>3, <1>4, <1>5, <1>6 DEF Next, Step

\* IInv holds in every state, whatever the threads call and however their calls
\* and the arrival of samples interleave.
THEOREM Invariance == Spec => []IInv
<1>1. Init => IInv
  BY InitInv
<1>2. IInv /\ [Next]_vars => IInv'
  BY NextInv
<1> QED
  BY <1>1, <1>2, PTL DEF Spec

\* Every message that exists is lent by one endpoint or in the hands of one
\* thread, although threads take, give back, and destroy endpoints at once; what
\* the application holds is lent; and the raw loans zzdds waits for are those of
\* the samples being read.
THEOREM EveryLoanIsAccounted == Spec => []LoansAccounted
<1>1. ASSUME IInv
      PROVE  LoansAccounted
  <2>1. created = (UNION {loaned[e] : e \in Lenders}) \cup (UNION {InHand(t) : t \in Threads})
    <3> DEFINE L == UNION {loaned[e] : e \in Lenders}
               H == UNION {InHand(t) : t \in Threads}
    <3>1. /\ created \subseteq Messages
          /\ \A e \in Lenders : loaned[e] \subseteq Messages
          /\ \A t \in Threads : InHand(t) \subseteq Messages
      BY <1>1, HandsTyped DEF IInv, TypeOK
    <3>2. \A m \in Messages :
            m \in created <=> \/ \E e \in Lenders : m \in loaned[e]
                              \/ \E t \in Threads : m \in InHand(t)
      BY <1>1 DEF IInv, MessagesAccounted
    <3>3. ASSUME NEW m
          PROVE  m \in created <=> \/ \E e \in Lenders : m \in loaned[e]
                                   \/ \E t \in Threads : m \in InHand(t)
      BY <3>1, <3>2
    <3>4. \A m : m \in L <=> \E e \in Lenders : m \in loaned[e]
      OBVIOUS
    <3>5. \A m : m \in H <=> \E t \in Threads : m \in InHand(t)
      OBVIOUS
    <3> HIDE DEF L, H
    <3>6. created = L \cup H
      BY <3>3, <3>4, <3>5
    <3> QED
      BY <3>6 DEF L, H
  <2>2. raw = Cardinality({t \in Threads : \/ pc[t] \in {"lookup", "check", "read"}
                                           \/ pc[t] = "info" /\ frame[t].op = "serialized_with_info"})
    BY <1>1 DEF IInv, RawAccounted, HoldsRaw
  <2> QED
    BY <1>1, <2>1, <2>2 DEF IInv, MessagesAccounted, LoansAccounted
<1>2. IInv => LoansAccounted
  BY <1>1
<1> QED
  BY <1>2, Invariance, PTL


-----------------------------------------------------------------------------
(* The stream a subscription promises.  The lemmas on SampleStream's actions *)
(* say what a step of thread t has to do to be one of them.                  *)

\* What SampleStream sees of thread t: whether its sample has been found to be
\* its to see, and how its call stands.
Keeps(t) == pc[t] \in {"read", "record", "info", "unrecord", "discard"}
Stands(t) ==
  CASE pc[t] = "failed" -> "error"
    [] pc[t] \in {"idle", "write", "destroy", "walk"} -> "returned"
    [] OTHER -> "pending"

\* A step of the implementation is a step of the stream, or none.
StreamStep == Stream!Next \/ UNCHANGED Stream!stream

\* How a step of thread t looks to the stream.
LEMMA SeenStep ==
  ASSUME NEW t \in Threads, OnlyMoves(t)
  PROVE  /\ [u \in Threads |-> frame[u].sample]'
              = [[u \in Threads |-> frame[u].sample] EXCEPT ![t] = frame'[t].sample]
         /\ [u \in Threads |-> Stands(u)]'
              = [[u \in Threads |-> Stands(u)] EXCEPT ![t] = Stands(t)']
         /\ {u \in Threads : Keeps(u)}'
              = IF Keeps(t)' THEN {u \in Threads : Keeps(u)} \cup {t}
                ELSE {u \in Threads : Keeps(u)} \ {t}
<1>1. \A u \in Threads \ {t} : /\ frame'[u].sample = frame[u].sample
                               /\ Stands(u)' = Stands(u)
                               /\ Keeps(u)' <=> Keeps(u)
  BY DEF OnlyMoves, Stands, Keeps
<1>2. [u \in Threads |-> frame[u].sample]'
        = [[u \in Threads |-> frame[u].sample] EXCEPT ![t] = frame'[t].sample]
  BY <1>1
<1>3. [u \in Threads |-> Stands(u)]'
        = [[u \in Threads |-> Stands(u)] EXCEPT ![t] = Stands(t)']
  BY <1>1
<1>4. {u \in Threads : Keeps(u)}'
        = IF Keeps(t)' THEN {u \in Threads : Keeps(u)} \cup {t}
          ELSE {u \in Threads : Keeps(u)} \ {t}
  BY <1>1
<1> QED
  BY <1>2, <1>3, <1>4

LEMMA SeenChange ==
  ASSUME NEW t \in Threads, OnlyMoves(t), samples' = samples,
         frame'[t].sample = frame[t].sample, Keeps(t)' <=> Keeps(t),
         \/ Stands(t)' = Stands(t)
         \/ Stands(t) = "error" /\ Stands(t)' = "returned"
  PROVE  StreamStep
<1>1. /\ [u \in Threads |-> frame[u].sample]' = [u \in Threads |-> frame[u].sample]
      /\ {u \in Threads : Keeps(u)}' = {u \in Threads : Keeps(u)}
  BY SeenStep
<1>2. \/ [u \in Threads |-> Stands(u)]' = [u \in Threads |-> Stands(u)]
      \/ Stream!Look(t)
  <2>1. CASE Stands(t)' = Stands(t)
    BY <2>1, SeenStep
  <2>2. CASE Stands(t) = "error" /\ Stands(t)' = "returned"
    BY <2>2, SeenStep DEF Stream!Look, Stream!Come, Stands
  <2> QED
    BY <2>1, <2>2
<1>3. (open \cap Own)' \in SUBSET Own
  OBVIOUS
<1>4. Stream!Change
  BY <1>1, <1>2, <1>3 DEF Stream!Change, Keeps, Stands
<1> QED
  BY <1>4 DEF StreamStep, Stream!Next

LEMMA SeenLose ==
  ASSUME NEW t \in Threads, OnlyMoves(t), UNCHANGED <<samples, open>>,
         frame[t].sample # <<>>, frame'[t].sample = <<>>, pc'[t] = "failed"
  PROVE  StreamStep
<1>1. Stands(t)' = "error" /\ ~Keeps(t)'
  BY DEF Stands, Keeps
<1>2. Stream!Lose(t)
  BY <1>1, SeenStep DEF Stream!Lose, Stream!Settle, Stream!NoSample, Stream!Come, Keeps, Stands
<1> QED
  BY <1>2 DEF StreamStep, Stream!Next


LEMMA SeenCall ==
  ASSUME NEW t \in Threads, OnlyMoves(t), UNCHANGED <<samples, open>>,
         frame'[t].sample = frame[t].sample, ~Keeps(t), ~Keeps(t)',
         Stands(t) # "pending", Stands(t)' = "pending"
  PROVE  StreamStep
<1>1. /\ [u \in Threads |-> frame[u].sample]' = [u \in Threads |-> frame[u].sample]
      /\ {u \in Threads : Keeps(u)}' = {u \in Threads : Keeps(u)}
  BY SeenStep
<1>2. Stream!Call(t)
  BY <1>1, SeenStep DEF Stream!Call, Stream!Come, Keeps, Stands
<1> QED
  BY <1>2 DEF StreamStep, Stream!Next

LEMMA SeenTakeOut ==
  ASSUME NEW t \in Threads, OnlyMoves(t), open' = open,
         samples # <<>>, samples' = Tail(samples),
         frame[t].sample = <<>>, frame'[t].sample = <<Head(samples)>>,
         ~Keeps(t), ~Keeps(t)', Stands(t) = "pending", Stands(t)' = "pending"
  PROVE  StreamStep
<1>1. /\ [u \in Threads |-> Stands(u)]' = [u \in Threads |-> Stands(u)]
      /\ {u \in Threads : Keeps(u)}' = {u \in Threads : Keeps(u)}
  BY SeenStep
<1>2. /\ [u \in Threads |-> frame[u].sample]'
           = [[u \in Threads |-> frame[u].sample] EXCEPT ![t] = <<Head(samples)>>]
      /\ [u \in Threads |-> frame[u].sample][t] = <<>>
  BY SeenStep
<1>3. [u \in Threads |-> Stands(u)][t] = "pending"
  OBVIOUS
<1>4. Stream!TakeOut(t)
  BY <1>1, <1>2, <1>3 DEF Stream!TakeOut, Stream!NoSample, Keeps, Stands
<1> QED
  BY <1>4 DEF StreamStep, Stream!Next

\* The call of t comes back without a sample.
LEMMA SeenNothing ==
  ASSUME NEW t \in Threads, OnlyMoves(t), UNCHANGED <<samples, open>>,
         frame[t].sample = <<>>, frame'[t].sample = <<>>, ~Keeps(t),
         \/ pc'[t] = "failed"
         \/ pc'[t] = "idle" /\ samples = <<>>
  PROVE  StreamStep
<1>1. ~Keeps(t)' /\ Stands(t)' = IF pc'[t] = "failed" THEN "error" ELSE "returned"
  BY DEF Keeps, Stands
<1>2. /\ [u \in Threads |-> frame[u].sample]' = [u \in Threads |-> frame[u].sample]
      /\ {u \in Threads : Keeps(u)}' = {u \in Threads : Keeps(u)}
  BY <1>1, SeenStep
<1>3. Stream!Fail(t) \/ Stream!Nothing(t)
  BY <1>1, <1>2, SeenStep DEF Stream!Fail, Stream!Nothing, Stream!NoSample, Stream!Come, Keeps, Stands
<1> QED
  BY <1>3 DEF StreamStep, Stream!Next

LEMMA SeenHide ==
  ASSUME NEW t \in Threads, OnlyMoves(t), UNCHANGED <<samples, open>>,
         frame[t].sample # <<>>, frame'[t].sample = <<>>,
         Ignoring, ~Keeps(t), ~Keeps(t)', Sample(t).from \in Own, Stands(t)' = Stands(t)
  PROVE  StreamStep
<1>1. [u \in Threads |-> Stands(u)]' = [u \in Threads |-> Stands(u)]
  BY SeenStep
<1>2. Stream!Settle(t)
  BY SeenStep DEF Stream!Settle, Stream!NoSample, Keeps
<1>3. Stream!Hide(t)
  BY <1>1, <1>2 DEF Stream!Hide, Keeps, Stands, Sample
<1> QED
  BY <1>3 DEF StreamStep, Stream!Next

LEMMA SeenKeep ==
  ASSUME NEW t \in Threads, OnlyMoves(t), UNCHANGED <<samples, open>>,
         frame[t].sample # <<>>, frame'[t].sample = frame[t].sample,
         ~(Ignoring /\ Sample(t).from \in open \cap Own),
         Keeps(t)', Stands(t)' = Stands(t)
  PROVE  StreamStep
<1>1. /\ [u \in Threads |-> frame[u].sample]' = [u \in Threads |-> frame[u].sample]
      /\ [u \in Threads |-> Stands(u)]' = [u \in Threads |-> Stands(u)]
  BY SeenStep
<1>2. Stream!Keep(t)
  BY <1>1, SeenStep DEF Stream!Keep, Stream!NoSample, Keeps, Stands, Sample
<1> QED
  BY <1>2 DEF StreamStep, Stream!Next

\* Settled for good: delivered, or skipped for want of data.
LEMMA SeenDeliver ==
  ASSUME NEW t \in Threads, OnlyMoves(t), UNCHANGED <<samples, open>>,
         Keeps(t), frame[t].sample # <<>>, frame'[t].sample = <<>>, ~Keeps(t)',
         \/ Stands(t)' = "returned"
         \/ Sample(t).data /\ Stands(t)' = Stands(t)
  PROVE  StreamStep
<1>1. Stream!Settle(t)
  BY SeenStep DEF Stream!Settle, Stream!NoSample, Keeps
<1>2. \/ Stream!Come(t, "returned")
      \/ Sample(t).data /\ [u \in Threads |-> Stands(u)]' = [u \in Threads |-> Stands(u)]
  <2>1. CASE Stands(t)' = "returned"
    BY <2>1, SeenStep DEF Stream!Come, Stands
  <2>2. CASE Sample(t).data /\ Stands(t)' = Stands(t)
    BY <2>2, SeenStep
  <2> QED
    BY <2>1, <2>2
<1>3. Stream!Deliver(t) \/ Stream!Skip(t)
  BY <1>1, <1>2 DEF Stream!Deliver, Stream!Skip, Keeps, Stands, Sample
<1> QED
  BY <1>3 DEF StreamStep, Stream!Next

\* What happens to endpoints changes at most whose publishers there are.
LEMMA SeenElsewhere ==
  ASSUME UNCHANGED <<samples, pc, frame>>
  PROVE  StreamStep
<1>1. Stream!Change
  BY DEF Stream!Change
<1> QED
  BY <1>1 DEF StreamStep, Stream!Next

LEMMA SeenArrive ==
  ASSUME NEW p \in Publishers, NEW data \in BOOLEAN, Receive(p, data),
         UNCHANGED <<open, pc, frame>>
  PROVE  StreamStep
<1>1. Stream!Arrive(p, data)
  BY DEF Stream!Arrive, Receive
<1> QED
  BY <1>1 DEF StreamStep, Stream!Next


-----------------------------------------------------------------------------
(* Every step of DataPath is one of the stream.                            *)

\* A call that returns has no sample any more.
LEMMA ReturnsSeen ==
  ASSUME TypeOK, NEW t \in Threads, NEW how \in {"idle", "failed"}, Return(t, how)
  PROVE  /\ OnlyMoves(t) /\ pc'[t] = how /\ frame'[t].sample = <<>> /\ ~Keeps(t)'
         /\ Stands(t)' = IF how = "failed" THEN "error" ELSE "returned"
  BY Returns DEF NoFrame, Keeps, Stands

\* Where a thread takes, and where it has a sample.
LEMMA TakingSeen ==
  ASSUME IInv, NEW t \in Threads
  PROVE  /\ pc[t] \in Taking => Stands(t) = "pending"
         /\ pc[t] \in Seeing <=> frame[t].sample # <<>>
         /\ Keeps(t) => pc[t] \in Seeing
         /\ Idle(t) => Stands(t) \in {"returned", "error"}
  BY DEF IInv, FramesFit, FrameFits, Taking, Seeing, Stands, Keeps, Idle

LEMMA HandsOverSeen ==
  ASSUME IInv, NEW t \in Threads, HandOver(t), UNCHANGED <<samples, open>>,
         pc[t] \in {"read", "record", "info"}, Sample(t).data
  PROVE  StreamStep
<1>1. Keeps(t) /\ frame[t].sample # <<>> /\ Stands(t) = "pending"
  BY TakingSeen DEF Keeps, Taking, Seeing
<1>2. CASE frame[t].left > 1
  <2> DEFINE f == [[frame[t] EXCEPT !.left = frame[t].left - 1] EXCEPT !.sample = <<>>]
  <2>1. pc' = [pc EXCEPT ![t] = "take"] /\ frame' = [frame EXCEPT ![t] = f]
    BY <1>2 DEF HandOver, Go, IInv, TypeOK
  <2>2. f.sample = <<>>
    BY <1>2, FrameTypes DEF IInv, TypeOK, Frames
  <2>3. OnlyMoves(t) /\ pc'[t] = "take" /\ frame'[t].sample = <<>>
    BY <2>1, <2>2 DEF IInv, TypeOK, OnlyMoves
  <2>4. ~Keeps(t)' /\ Stands(t)' = "pending"
    BY <2>3 DEF Keeps, Stands
  <2> QED
    BY <1>1, <2>3, <2>4, SeenDeliver
<1>3. CASE ~(frame[t].left > 1)
  <2>1. Return(t, "idle")
    BY <1>3 DEF HandOver
  <2> QED
    BY <1>1, <2>1, ReturnsSeen, SeenDeliver DEF IInv
<1> QED
  BY <1>2, <1>3

\* A take that fails with a sample has lost it.
LEMMA LosesSeen ==
  ASSUME IInv, NEW t \in Threads, pc[t] \in Seeing, ComeBack(t, "failed"), UNCHANGED <<samples, open>>
  PROVE  StreamStep
<1>1. Return(t, "failed") /\ frame[t].sample # <<>>
  BY TakingSeen DEF ComeBack
<1> QED
  BY <1>1, ReturnsSeen, SeenLose DEF IInv

LEMMA GoesOnSeen ==
  ASSUME IInv, NEW t \in Threads, NEW where \in Places, Go(t, where),
         UNCHANGED <<frame, samples>>,
         \/ {pc[t], where} \subseteq {"read", "record", "info", "unrecord", "discard"}
         \/ pc[t] = "lookup" /\ where = "check"
         \/ pc[t] = "write" /\ where = "destroy"
  PROVE  StreamStep
<1>1. /\ OnlyMoves(t) /\ pc'[t] = where /\ frame'[t] = frame[t]
  BY GoesOn DEF IInv
<1>2. (Keeps(t)' <=> Keeps(t)) /\ Stands(t)' = Stands(t)
  BY <1>1 DEF Keeps, Stands
<1> QED
  BY <1>1, <1>2, SeenChange

LEMMA BeginTakeSeen ==
  ASSUME IInv, NEW t \in Threads, NEW op \in Takes, BeginTake(t, op)
  PROVE  StreamStep
<1>1. /\ Idle(t) /\ UNCHANGED <<samples, open>>
      /\ frame[t].sample = <<>> /\ ~Keeps(t) /\ Stands(t) # "pending"
  BY TakingSeen DEF BeginTake, Idle, Seeing, Keeps
<1>2. CASE Return(t, "failed")
  BY <1>1, <1>2, ReturnsSeen, SeenNothing DEF IInv
<1>3. ASSUME NEW m \in IF Lends(op) THEN Messages \ created ELSE {None},
             Go(t, "take"),
             frame' = [frame EXCEPT ![t] =
                         [NoFrame EXCEPT !.op = op, !.message = m, !.lender = Sub,
                            !.left = IF op = "sequence" THEN BatchSize ELSE 1]]
      PROVE  StreamStep
  <2>1. OnlyMoves(t) /\ pc'[t] = "take" /\ frame'[t].sample = <<>>
    BY <1>3, BeginningFrame DEF IInv, TypeOK, OnlyMoves, Go
  <2>2. ~Keeps(t)' /\ Stands(t)' = "pending"
    BY <2>1 DEF Keeps, Stands
  <2> QED
    BY <1>1, <2>1, <2>2, SeenCall
<1> QED
  BY <1>2, <1>3 DEF BeginTake

\* The oldest sample is taken out of the reader, by one thread.
LEMMA TakeSampleSeen ==
  ASSUME IInv, NEW t \in Threads, TakeSample(t)
  PROVE  StreamStep
<1>1. /\ pc[t] = "take" /\ samples # <<>> /\ samples' = Tail(samples) /\ open' = open
      /\ Go(t, "lookup")
      /\ frame' = [frame EXCEPT ![t] = [frame[t] EXCEPT !.sample = <<Head(samples)>>]]
  BY DEF IInv, TypeOK, TakeSample, LeftByTake
<1>2. frame[t].sample = <<>> /\ ~Keeps(t) /\ Stands(t) = "pending"
  BY <1>1, TakingSeen DEF Taking, Seeing, Keeps
<1>3. OnlyMoves(t) /\ pc'[t] = "lookup" /\ frame'[t].sample = <<Head(samples)>>
  BY <1>1 DEF IInv, TypeOK, Frames, OnlyMoves, Go
<1>4. ~Keeps(t)' /\ Stands(t)' = "pending"
  BY <1>3 DEF Keeps, Stands
<1> QED
  BY <1>1, <1>2, <1>3, <1>4, SeenTakeOut

LEMMA TakeNothingSeen ==
  ASSUME IInv, NEW t \in Threads, TakeNothing(t) \/ TakeFails(t)
  PROVE  StreamStep
<1>1. /\ pc[t] = "take" /\ UNCHANGED <<samples, open>>
      /\ Return(t, "failed") \/ (Return(t, "idle") /\ samples = <<>>)
  <2>1. CASE TakeNothing(t)
    <3>1. PICK ok \in BOOLEAN : ComeBack(t, IF ok THEN "idle" ELSE "failed")
      BY <2>1 DEF TakeNothing, Outcomes
    <3> QED
      BY <2>1, <3>1 DEF TakeNothing, ComeBack
  <2>2. CASE TakeFails(t)
    BY <2>2 DEF TakeFails, ComeBack
  <2> QED
    BY <2>1, <2>2
<1>2. frame[t].sample = <<>> /\ ~Keeps(t)
  BY <1>1, TakingSeen DEF Taking, Seeing, Keeps
<1> QED
  BY <1>1, <1>2, ReturnsSeen, SeenNothing DEF IInv


\* A sample whose publisher zzdds cannot tell the GUID of is shown: its publisher
\* is none of this participant's, for zzdds knows those there are.
LEMMA LookUpPublisherSeen ==
  ASSUME IInv, NEW t \in Threads, LookUpPublisher(t)
  PROVE  StreamStep
<1>1. pc[t] = "lookup" /\ UNCHANGED <<samples, open>>
  BY DEF LookUpPublisher
<1>2. CASE ComeBack(t, "failed")
  BY <1>1, <1>2, LosesSeen DEF Seeing
<1>3. CASE /\ Ignoring /\ KnowsPublisher(t)
           /\ Go(t, "check") /\ UNCHANGED frame
  BY <1>1, <1>3, GoesOnSeen DEF Places, Taking, Seeing
<1>4. CASE /\ ~(Ignoring /\ KnowsPublisher(t))
           /\ Go(t, "read") /\ UNCHANGED frame
  <2>1. OnlyMoves(t) /\ pc'[t] = "read" /\ frame'[t] = frame[t]
    BY <1>4, GoesOn DEF IInv, Places, Taking, Seeing
  <2>2. frame[t].sample # <<>> /\ Keeps(t)' /\ Stands(t) = "pending" /\ Stands(t)' = "pending"
    BY <1>1, <2>1, TakingSeen DEF Taking, Seeing, Keeps, Stands
  <2>3. ~(Ignoring /\ Sample(t).from \in open \cap Own)
    BY <1>4, DataPathConstants DEF IInv, EndpointsAreKnown, KnowsPublisher
  <2> QED
    BY <1>1, <2>1, <2>2, <2>3, SeenKeep
<1> QED
  BY <1>2, <1>3, <1>4 DEF LookUpPublisher

\* What is hidden comes from a publisher of this participant, and what is shown
\* from none it has (rmw_data_plane.cpp is_local_publication).
LEMMA CheckPublisherSeen ==
  ASSUME IInv, NEW t \in Threads, CheckPublisher(t)
  PROVE  StreamStep
<1>1. /\ pc[t] = "check" /\ UNCHANGED <<samples, open>> /\ Ignoring
      /\ frame[t].sample # <<>> /\ ~Keeps(t) /\ Stands(t) = "pending"
  BY TakingSeen DEF IInv, FramesFit, FrameFits, CheckPublisher, Taking, Seeing, Keeps
<1>2. CASE Sample(t).from \in registered /\ Hide(t)
  <2>1. OnlyMoves(t) /\ pc'[t] = "take" /\ frame'[t].sample = <<>>
    BY <1>2 DEF IInv, TypeOK, Frames, OnlyMoves, Hide, Go
  <2>2. ~Keeps(t)' /\ Stands(t)' = "pending" /\ Sample(t).from \in Own
    BY <1>2, <2>1 DEF IInv, TypeOK, Keeps, Stands
  <2> QED
    BY <1>1, <2>1, <2>2, SeenHide
<1>3. CASE Sample(t).from \notin registered /\ Go(t, "read") /\ UNCHANGED frame
  <2>1. OnlyMoves(t) /\ pc'[t] = "read" /\ frame'[t] = frame[t]
    BY <1>3, GoesOn DEF IInv, Places, Taking, Seeing
  <2>2. Keeps(t)' /\ Stands(t)' = "pending" /\ Sample(t).from \notin open \cap Own
    BY <1>3, <2>1 DEF IInv, EndpointsAreKnown, Keeps, Stands
  <2> QED
    BY <1>1, <2>1, <2>2, SeenKeep
<1> QED
  BY <1>2, <1>3 DEF CheckPublisher

LEMMA ReadSampleSeen ==
  ASSUME IInv, NEW t \in Threads, ReadSample(t)
  PROVE  StreamStep
<1> DEFINE op == frame[t].op
<1>1. pc[t] = "read" /\ UNCHANGED <<samples, open>>
  BY DEF ReadSample
<1>2. CASE ComeBack(t, "failed")
  BY <1>1, <1>2, LosesSeen DEF Seeing
<1>3. CASE ComeBack(t, "idle")
  <2>1. Keeps(t) /\ frame[t].sample # <<>> /\ Return(t, "idle")
    BY <1>1, <1>3, TakingSeen DEF Seeing, Keeps, ComeBack
  <2> QED
    BY <1>1, <2>1, ReturnsSeen, SeenDeliver DEF IInv
<1>4. CASE Go(t, IF Lends(op) THEN "record" ELSE "info") /\ UNCHANGED frame
  BY <1>1, <1>4, GoesOnSeen DEF Places, Taking, Seeing
<1>5. CASE Sample(t).data /\ HandOver(t)
  BY <1>1, <1>5, HandsOverSeen
<1> QED
  BY <1>2, <1>3, <1>4, <1>5 DEF ReadSample

LEMMA LoanStepsSeen ==
  ASSUME IInv, NEW t \in Threads,
         RecordLoan(t) \/ FillInfo(t) \/ UnrecordLoan(t) \/ DiscardLoan(t)
  PROVE  StreamStep
<1>1. /\ pc[t] \in {"record", "info", "unrecord", "discard"} /\ Sample(t).data
      /\ UNCHANGED <<samples, open>>
  BY DEF IInv, FramesFit, FrameFits, RecordLoan, FillInfo, UnrecordLoan, DiscardLoan
<1>2. CASE ComeBack(t, "failed")
  BY <1>1, <1>2, LosesSeen DEF Seeing
<1>3. CASE HandOver(t) /\ pc[t] \in {"record", "info"}
  BY <1>1, <1>3, HandsOverSeen
<1>4. CASE /\ UNCHANGED frame
           /\ Go(t, "info") \/ Go(t, "unrecord") \/ Go(t, "discard")
  BY <1>1, <1>4, GoesOnSeen DEF Places, Taking, Seeing
<1> QED
  BY <1>2, <1>3, <1>4 DEF RecordLoan, FillInfo, UnrecordLoan, DiscardLoan, TakeBack

\* Giving messages back and destroying endpoints is nothing to the stream, which
\* learns of a failed call's error then at the latest.
LEMMA MovesOnSeen ==
  ASSUME IInv, NEW t \in Threads, Idle(t), samples' = samples,
         NEW where \in {"write", "destroy", "walk"}, Go(t, where),
         NEW f, f.sample = <<>>, frame' = [frame EXCEPT ![t] = f]
  PROVE  StreamStep
<1>1. frame[t].sample = <<>> /\ ~Keeps(t)
  BY TakingSeen DEF Idle, Seeing, Keeps
<1>2. OnlyMoves(t) /\ pc'[t] = where /\ frame'[t].sample = <<>>
  BY DEF IInv, TypeOK, OnlyMoves, Go
<1>3. ~Keeps(t)' /\ Stands(t)' = "returned" /\ Stands(t) \in {"returned", "error"}
  BY <1>2, TakingSeen DEF Keeps, Stands
<1> QED
  BY <1>1, <1>2, <1>3, SeenChange

LEMMA GiveBackSeen ==
  ASSUME IInv, NEW t \in Threads, NEW e \in Lenders, NEW m \in Messages,
         NEW publishing \in BOOLEAN, GiveBack(t, e, m, publishing)
  PROVE  StreamStep
<1> DEFINE f == [op |-> "none", sample |-> <<>>, message |-> m, lender |-> e, left |-> 0]
<1>1. CASE UNCHANGED <<samples, frame, pc>>
  BY <1>1, SeenElsewhere
<1>2. CASE frame' = [frame EXCEPT ![t] = f] /\ Go(t, IF publishing THEN "write" ELSE "destroy")
  <2>1. Idle(t) /\ samples' = samples /\ f.sample = <<>>
    BY DEF GiveBack
  <2> HIDE DEF f
  <2> QED
    BY <1>2, <2>1, MovesOnSeen
<1> QED
  BY <1>1, <1>2, GivingFrame DEF GiveBack

LEMMA CloseSeen ==
  ASSUME IInv, NEW t \in Threads, NEW e \in Lenders, CloseEndpoint(t, e)
  PROVE  StreamStep
<1> DEFINE f == [NoFrame EXCEPT !.lender = e]
<1>1. /\ Idle(t) /\ samples' = samples /\ Go(t, "walk")
      /\ frame' = [frame EXCEPT ![t] = f] /\ f.sample = <<>>
  BY DEF CloseEndpoint, NoFrame
<1> HIDE DEF f
<1> QED
  BY <1>1, MovesOnSeen

LEMMA GivenBackSeen ==
  ASSUME IInv, NEW t \in Threads, WriteLoan(t) \/ DestroyMessage(t) \/ WalkLoans(t)
  PROVE  StreamStep
<1>1. /\ samples' = samples /\ pc[t] \in {"write", "destroy", "walk"}
      /\ frame[t].sample = <<>> /\ ~Keeps(t) /\ Stands(t) = "returned"
  BY TakingSeen DEF WriteLoan, DestroyMessage, WalkLoans, Seeing, Taking, Keeps, Stands
<1>2. CASE WriteLoan(t)
  BY <1>1, <1>2, GoesOnSeen DEF WriteLoan, Places, GivingBack
<1>3. CASE Return(t, "idle")
  BY <1>1, <1>3, ReturnsSeen, SeenChange DEF IInv
<1> QED
  BY <1>2, <1>3 DEF DestroyMessage, WalkLoans

LEMMA WorldSeen ==
  ASSUME NEW p \in Publishers, OpenPublisher(p) \/ Publish(p) \/ Arrive(p) \/ Unmatch(p)
  PROVE  StreamStep
<1>1. CASE OpenPublisher(p) \/ Publish(p)
  BY <1>1, SeenElsewhere DEF OpenPublisher, Publish
<1>2. CASE Arrive(p)
  BY <1>2, SeenArrive DEF Arrive
<1>3. CASE Unmatch(p)
  BY <1>3, SeenArrive, SeenElsewhere DEF Unmatch
<1> QED
  BY <1>1, <1>2, <1>3

LEMMA NextSeen ==
  ASSUME IInv, [Next]_vars
  PROVE  StreamStep
<1>1. ASSUME NEW t \in Threads, Call(t)
      PROVE  StreamStep
  <2>1. ASSUME NEW op \in Takes, BeginTake(t, op)
        PROVE  StreamStep
    BY <2>1, BeginTakeSeen
  <2>2. ASSUME NEW p \in Own, Borrow(t, p)
        PROVE  StreamStep
    BY <2>2, SeenElsewhere DEF Borrow
  <2>3. ASSUME NEW e \in Lenders, NEW m \in Messages, NEW publishing \in BOOLEAN,
               GiveBack(t, e, m, publishing)
        PROVE  StreamStep
    BY <2>3, GiveBackSeen
  <2>4. ASSUME NEW e \in Lenders, CloseEndpoint(t, e)
        PROVE  StreamStep
    BY <2>4, CloseSeen
  <2> QED
    BY <1>1, <2>1, <2>2, <2>3, <2>4 DEF Call
<1>2. ASSUME NEW t \in Threads, TakeStep(t)
      PROVE  StreamStep
  BY <1>2, TakeSampleSeen, TakeNothingSeen, LookUpPublisherSeen, CheckPublisherSeen,
     ReadSampleSeen, LoanStepsSeen DEF TakeStep
<1>3. ASSUME NEW t \in Threads, WriteLoan(t) \/ DestroyMessage(t) \/ WalkLoans(t)
      PROVE  StreamStep
  BY <1>3, GivenBackSeen
<1>4. CASE \E p \in Publishers : OpenPublisher(p) \/ Publish(p) \/ Arrive(p) \/ Unmatch(p)
  BY <1>4, WorldSeen
<1>5. CASE \E r \in Remotes : RemoteLeaves(r)
  BY <1>5, SeenElsewhere DEF RemoteLeaves
<1>6. CASE UNCHANGED vars
  BY <1>6, SeenElsewhere DEF vars
<1> QED
  BY <1>1, <1>2, <1>3, <1>4, <1>5, <1>6 DEF Next, Step

\* Every sample has the fate SampleStream promises, whichever functions take at
\* once and whatever fails: none is delivered twice, lost without an error,
\* hidden from a caller it is for or shown although its publisher is one of this
\* participant's, and a take that comes back without a sample has left none behind,
\* unless the one it took carries no data.
THEOREM StreamIsDelivered == Spec => DeliversStream
<1>1. Init => Stream!Init
  <2> SUFFICES ASSUME Init
               PROVE  Stream!Init
    OBVIOUS
  <2>1. /\ [t \in Threads |-> frame[t].sample] = [t \in Threads |-> <<>>]
        /\ [t \in Threads |-> Stands(t)] = [t \in Threads |-> "returned"]
        /\ {t \in Threads : Keeps(t)} = {}
    BY DEF Init, NoFrame, Stands, Keeps
  <2>2. open \cap Own = {} /\ samples = <<>>
    BY DataPathConstants DEF Init
  <2> QED
    BY <2>1, <2>2 DEF Stream!Init, Stream!NoSample, Stands, Keeps
<1>2. IInv /\ [Next]_vars => [Stream!Next]_(Stream!stream)
  BY NextSeen DEF StreamStep
<1> QED
  BY <1>1, <1>2, Invariance, PTL DEF Spec, DeliversStream, Stream!Spec

-----------------------------------------------------------------------------
(* QoS policies (see Conversions).                                         *)

\* The QoS an endpoint reports is one that can be applied, and an endpoint
\* created with it reports the same, whatever the defaults for its kind are.
THEOREM ReportedQosIsStable ==
  ASSUME NEW q \in RmwQos, Applicable(q), NEW d \in DdsQos, NEW e \in DdsQos
  PROVE  /\ Applicable(ActualQos(q, d))
         /\ ActualQos(ActualQos(q, d), e) = ActualQos(q, d)
<1> DEFINE r == ActualQos(q, d)
<1>1. /\ r.reliability \in {"reliable", "best_effort"}
      /\ r.durability \in {"volatile", "transient_local"}
      /\ r.history \in {"keep_last", "keep_all"}
      /\ r.liveliness \in {"automatic", "manual_by_topic"}
  BY DEF ActualQos, Resolved, Applied, Chosen, Applicable, RmwQos, DdsQos
<1>2. r.depth \in 0 .. MaxInt32 /\ (r.history = "keep_all" => r.depth = 0)
  <2>1. MaxInt32 \in Nat
    BY SMT DEF MaxInt32
  <2>2. Applied(q, d).depth \in Int /\ Applied(q, d).depth <= MaxInt32
    BY <2>1 DEF Applied, Applicable, RmwQos, DdsQos
  <2> QED BY <2>1, <2>2 DEF ActualQos, Resolved
<1>3. r = [reliability |-> r.reliability, durability |-> r.durability, history |-> r.history,
           depth |-> r.depth, liveliness |-> r.liveliness]
  BY DEF ActualQos, Resolved
<1> HIDE DEF r
<1>4. Applicable(r)
  <2>1. MaxInt32 \in Nat
    BY SMT DEF MaxInt32
  <2> QED BY <1>1, <1>2, <2>1 DEF Applicable
<1>5. /\ Resolved(Applied(r, e)).reliability = r.reliability
      /\ Resolved(Applied(r, e)).durability = r.durability
      /\ Resolved(Applied(r, e)).history = r.history
      /\ Resolved(Applied(r, e)).liveliness = r.liveliness
  BY <1>1 DEF Resolved, Applied, Chosen
<1>6. Resolved(Applied(r, e)).depth = r.depth
  <2>1. r.depth \in Int /\ r.depth >= 0
    BY <1>2
  <2> QED BY <1>1, <1>2, <2>1 DEF Resolved, Applied, Chosen
<1>7. ActualQos(r, e) = r
  BY <1>3, <1>5, <1>6 DEF ActualQos, Resolved
<1> QED BY <1>4, <1>7 DEF r

\* A policy that is asked for is the one that is reported, and the depth with
\* it when a history of that depth is kept.
THEOREM ExplicitQosIsKept ==
  ASSUME NEW q \in RmwQos, Applicable(q), NEW d \in DdsQos
  PROVE  LET r == ActualQos(q, d) IN
         /\ q.reliability # "system_default" => r.reliability = q.reliability
         /\ q.durability # "system_default" => r.durability = q.durability
         /\ q.history # "system_default" => r.history = q.history
         /\ q.history = "keep_last" => r.depth = q.depth
         /\ q.liveliness # "system_default" => r.liveliness = q.liveliness
BY DEF ActualQos, Resolved, Applied, Chosen, Applicable, RmwQos, DdsQos

-----------------------------------------------------------------------------
(* Serialized messages (see Conversions).                                  *)

\* A buffer never claims bytes it does not have, and a message that could not
\* be serialized leaves the one before it in place, though the buffer may have
\* been enlarged for it.
THEOREM SerializingKeepsBuffersValid ==
  ASSUME NEW m \in [length : Nat, capacity : Nat], ValidSerialized(m),
         NEW size \in Nat, NEW enlarged \in BOOLEAN, NEW bytes \in Nat
  PROVE  LET r == Serialized(m, size, enlarged, bytes) IN
         /\ ValidSerialized(r.message)
         /\ r.message.capacity >= m.capacity
         /\ r.ok => r.message.length = size /\ size >= 4
         /\ ~r.ok => r.message.length = m.length
BY SMT DEF Serialized, ValidSerialized, MaxUInt64
===============================================================================
