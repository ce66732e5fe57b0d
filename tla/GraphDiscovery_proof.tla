------------------------- MODULE GraphDiscovery_proof -------------------------
(***************************************************************************)
(* Proofs about GraphDiscovery, for any number of endpoints and threads,   *)
(* however endpoints come and go, whoever takes their samples in whatever  *)
(* batches, and whatever takes and returns fail: if every description can  *)
(* be read, no sample is lost and every answer is current.                 *)
(***************************************************************************)
EXTENDS GraphDiscovery, TLAPS

-----------------------------------------------------------------------------
(* The samples a refresh takes.                                            *)

\* What zzdds tells of remote endpoints.
Samples == [on : Remote, what : {"data", "gone"}, n : Nat]

\* The loop over the samples of an endpoint's kind.
LoopOf(e) == IF Kind(e) = "writer" THEN "publications" ELSE "subscriptions"

\* The samples on e of a set.
On(e, samples) == {s \in samples : s.on = e}

\* Every variable has its type.
TypeOK ==
  /\ present \in SUBSET Remote
  /\ changes \in Nat
  /\ inbox \in [Kinds -> SUBSET Samples]
  /\ batch \in [Threads -> SUBSET Samples]
  /\ changed \in [Threads -> BOOLEAN]
  /\ known \in SUBSET Remote
  /\ cache \in SUBSET Remote
  /\ guard \in BOOLEAN
  /\ phase \in [Threads -> Phases]
  /\ half \in [Threads -> SUBSET Remote]
  /\ steady \in [Threads -> SUBSET Remote]
  /\ view \in SUBSET Remote
  /\ failed \in BOOLEAN

\* One thread at a time holds the context's mutex.
OneRefresh ==
  \A t, u \in Threads : phase[t] \in Locked /\ phase[u] \in Locked => t = u

\* Samples are where those of their kind belong: in the inbox of that kind, or
\* lent to a thread in the loop over it.
InPlace ==
  /\ \A k \in Kinds : \A s \in inbox[k] : Kind(s.on) = k
  /\ \A t \in Threads : \A s \in batch[t] : phase[t] = LoopOf(s.on)

\* Samples are numbered as they came: of those of an endpoint that wait, no two
\* have the same number, and those lent came before those in the inbox.
InOrder ==
  /\ \A e \in Remote : \A s \in Waiting(e) :
       /\ s.n <= changes
       /\ \A o \in Waiting(e) : s.n = o.n => s = o
  /\ \A t \in Threads : \A s \in batch[t] : \A o \in inbox[Kind(s.on)] : s.n < o.n

\* What is recorded is what is in the graph, and none of it should not be.
RecordsMatch == known = cache /\ cache \subseteq Visible

\* A refresh of t has taken the samples of e's kind that waited when it came to them.
Reached(t, e) ==
  \/ phase[t] = LoopOf(e)
  \/ phase[t] \in {"next", "subscriptions"} /\ Kind(e) = "writer"
  \/ phase[t] \in {"tell", "read"} \cup Kinds

\* Of an endpoint that has not come or gone since the query of t began, what is
\* lent to t tells the truth in the end, and nothing that waits elsewhere tells
\* otherwise.
SteadyIsTold ==
  \A t \in Threads : \A e \in steady[t] :
    /\ e \in Visible
    /\ Reached(t, e) =>
         /\ TellsPresent(e, On(e, batch[t])) <=> e \in present
         /\ \A s \in Waiting(e) \ batch[t] : s.what = "data" /\ e \in present

\* What is read first of an answer is right about its kind, and says nothing of
\* the other.
HalfIsRight ==
  \A t \in Threads : phase[t] \in Kinds =>
    /\ \A e \in half[t] : Kind(e) # phase[t]
    /\ \A e \in steady[t] : Kind(e) # phase[t] => (e \in half[t] <=> e \in present)

IInv ==
  /\ TypeOK
  /\ OneRefresh /\ InPlace /\ InOrder
  /\ RecordsMatch /\ GraphIsCurrent
  /\ SteadyIsTold /\ HalfIsRight

-----------------------------------------------------------------------------
(* What a set of samples tells.                                            *)

\* The last of the samples tells that the endpoint is there.
EndsWithData(samples) ==
  \E s \in samples : s.what = "data" /\ \A o \in samples : o.n <= s.n

\* No two of the samples came at once.
Numbered(samples) == \A s, o \in samples : s.n = o.n => s = o

\* The first of several samples does not matter to what they tell.
LEMMA FirstIsOutdated ==
  ASSUME NEW W \in SUBSET Samples, Numbered(W),
         NEW s \in W, \A o \in W : s.n <= o.n, W \ {s} # {}
  PROVE  EndsWithData(W) <=> EndsWithData(W \ {s})
<1>1. \A x \in W : x.n \in Nat
  BY DEF Samples
<1>2. ASSUME NEW x \in W, x.what = "data", \A o \in W : o.n <= x.n
      PROVE  EndsWithData(W \ {s})
  <2>1. PICK y \in W : y # s
    OBVIOUS
  <2>2. x # s
    BY <1>1, <1>2, <2>1 DEF Numbered
  <2> QED BY <1>2, <2>2 DEF EndsWithData
<1>3. ASSUME NEW x \in W \ {s}, x.what = "data", \A o \in W \ {s} : o.n <= x.n
      PROVE  EndsWithData(W)
  BY <1>3 DEF EndsWithData
<1> QED BY <1>2, <1>3 DEF EndsWithData

\* An endpoint's only sample tells what it says.
LEMMA OneTells ==
  ASSUME NEW s \in Samples
  PROVE  EndsWithData({s}) <=> s.what = "data"
BY DEF EndsWithData, Samples

\* The newest of some samples tells what it says for all of them.
LEMMA NewestTells ==
  ASSUME NEW W \in SUBSET Samples, NEW s \in W, \A o \in W \ {s} : o.n < s.n
  PROVE  EndsWithData(W) <=> s.what = "data"
<1>1. s.n \in Nat /\ \A x \in W : x.n \in Nat
  BY DEF Samples
<1>2. ASSUME NEW x \in W, x.what = "data", \A o \in W : o.n <= x.n
      PROVE  s.what = "data"
  <2>1. s.n <= x.n
    BY <1>2
  <2>2. x = s
    BY <1>1, <2>1
  <2> QED BY <1>2, <2>2
<1>3. \A o \in W : o.n <= s.n
  BY <1>1
<1> QED BY <1>2, <1>3 DEF EndsWithData

\* What samples, or if there are none, the endpoints in a graph, say of e.
Says(e, samples, graph) == IF samples = {} THEN e \in graph ELSE EndsWithData(samples)

\* This is what the samples and the cache tell.
LEMMA Tells ==
  ASSUME NEW e, NEW W
  PROVE  TellsPresent(e, W) <=> Says(e, W, cache)
BY DEF TellsPresent, EndsWithData, Says

\* The samples that wait are those in the inbox and those lent.
LEMMA WaitingIs ==
  ASSUME NEW e, NEW s
  PROVE  s \in Waiting(e) <=>
           s.on = e /\ (s \in inbox[Kind(e)] \/ \E t \in Threads : s \in batch[t])
BY DEF Waiting

\* So it is after a step.
LEMMA WaitingWillBe ==
  ASSUME NEW e, NEW s
  PROVE  s \in Waiting(e)' <=>
           s.on = e /\ (s \in inbox'[Kind(e)] \/ \E t \in Threads : s \in batch'[t])
BY DEF Waiting

\* What waits is samples, and it waits with its endpoint.
LEMMA WaitingTyped ==
  ASSUME TypeOK, NEW e \in Remote
  PROVE  /\ Kind(e) \in Kinds
         /\ Waiting(e) \in SUBSET Samples
         /\ \A s \in Waiting(e) : s.on = e /\ s.n \in Nat
<1>1. Kind(e) \in Kinds
  BY DEF Kind, Kinds
<1>2. \A s \in Waiting(e) : s \in Samples /\ s.on = e
  BY <1>1, WaitingIs DEF TypeOK
<1> QED BY <1>1, <1>2 DEF Samples

-----------------------------------------------------------------------------
(* Types.                                                                  *)

\* The phases of a refresh are phases of a query.
LEMMA PhasesAre ==
  /\ Loops \subseteq Locked /\ Locked \subseteq Phases /\ Kinds \subseteq Phases
  /\ {"idle", "refresh", "read"} \subseteq Phases
BY DEF Loops, Locked, Phases, Kinds

\* Every endpoint is of a kind, and every sample is of an endpoint.
LEMMA SamplesAre ==
  /\ \A e \in Remote : Kind(e) \in Kinds
  /\ \A s \in Samples : s.on \in Remote /\ s.what \in {"data", "gone"} /\ s.n \in Nat
  /\ \A e \in Remote, what \in {"data", "gone"} :
       TypeOK => /\ Sample(e, what) \in Samples
                 /\ Sample(e, what).on = e
                 /\ Sample(e, what).what = what
                 /\ Sample(e, what).n = changes + 1
BY DEF Kind, Kinds, Samples, Sample, TypeOK

\* Samples that are delivered are put where samples go.
LEMMA DeliverTyped ==
  ASSUME TypeOK, NEW s \in Samples, Deliver(s)
  PROVE  inbox' \in [Kinds -> SUBSET Samples]
<1>1. Kind(s.on) \in Kinds
  BY SamplesAre
<1> QED BY <1>1 DEF TypeOK, Deliver

\* So are those that are lent.
LEMMA TakeTyped ==
  ASSUME TypeOK, NEW t \in Threads, NEW kind \in Kinds, NEW loop \in Phases, NEW next \in Phases,
         TakeBatch(t, kind, loop, next)
  PROVE  /\ inbox' \in [Kinds -> SUBSET Samples]
         /\ batch' \in [Threads -> SUBSET Samples]
         /\ phase' \in [Threads -> Phases]
         /\ steady' \in [Threads -> SUBSET Remote]
         /\ failed' \in BOOLEAN
         /\ UNCHANGED <<present, changes, graphVars, guard, half, view>>
<1>1. AfterFailure \in Phases
  BY PhasesAre DEF AfterFailure
<1> QED BY <1>1 DEF TypeOK, TakeBatch, GiveUp, Goes

\* A step of the refresh of a thread keeps the types.
LEMMA RefreshTyped ==
  ASSUME TypeOK, NEW t \in Threads, Refresh(t)
  PROVE  TypeOK'
<1>1. CASE TakePublications(t)
  <2>1. "writer" \in Kinds /\ "publications" \in Phases /\ "next" \in Phases
    BY DEF Kinds, Phases, Locked, Loops
  <2>2. TakeBatch(t, "writer", "publications", "next")
    BY <1>1 DEF TakePublications
  <2>3. changed' \in [Threads -> BOOLEAN]
    BY <1>1 DEF TakePublications, TypeOK
  <2> QED BY <2>1, <2>2, <2>3, TakeTyped DEF TypeOK, graphVars
<1>2. CASE TakeSubscriptions(t)
  <2>1. "reader" \in Kinds /\ "subscriptions" \in Phases /\ "tell" \in Phases
    BY DEF Kinds, Phases, Locked, Loops
  <2>2. TakeBatch(t, "reader", "subscriptions", "tell") /\ UNCHANGED changed
    BY <1>2 DEF TakeSubscriptions
  <2> QED BY <2>1, <2>2, TakeTyped DEF TypeOK, graphVars
<1>3. CASE Consume(t)
  <2>1. PICK s \in batch[t] : Remove(t, s) \/ Add(t, s) \/ Break(t, s)
    BY <1>3 DEF Consume
  <2>2. s \in Samples /\ s.on \in Remote
    BY SamplesAre DEF TypeOK
  <2>3. UNCHANGED <<present, changes, inbox, guard, half, view>>
    BY <1>3 DEF Consume, remoteVars
  <2>4. CASE Remove(t, s)
    BY <2>2, <2>3, <2>4 DEF TypeOK, Remove, Rest, Accumulate, graphVars
  <2>5. CASE Add(t, s)
    BY <2>2, <2>3, <2>5 DEF TypeOK, Add, Rest, Accumulate, Recorded, graphVars
  <2>6. CASE Break(t, s)
    <3>1. AfterFailure \in Phases
      BY PhasesAre DEF AfterFailure
    <3> QED BY <2>3, <2>6, <3>1 DEF TypeOK, Break, GiveUp, Goes, graphVars
  <2> QED BY <2>1, <2>4, <2>5, <2>6
<1>4. CASE ReturnLoan(t)
  <2>1. AfterFailure \in Phases /\ "next" \in Phases /\ "tell" \in Phases
    BY DEF AfterFailure, Phases, Locked, Loops
  <2> QED BY <1>4, <2>1 DEF TypeOK, ReturnLoan, GiveUp, Goes, graphVars, remoteVars
<1>5. CASE Tell(t)
  BY <1>5, PhasesAre DEF TypeOK, Tell, Goes, graphVars, remoteVars, loopVars
<1> QED BY <1>1, <1>2, <1>3, <1>4, <1>5 DEF Refresh

\* So does one of its query.
LEMMA QueryTyped ==
  ASSUME TypeOK, NEW t \in Threads, ReadHalf(t) \/ Read(t) \/ Wake(t) \/ Query(t)
  PROVE  TypeOK'
<1>1. ASSUME NEW kind PROVE Cached(kind) \in SUBSET Remote
  BY DEF TypeOK, Cached
<1>2. CASE ReadHalf(t)
  BY <1>1, <1>2, PhasesAre DEF TypeOK, ReadHalf, Goes, graphVars, remoteVars, loopVars
<1>3. CASE Read(t)
  <2>1. Answer(t) \in SUBSET Remote
    BY <1>1 DEF TypeOK, Answer
  <2> QED BY <1>3, <2>1, PhasesAre DEF TypeOK, Read, Goes, graphVars, remoteVars, loopVars
<1>4. CASE Wake(t) \/ Query(t)
  <2>1. Visible \in SUBSET Remote
    BY DEF Visible
  <2> QED BY <1>4, <2>1, PhasesAre
          DEF TypeOK, Wake, Query, Ask, Goes, graphVars, remoteVars, loopVars
<1> QED BY <1>2, <1>3, <1>4

\* So does what the other participants and zzdds do.
LEMMA RemoteTyped ==
  ASSUME TypeOK, NEW e \in Remote, ComeOrGo(e) \/ HearAgain(e)
  PROVE  TypeOK'
<1>1. /\ Sample(e, "data") \in Samples
      /\ Sample(e, IF e \in present THEN "gone" ELSE "data") \in Samples
  BY SamplesAre
<1>2. inbox' \in [Kinds -> SUBSET Samples]
  BY <1>1, DeliverTyped DEF ComeOrGo, HearAgain
<1>3. CASE ComeOrGo(e)
  BY <1>2, <1>3 DEF TypeOK, ComeOrGo, graphVars, loopVars
<1>4. CASE HearAgain(e)
  BY <1>2, <1>4 DEF TypeOK, HearAgain, graphVars, loopVars
<1> QED BY <1>3, <1>4

\* So does every step.
LEMMA NextTyped ==
  ASSUME TypeOK, [Next]_vars
  PROVE  TypeOK'
<1>1. CASE \E e \in Remote : ComeOrGo(e) \/ HearAgain(e)
  BY <1>1, RemoteTyped
<1>2. CASE \E t \in Threads : Step(t) \/ Query(t)
  BY <1>2, RefreshTyped, QueryTyped DEF Step
<1>3. CASE Notify
  BY <1>3 DEF TypeOK, Notify, graphVars, remoteVars, loopVars
<1>4. CASE UNCHANGED vars
  BY <1>4 DEF TypeOK, vars
<1> QED BY <1>1, <1>2, <1>3, <1>4 DEF Next

\* Every variable keeps its type, whatever refresh_discovered_endpoints takes and
\* the queries of the graph read.
THEOREM DiscoveryTypes == Spec => []TypeOK
<1>1. Init => TypeOK
  <2>1. "idle" \in Phases
    BY PhasesAre
  <2>2. /\ [k \in Kinds |-> {}] \in [Kinds -> SUBSET Samples]
        /\ [t \in Threads |-> {}] \in [Threads -> SUBSET Samples]
        /\ [t \in Threads |-> {}] \in [Threads -> SUBSET Remote]
        /\ [t \in Threads |-> FALSE] \in [Threads -> BOOLEAN]
        /\ [t \in Threads |-> "idle"] \in [Threads -> Phases]
    BY <2>1
  <2>3. ASSUME Init PROVE TypeOK
    <3>1. /\ inbox \in [Kinds -> SUBSET Samples] /\ batch \in [Threads -> SUBSET Samples]
          /\ changed \in [Threads -> BOOLEAN] /\ phase \in [Threads -> Phases]
          /\ half \in [Threads -> SUBSET Remote] /\ steady \in [Threads -> SUBSET Remote]
      BY <2>2, <2>3, Zenon DEF Init
    <3>2. /\ present \in SUBSET Remote /\ known \in SUBSET Remote /\ cache \in SUBSET Remote
          /\ view \in SUBSET Remote /\ changes \in Nat
      BY <2>3 DEF Init
    <3>3. guard \in BOOLEAN /\ failed \in BOOLEAN
      BY <2>3 DEF Init
    <3> QED BY <3>1, <3>2, <3>3 DEF TypeOK
  <2> QED BY <2>3
<1> QED BY <1>1, NextTyped, PTL DEF Spec

\* What the graph tells after a step, and what a refresh then knows.
LEMMA WillTell ==
  /\ GraphIsCurrent' <=>
       /\ \A e \in Visible : Says(e, Waiting(e)', cache') <=> e \in present'
       /\ cache' \subseteq Visible
  /\ SteadyIsTold' <=>
       \A t \in Threads : \A e \in steady'[t] :
         /\ e \in Visible
         /\ Reached(t, e)' =>
              /\ Says(e, On(e, batch'[t]), cache') <=> e \in present'
              /\ \A s \in Waiting(e)' \ batch'[t] : s.what = "data" /\ e \in present'
<1>1. GraphIsCurrent' <=>
        /\ \A e \in Visible : Says(e, Waiting(e)', cache') <=> e \in present'
        /\ cache' \subseteq Visible
  BY DEF GraphIsCurrent, TellsPresent, EndsWithData, Says
<1>2. SteadyIsTold' <=>
        \A t \in Threads : \A e \in steady'[t] :
          /\ e \in Visible
          /\ Reached(t, e)' =>
               /\ Says(e, On(e, batch'[t]), cache') <=> e \in present'
               /\ \A s \in Waiting(e)' \ batch'[t] : s.what = "data" /\ e \in present'
  BY DEF SteadyIsTold, TellsPresent, EndsWithData, Says, On
<1> QED BY <1>1, <1>2

-----------------------------------------------------------------------------
(* Steps that deliver nothing, take nothing and change nothing in the graph. *)

\* What waits, and what the graph tells, stays as it is.
Quiet == UNCHANGED <<present, changes, inbox, batch, known, cache>>

\* Nothing is lent to a thread outside its loops, and nothing but samples of the
\* loop's kind in them.
LEMMA LentInLoops ==
  ASSUME IInv, NEW t \in Threads
  PROVE  /\ phase[t] \notin Loops => batch[t] = {}
         /\ \A u \in Threads : phase[t] \in Locked /\ u # t => batch[u] = {}
<1>1. \A u \in Threads : batch[u] # {} => phase[u] \in Loops
  BY DEF IInv, InPlace, LoopOf, Loops
<1> QED BY <1>1, PhasesAre DEF IInv, OneRefresh

\* A quiet step leaves the order, the records and the graph as they are.
LEMMA QuietKeeps ==
  ASSUME IInv, Quiet
  PROVE  InOrder' /\ RecordsMatch' /\ GraphIsCurrent'
<1>1. /\ \A e : Waiting(e)' = Waiting(e)
      /\ \A e, W : TellsPresent(e, W)' <=> TellsPresent(e, W)
  BY DEF Quiet, Waiting, TellsPresent
<1>2. InOrder'
  BY <1>1 DEF IInv, InOrder, Quiet
<1>3. RecordsMatch'
  BY DEF IInv, RecordsMatch, Quiet
<1>4. GraphIsCurrent'
  BY <1>1 DEF IInv, GraphIsCurrent, Quiet
<1> QED BY <1>2, <1>3, <1>4

\* What it has newly reached of an endpoint, a refresh has found with nothing
\* waiting for it.
LEMMA QuietSteady ==
  ASSUME IInv, Quiet,
         \A u \in Threads : \A e \in steady'[u] :
           /\ e \in Visible
           /\ Reached(u, e)' => e \in steady[u] /\ (Reached(u, e) \/ Waiting(e) = {})
  PROVE  SteadyIsTold'
<1>1. /\ \A e : Waiting(e)' = Waiting(e)
      /\ \A e, W : TellsPresent(e, W)' <=> TellsPresent(e, W)
  BY DEF Quiet, Waiting, TellsPresent
<1>2. ASSUME NEW u \in Threads, NEW e \in steady'[u], Reached(u, e)'
      PROVE  /\ TellsPresent(e, On(e, batch[u])) <=> e \in present
             /\ \A s \in Waiting(e) \ batch[u] : s.what = "data" /\ e \in present
  <2>1. CASE Reached(u, e)
    BY <1>2, <2>1 DEF IInv, SteadyIsTold
  <2>2. CASE Waiting(e) = {}
    <3>1. On(e, batch[u]) = {}
      BY <2>2, WaitingIs DEF On
    <3>2. e \in Visible
      BY <1>2
    <3> QED BY <2>2, <3>1, <3>2 DEF IInv, GraphIsCurrent
  <2> QED BY <1>2, <2>1, <2>2
<1> QED BY <1>1, <1>2 DEF SteadyIsTold, Quiet, On

\* A step that leaves what was read, and what a query has to answer, leaves the
\* halves as right as they were.
LEMMA HalfKept ==
  ASSUME IInv, UNCHANGED half,
         \A u \in Threads : phase'[u] \in Kinds => phase'[u] = phase[u],
         \A u \in Threads : phase'[u] \in Kinds => steady'[u] \subseteq steady[u],
         \A u \in Threads : \A e \in steady'[u] : e \in present' <=> e \in present
  PROVE  HalfIsRight'
BY DEF IInv, HalfIsRight

\* Nothing is lent to a thread that does not go through samples.
LEMMA RefreshLends ==
  ASSUME IInv, NEW t \in Threads, phase[t] \in {"refresh", "next", "tell", "read", "idle"} \cup Kinds
  PROVE  batch[t] = {}
BY LentInLoops DEF Loops, Kinds

\* The end of a loop, and a refresh that fails outside a loop or after it.
LEMMA ReturnKeeps ==
  ASSUME IInv, TypeOK', NEW t \in Threads, ReturnLoan(t)
  PROVE  IInv'
<1>1. /\ phase \in [Threads -> Phases] /\ steady \in [Threads -> SUBSET Remote]
      /\ batch \in [Threads -> SUBSET Samples]
  BY DEF IInv, TypeOK
<1>2. /\ phase[t] \in Loops /\ batch[t] = {}
      /\ \A u \in Threads \ {t} : phase'[u] = phase[u] /\ steady'[u] = steady[u]
      /\ \/ /\ phase'[t] = IF phase[t] = "publications" THEN "next" ELSE "tell"
            /\ steady'[t] = steady[t]
         \/ phase'[t] = "idle" /\ steady'[t] = {}
  BY <1>1 DEF ReturnLoan, GiveUp, Goes, AfterFailure
<1>3. batch' = batch
  BY <1>1, <1>2 DEF ReturnLoan, GiveUp
<1>4. Quiet /\ UNCHANGED half
  BY <1>3 DEF ReturnLoan, Quiet, remoteVars, graphVars
<1>5. OneRefresh'
  BY <1>2 DEF IInv, OneRefresh, Locked, Loops
<1>6. InPlace'
  <2>1. \A u \in Threads : \A s \in batch'[u] : phase'[u] = LoopOf(s.on)
    BY <1>2, <1>3 DEF IInv, InPlace
  <2> QED BY <1>4, <2>1 DEF IInv, InPlace, Quiet
<1>7. InOrder' /\ RecordsMatch' /\ GraphIsCurrent'
  BY <1>4, QuietKeeps
<1>8. SteadyIsTold'
  <2>1. ASSUME NEW e, Reached(t, e)', phase'[t] # "idle" PROVE Reached(t, e)
    BY <1>2, <2>1 DEF Reached, LoopOf, Loops, Kinds, Kind
  <2>2. ASSUME NEW u \in Threads, NEW e \in steady'[u], Reached(u, e)'
        PROVE  e \in steady[u] /\ Reached(u, e)
    BY <1>2, <2>1, <2>2 DEF Reached
  <2>3. \A u \in Threads : \A e \in steady'[u] : e \in Visible
    BY <1>2 DEF IInv, SteadyIsTold
  <2> QED BY <1>4, <2>2, <2>3, QuietSteady
<1>9. HalfIsRight'
  <2>1. \A u \in Threads : phase'[u] \in Kinds => u # t
    BY <1>2 DEF Kinds
  <2> QED BY <1>2, <1>4, <2>1, HalfKept DEF Quiet
<1> QED BY <1>5, <1>6, <1>7, <1>8, <1>9 DEF IInv

\* The end of a refresh.
LEMMA TellKeeps ==
  ASSUME IInv, TypeOK', NEW t \in Threads, Tell(t)
  PROVE  IInv'
<1>1. /\ phase[t] = "tell" /\ phase' = [phase EXCEPT ![t] = "read"]
      /\ phase \in [Threads -> Phases]
      /\ UNCHANGED <<half, steady>>
  BY DEF IInv, TypeOK, Tell, Goes
<1>2. Quiet
  BY DEF Tell, Quiet, remoteVars, graphVars, loopVars
<1>3. OneRefresh'
  BY <1>1 DEF IInv, OneRefresh, Locked, Loops
<1>4. InPlace'
  <2>1. batch[t] = {}
    BY <1>1, RefreshLends
  <2>2. \A u \in Threads : \A s \in batch[u] : phase'[u] = LoopOf(s.on)
    BY <1>1, <2>1 DEF IInv, InPlace
  <2> QED BY <1>2, <2>2 DEF IInv, InPlace, Quiet
<1>5. InOrder' /\ RecordsMatch' /\ GraphIsCurrent'
  BY <1>2, QuietKeeps
<1>6. SteadyIsTold'
  <2>1. \A u \in Threads : \A e : Reached(u, e)' => Reached(u, e)
    BY <1>1 DEF Reached
  <2> QED BY <1>1, <1>2, <2>1, QuietSteady DEF IInv, SteadyIsTold
<1>7. HalfIsRight'
  <2>1. \A u \in Threads : phase'[u] \in Kinds => u # t
    BY <1>1 DEF Kinds
  <2> QED BY <1>1, <1>2, <2>1, HalfKept DEF Quiet
<1> QED BY <1>3, <1>4, <1>5, <1>6, <1>7 DEF IInv

\* The beginning of a query, which has reached nothing yet.
LEMMA AskKeeps ==
  ASSUME IInv, TypeOK', NEW t \in Threads, Wake(t) \/ Query(t)
  PROVE  IInv'
<1>1. /\ phase[t] = "idle" /\ phase' = [phase EXCEPT ![t] = "refresh"]
      /\ steady' = [steady EXCEPT ![t] = Visible]
      /\ phase \in [Threads -> Phases] /\ steady \in [Threads -> SUBSET Remote]
      /\ UNCHANGED half
  BY DEF IInv, TypeOK, Wake, Query, Ask, Goes
<1>2. Quiet
  BY DEF Wake, Query, Quiet, remoteVars, graphVars, loopVars
<1>3. OneRefresh'
  BY <1>1 DEF IInv, OneRefresh, Locked, Loops
<1>4. InPlace'
  <2>1. batch[t] = {}
    BY <1>1, RefreshLends
  <2>2. \A u \in Threads : \A s \in batch[u] : phase'[u] = LoopOf(s.on)
    BY <1>1, <2>1 DEF IInv, InPlace
  <2> QED BY <1>2, <2>2 DEF IInv, InPlace, Quiet
<1>5. InOrder' /\ RecordsMatch' /\ GraphIsCurrent'
  BY <1>2, QuietKeeps
<1>6. SteadyIsTold'
  <2>1. \A e : ~Reached(t, e)'
    BY <1>1 DEF Reached, LoopOf, Kinds
  <2>2. \A u \in Threads \ {t} : steady'[u] = steady[u] /\ phase'[u] = phase[u]
    BY <1>1
  <2>3. \A u \in Threads : \A e \in steady'[u] : e \in Visible
    BY <1>1, <2>2 DEF IInv, SteadyIsTold
  <2>4. ASSUME NEW u \in Threads, NEW e \in steady'[u], Reached(u, e)'
        PROVE  e \in steady[u] /\ Reached(u, e)
    BY <2>1, <2>2, <2>4 DEF Reached
  <2> QED BY <1>2, <2>3, <2>4, QuietSteady
<1>7. HalfIsRight'
  <2>1. \A u \in Threads : phase'[u] \in Kinds => u # t
    BY <1>1 DEF Kinds
  <2> QED BY <1>1, <1>2, <2>1, HalfKept DEF Quiet
<1> QED BY <1>3, <1>4, <1>5, <1>6, <1>7 DEF IInv

\* The end of a query.
LEMMA ReadKeeps ==
  ASSUME IInv, TypeOK', NEW t \in Threads, Read(t)
  PROVE  IInv'
<1>1. /\ phase[t] \in Kinds \cup {"read"} /\ phase' = [phase EXCEPT ![t] = "idle"]
      /\ steady' = [steady EXCEPT ![t] = {}] /\ half' = [half EXCEPT ![t] = {}]
      /\ phase \in [Threads -> Phases] /\ steady \in [Threads -> SUBSET Remote]
      /\ half \in [Threads -> SUBSET Remote]
  BY DEF IInv, TypeOK, Read, Goes
<1>2. Quiet
  BY DEF Read, Quiet, remoteVars, graphVars, loopVars
<1>3. OneRefresh'
  BY <1>1 DEF IInv, OneRefresh, Locked, Loops
<1>4. InPlace'
  <2>1. batch[t] = {}
    BY <1>1, RefreshLends
  <2>2. \A u \in Threads : \A s \in batch[u] : phase'[u] = LoopOf(s.on)
    BY <1>1, <2>1 DEF IInv, InPlace
  <2> QED BY <1>2, <2>2 DEF IInv, InPlace, Quiet
<1>5. InOrder' /\ RecordsMatch' /\ GraphIsCurrent'
  BY <1>2, QuietKeeps
<1>6. SteadyIsTold'
  <2>1. \A u \in Threads : steady'[u] \subseteq steady[u]
    BY <1>1
  <2>2. \A u \in Threads : \A e \in steady'[u] : Reached(u, e)' => Reached(u, e)
    BY <1>1 DEF Reached
  <2>3. \A u \in Threads : \A e \in steady'[u] : e \in Visible
    BY <2>1 DEF IInv, SteadyIsTold
  <2> QED BY <1>2, <2>1, <2>2, <2>3, QuietSteady
<1>7. HalfIsRight'
  <2>1. phase'[t] \notin Kinds
    BY <1>1 DEF Kinds
  <2>2. \A u \in Threads \ {t} :
          phase'[u] = phase[u] /\ steady'[u] = steady[u] /\ half'[u] = half[u]
    BY <1>1
  <2> QED BY <1>2, <2>1, <2>2 DEF IInv, HalfIsRight, Quiet
<1> QED BY <1>3, <1>4, <1>5, <1>6, <1>7 DEF IInv

\* The first of two reads: all of what it read is right, and settles its kind.
LEMMA ReadHalfKeeps ==
  ASSUME IInv, TypeOK', NEW t \in Threads, ReadHalf(t)
  PROVE  IInv'
<1>1. PICK kind \in Kinds, rest \in Kinds :
        /\ kind # rest
        /\ half' = [half EXCEPT ![t] = Cached(kind)]
        /\ phase' = [phase EXCEPT ![t] = rest]
  BY DEF ReadHalf, Goes
<1>2. /\ phase[t] = "read" /\ UNCHANGED steady
      /\ phase \in [Threads -> Phases] /\ steady \in [Threads -> SUBSET Remote]
      /\ half \in [Threads -> SUBSET Remote]
  BY DEF IInv, TypeOK, ReadHalf
<1>3. Quiet
  BY DEF ReadHalf, Quiet, remoteVars, graphVars, loopVars
<1>4. OneRefresh'
  BY <1>1, <1>2 DEF IInv, OneRefresh, Locked, Loops, Kinds
<1>5. batch[t] = {}
  BY <1>2, RefreshLends
<1>6. InPlace'
  <2>1. \A u \in Threads : \A s \in batch[u] : phase'[u] = LoopOf(s.on)
    BY <1>1, <1>2, <1>5 DEF IInv, InPlace
  <2> QED BY <1>3, <2>1 DEF IInv, InPlace, Quiet
<1>7. InOrder' /\ RecordsMatch' /\ GraphIsCurrent'
  BY <1>3, QuietKeeps
<1>8. SteadyIsTold'
  <2>1. \A u \in Threads : \A e : Reached(u, e)' => Reached(u, e)
    BY <1>1, <1>2 DEF Reached
  <2> QED BY <1>2, <1>3, <2>1, QuietSteady DEF IInv, SteadyIsTold
<1>9. HalfIsRight'
  <2>1. \A e \in steady[t] : e \in cache <=> e \in present
    <3>1. \A e \in steady[t] : Reached(t, e)
      BY <1>2 DEF Reached
    <3>2. \A e : On(e, batch[t]) = {}
      BY <1>5 DEF On
    <3> QED BY <3>1, <3>2, Tells DEF IInv, SteadyIsTold, Says
  <2>2. phase'[t] = rest /\ half'[t] = Cached(kind)
    BY <1>1, <1>2
  <2>3. \A e \in half'[t] : Kind(e) # phase'[t]
    BY <1>1, <2>2 DEF Cached
  <2>4. \A e \in steady'[t] : Kind(e) # phase'[t] => (e \in half'[t] <=> e \in present)
    <3>1. \A e \in Remote : Kind(e) # rest => Kind(e) = kind
      BY <1>1 DEF Kind, Kinds
    <3>2. \A e \in steady[t] : e \in Remote
      BY <1>2
    <3> QED BY <1>2, <2>1, <2>2, <3>1, <3>2 DEF Cached
  <2>5. \A u \in Threads \ {t} :
          phase'[u] = phase[u] /\ steady'[u] = steady[u] /\ half'[u] = half[u]
    BY <1>1, <1>2
  <2> QED BY <1>3, <2>3, <2>4, <2>5 DEF IInv, HalfIsRight, Quiet
<1> QED BY <1>4, <1>6, <1>7, <1>8, <1>9 DEF IInv

\* A trigger that tells of something else, and no step at all.
LEMMA OtherKeeps ==
  ASSUME IInv, TypeOK', Notify \/ UNCHANGED vars
  PROVE  IInv'
<1>1. Quiet /\ UNCHANGED <<phase, half, steady>>
  BY DEF Notify, Quiet, remoteVars, graphVars, loopVars, vars
<1>2. OneRefresh' /\ InPlace'
  BY <1>1 DEF IInv, OneRefresh, InPlace, Quiet
<1>3. InOrder' /\ RecordsMatch' /\ GraphIsCurrent'
  BY <1>1, QuietKeeps
<1>4. SteadyIsTold'
  <2>1. \A u \in Threads : \A e : Reached(u, e)' <=> Reached(u, e)
    BY <1>1 DEF Reached
  <2> QED BY <1>1, <2>1, QuietSteady DEF IInv, SteadyIsTold
<1>5. HalfIsRight'
  BY <1>1, HalfKept DEF Quiet
<1> QED BY <1>2, <1>3, <1>4, <1>5 DEF IInv

-----------------------------------------------------------------------------
(* Samples are taken from zzdds.                                           *)

\* What follows for the queries when a refresh finds no samples of a kind, or
\* fails to take them, and so lends nothing.
LEMMA NothingTaken ==
  ASSUME IInv, TypeOK', NEW t \in Threads, NEW kind \in Kinds, NEW next,
         \/ phase[t] = "refresh" /\ kind = "writer" /\ next = "next"
         \/ phase[t] = "next" /\ kind = "reader" /\ next = "tell",
         \A u \in Threads \ {t} : phase[u] \notin Locked,
         Quiet, UNCHANGED half,
         \/ phase' = [phase EXCEPT ![t] = next] /\ inbox[kind] = {} /\ UNCHANGED steady
         \/ phase' = [phase EXCEPT ![t] = "idle"] /\ steady' = [steady EXCEPT ![t] = {}]
  PROVE  IInv'
<1>1. /\ phase \in [Threads -> Phases] /\ steady \in [Threads -> SUBSET Remote]
      /\ batch \in [Threads -> SUBSET Samples]
  BY DEF IInv, TypeOK
<1>2. \A u \in Threads : batch[u] = {}
  BY LentInLoops, RefreshLends, PhasesAre
<1>3. OneRefresh'
  BY <1>1 DEF OneRefresh
<1>4. InPlace'
  BY <1>2 DEF IInv, InPlace, Quiet
<1>5. InOrder' /\ RecordsMatch' /\ GraphIsCurrent'
  BY QuietKeeps
<1>6. \A u \in Threads \ {t} : phase'[u] = phase[u] /\ steady'[u] = steady[u]
  BY <1>1
<1>7. SteadyIsTold'
  <2>1. \A u \in Threads : \A e \in steady'[u] : e \in steady[u] /\ e \in Visible
    BY <1>1 DEF IInv, SteadyIsTold
  <2>2. ASSUME NEW e \in steady'[t], Reached(t, e)'
        PROVE  Reached(t, e) \/ Waiting(e) = {}
    <3>1. phase'[t] = next /\ inbox[kind] = {}
      BY <1>1, <2>2 DEF Reached, LoopOf, Kinds
    <3>2. CASE Kind(e) = kind
      BY <1>2, <3>1, <3>2, WaitingIs
    <3>3. CASE Kind(e) # kind
      BY <2>2, <3>1, <3>3 DEF Reached, LoopOf, Kind, Kinds
    <3> QED BY <3>2, <3>3
  <2>3. \A u \in Threads \ {t} : \A e : Reached(u, e)' <=> Reached(u, e)
    BY <1>6 DEF Reached
  <2> QED BY <2>1, <2>2, <2>3, QuietSteady
<1>8. HalfIsRight'
  <2>1. phase'[t] \notin Kinds
    BY <1>1 DEF Kinds
  <2>2. \A u \in Threads : phase'[u] \in Kinds => u # t
    BY <2>1
  <2> QED BY <1>6, <2>2, HalfKept DEF Quiet
<1> QED BY <1>3, <1>4, <1>5, <1>7, <1>8 DEF IInv

\* What follows when the samples of a kind are lent: they wait as they did, and
\* all that wait for the endpoints of that kind are lent.
LEMMA AllTaken ==
  ASSUME IInv, TypeOK', NEW t \in Threads, NEW kind \in Kinds, NEW loop,
         \/ phase[t] = "refresh" /\ kind = "writer" /\ loop = "publications"
         \/ phase[t] = "next" /\ kind = "reader" /\ loop = "subscriptions",
         \A u \in Threads \ {t} : phase[u] \notin Locked,
         phase' = [phase EXCEPT ![t] = loop],
         batch' = [batch EXCEPT ![t] = inbox[kind]],
         inbox' = [inbox EXCEPT ![kind] = {}],
         UNCHANGED <<present, changes, known, cache, half, steady>>
  PROVE  IInv'
<1>1. /\ phase \in [Threads -> Phases] /\ steady \in [Threads -> SUBSET Remote]
      /\ batch \in [Threads -> SUBSET Samples] /\ inbox \in [Kinds -> SUBSET Samples]
  BY DEF IInv, TypeOK
<1>2. \A u \in Threads : batch[u] = {}
  BY LentInLoops, RefreshLends, PhasesAre
<1>3. /\ batch'[t] = inbox[kind]
      /\ \A u \in Threads \ {t} : batch'[u] = {} /\ phase'[u] = phase[u]
      /\ phase'[t] = loop
      /\ inbox'[kind] = {}
      /\ \A k \in Kinds \ {kind} : inbox'[k] = inbox[k]
  BY <1>1, <1>2
<1>4. \A e \in Remote : Kind(e) = kind <=> LoopOf(e) = loop
  BY DEF Kind, Kinds, LoopOf
<1>5. \A s : s \in inbox[kind] => s.on \in Remote /\ Kind(s.on) = kind
  BY <1>1, SamplesAre DEF IInv, InPlace
<1>6. \A e \in Remote : Waiting(e)' = Waiting(e)
  <2>1. ASSUME NEW e \in Remote, NEW s
        PROVE  s \in Waiting(e)' <=> s \in Waiting(e)
    <3>1. s \in Waiting(e) <=> s.on = e /\ s \in inbox[Kind(e)]
      BY <1>2, WaitingIs
    <3>2. s \in Waiting(e)' <=> s.on = e /\ (s \in inbox'[Kind(e)] \/ s \in inbox[kind])
      BY <1>3, WaitingWillBe
    <3>3. Kind(e) \in Kinds
      BY SamplesAre
    <3>4. CASE Kind(e) = kind
      BY <1>3, <3>1, <3>2, <3>4
    <3>5. CASE Kind(e) # kind
      BY <1>3, <1>5, <3>1, <3>2, <3>3, <3>5
    <3> QED BY <3>4, <3>5
  <2> QED BY <2>1
<1>7. OneRefresh'
  BY <1>3 DEF OneRefresh
<1>8. InPlace'
  <2>1. \A k \in Kinds : \A s \in inbox'[k] : Kind(s.on) = k
    BY <1>3 DEF IInv, InPlace
  <2>2. \A u \in Threads : \A s \in batch'[u] : phase'[u] = LoopOf(s.on)
    BY <1>3, <1>4, <1>5
  <2> QED BY <2>1, <2>2 DEF InPlace
<1>9. InOrder'
  <2>1. \A u \in Threads : \A s \in batch'[u] : \A o \in inbox'[Kind(s.on)] : s.n < o.n
    BY <1>3, <1>5
  <2> QED BY <1>6, <2>1 DEF IInv, InOrder
<1>10. RecordsMatch'
  BY DEF IInv, RecordsMatch
<1>11. \A e \in Visible : e \in Remote
  BY DEF Visible
<1>12. GraphIsCurrent'
  BY <1>6, <1>11, Tells, WillTell DEF IInv, GraphIsCurrent
<1>13. SteadyIsTold'
  <2>1. \A u \in Threads : \A e \in steady'[u] : e \in Visible /\ e \in Remote
    BY <1>11 DEF IInv, SteadyIsTold
  <2>2. ASSUME NEW u \in Threads \ {t}, NEW e \in steady'[u], Reached(u, e)'
        PROVE  /\ Says(e, On(e, batch'[u]), cache) <=> e \in present
               /\ \A s \in Waiting(e) \ batch'[u] : s.what = "data" /\ e \in present
    <3>1. Reached(u, e)
      BY <1>3, <2>2 DEF Reached
    <3>2. On(e, batch'[u]) = On(e, batch[u]) /\ batch'[u] = batch[u]
      BY <1>2, <1>3
    <3> QED BY <2>2, <3>1, <3>2, Tells DEF IInv, SteadyIsTold
  <2>3. ASSUME NEW e \in steady'[t], Reached(t, e)'
        PROVE  /\ Says(e, On(e, batch'[t]), cache) <=> e \in present
               /\ \A s \in Waiting(e) \ batch'[t] : s.what = "data" /\ e \in present
    <3>1. e \in Visible /\ e \in Remote /\ Kind(e) \in Kinds
      BY <2>1, SamplesAre
    <3>2. CASE Kind(e) = kind
      <4>1. \A s : s \in Waiting(e) <=> s.on = e /\ s \in batch'[t]
        BY <1>2, <1>3, <3>2, WaitingIs
      <4>2. On(e, batch'[t]) = Waiting(e)
        BY <4>1 DEF On
      <4> QED BY <3>1, <4>1, <4>2, Tells DEF IInv, GraphIsCurrent
    <3>3. CASE Kind(e) # kind
      <4>1. Reached(t, e)
        BY <1>3, <2>3, <3>1, <3>3 DEF Reached, LoopOf, Kinds
      <4>2. On(e, batch'[t]) = On(e, batch[t])
        BY <1>2, <1>3, <1>5, <3>3 DEF On
      <4>3. Waiting(e) \ batch[t] = Waiting(e)
        BY <1>2
      <4> QED BY <2>3, <4>1, <4>2, <4>3, Tells DEF IInv, SteadyIsTold
    <3> QED BY <3>2, <3>3
  <2>4. ASSUME NEW u \in Threads, NEW e \in steady'[u], Reached(u, e)'
        PROVE  /\ Says(e, On(e, batch'[u]), cache) <=> e \in present
               /\ \A s \in Waiting(e) \ batch'[u] : s.what = "data" /\ e \in present
    BY <2>2, <2>3, <2>4
  <2> QED BY <1>6, <2>1, <2>4, WillTell
<1>14. HalfIsRight'
  <2>1. \A u \in Threads : phase'[u] \in Kinds => phase'[u] = phase[u]
    BY <1>1 DEF Kinds
  <2> QED BY <2>1, HalfKept
<1> QED BY <1>7, <1>8, <1>9, <1>10, <1>12, <1>13, <1>14 DEF IInv

\* Taking the samples of a kind.
LEMMA TakeKeeps ==
  ASSUME IInv, TypeOK', NEW t \in Threads, TakePublications(t) \/ TakeSubscriptions(t)
  PROVE  IInv'
<1>1. PICK kind \in Kinds, loop \in Locked, next \in Locked :
        /\ TakeBatch(t, kind, loop, next)
        /\ \/ /\ phase[t] = "refresh" /\ kind = "writer"
              /\ loop = "publications" /\ next = "next"
           \/ /\ phase[t] = "next" /\ kind = "reader"
              /\ loop = "subscriptions" /\ next = "tell"
  BY DEF TakePublications, TakeSubscriptions, Kinds, Locked, Loops
<1>2. \A u \in Threads \ {t} : phase[u] \notin Locked
  <2>1. CASE TakePublications(t)
    BY <2>1 DEF TakePublications, Unlocked
  <2>2. CASE TakeSubscriptions(t)
    BY <2>2 DEF TakeSubscriptions, IInv, OneRefresh, Locked
  <2> QED BY <2>1, <2>2
<1>3. UNCHANGED <<present, changes, known, cache, half>>
  BY <1>1 DEF TakeBatch, graphVars
<1>4. CASE /\ inbox[kind] # {}
           /\ Goes(t, loop)
           /\ batch' = [batch EXCEPT ![t] = inbox[kind]]
           /\ inbox' = [inbox EXCEPT ![kind] = {}]
           /\ UNCHANGED steady
  BY <1>1, <1>2, <1>3, <1>4, AllTaken DEF Goes
<1>5. CASE inbox[kind] = {} /\ Goes(t, next) /\ UNCHANGED <<inbox, batch, steady>>
  <2>1. Quiet
    BY <1>3, <1>5 DEF Quiet
  <2> QED BY <1>1, <1>2, <1>3, <1>5, <2>1, NothingTaken DEF Goes
<1>6. CASE GiveUp(t) /\ UNCHANGED inbox
  <2>1. /\ phase' = [phase EXCEPT ![t] = "idle"]
        /\ steady' = [steady EXCEPT ![t] = {}]
        /\ batch' = [batch EXCEPT ![t] = {}]
    BY <1>6 DEF GiveUp, Goes, AfterFailure
  <2>2. batch[t] = {} /\ batch \in [Threads -> SUBSET Samples]
    BY <1>1, RefreshLends DEF IInv, TypeOK
  <2>3. Quiet
    BY <1>3, <1>6, <2>1, <2>2 DEF Quiet
  <2> QED BY <1>1, <1>2, <1>3, <2>1, <2>3, NothingTaken
<1> QED BY <1>1, <1>4, <1>5, <1>6 DEF TakeBatch

-----------------------------------------------------------------------------
(* Samples are delivered.                                                  *)

\* A new sample is the last of its endpoint, and tells what is so now; those it
\* is for know nothing of the endpoint, unless it says what they know.
LEMMA DeliverKeeps ==
  ASSUME IInv, TypeOK', NEW e \in Remote, NEW s \in Samples,
         s.on = e, s.n = changes + 1, Deliver(s),
         changes' = changes + 1,
         e \in present' <=> s.what = "data",
         \A f : f # e => (f \in present' <=> f \in present),
         \A u \in Threads : steady'[u] \subseteq steady[u],
         \A u \in Threads : e \in steady'[u] => s.what = "data" /\ e \in present,
         UNCHANGED <<batch, known, cache, phase, half>>
  PROVE  IInv'
<1>1. /\ Kind(e) \in Kinds
      /\ changes \in Nat
      /\ inbox \in [Kinds -> SUBSET Samples]
      /\ \A u \in Threads : batch[u] \in SUBSET Samples
  BY SamplesAre DEF IInv, TypeOK
<1>2. /\ s \in inbox'[Kind(e)]
      /\ \A o \in inbox'[Kind(e)] : o = s \/ o \in inbox[Kind(e)]
      /\ \A o \in inbox[Kind(e)] : o.on # e => o \in inbox'[Kind(e)]
      /\ \A k \in Kinds \ {Kind(e)} : inbox'[k] = inbox[k]
  BY <1>1 DEF Deliver
<1>3. /\ s \in Waiting(e)'
      /\ \A o \in Waiting(e)' : o = s \/ o \in Waiting(e)
      /\ Waiting(e)' \in SUBSET Samples
  <2>1. s \in Waiting(e)'
    BY <1>2, WaitingWillBe
  <2>2. ASSUME NEW o \in Waiting(e)' PROVE o = s \/ o \in Waiting(e)
    BY <1>2, <2>2, WaitingIs, WaitingWillBe
  <2>3. Waiting(e) \in SUBSET Samples
    BY WaitingTyped DEF IInv
  <2> QED BY <2>1, <2>2, <2>3
<1>4. \A f \in Remote : f # e => Waiting(f)' = Waiting(f)
  <2>1. ASSUME NEW f \in Remote, f # e, NEW o
        PROVE  o \in Waiting(f)' <=> o \in Waiting(f)
    <3>1. Kind(f) \in Kinds
      BY SamplesAre
    <3>2. o.on = f => (o \in inbox'[Kind(f)] <=> o \in inbox[Kind(f)])
      BY <1>2, <2>1, <3>1
    <3> QED BY <3>2, WaitingIs, WaitingWillBe
  <2> QED BY <2>1
<1>5. \A o \in Waiting(e) : o.n \in Nat /\ o.n <= changes
  BY WaitingTyped DEF IInv, InOrder
<1>6. \A o \in Waiting(e)' \ {s} : o.n < s.n
  BY <1>1, <1>3, <1>5
<1>7. OneRefresh'
  BY DEF IInv, OneRefresh
<1>8. InPlace'
  BY <1>2 DEF IInv, InPlace
<1>9. InOrder'
  <2>1. ASSUME NEW f \in Remote, NEW o \in Waiting(f)'
        PROVE  o.n <= changes' /\ \A p \in Waiting(f)' : o.n = p.n => o = p
    <3>1. CASE f = e
      <4>1. \A p, q \in Waiting(e) : p.n = q.n => p = q
        BY DEF IInv, InOrder
      <4> QED BY <1>1, <1>3, <1>5, <1>6, <2>1, <3>1, <4>1
    <3>2. CASE f # e
      <4>1. Waiting(f)' = Waiting(f)
        BY <1>4, <3>2
      <4>2. o.n \in Nat /\ o.n <= changes
        BY <2>1, <4>1, WaitingTyped DEF IInv, InOrder
      <4> QED BY <1>1, <2>1, <4>1, <4>2 DEF IInv, InOrder
    <3> QED BY <3>1, <3>2
  <2>2. ASSUME NEW u \in Threads, NEW o \in batch[u], NEW p \in inbox'[Kind(o.on)]
        PROVE  o.n < p.n
    <3>1. o \in Samples /\ o.on \in Remote /\ Kind(o.on) \in Kinds /\ o.n \in Nat
      BY <1>1, <2>2, SamplesAre
    <3>2. CASE p \in inbox[Kind(o.on)]
      BY <2>2, <3>2 DEF IInv, InOrder
    <3>3. CASE p = s
      <4>1. o \in Waiting(o.on)
        BY <2>2, WaitingIs
      <4>2. o.n <= changes
        BY <3>1, <4>1 DEF IInv, InOrder
      <4> QED BY <1>1, <3>1, <3>3, <4>2
    <3> QED BY <1>2, <2>2, <3>1, <3>2, <3>3
  <2> QED BY <2>1, <2>2 DEF InOrder
<1>10. RecordsMatch'
  BY DEF IInv, RecordsMatch
<1>11. EndsWithData(Waiting(e)') <=> s.what = "data"
  BY <1>3, <1>6, NewestTells
<1>12. GraphIsCurrent'
  <2>1. ASSUME NEW f \in Visible
        PROVE  Says(f, Waiting(f)', cache') <=> f \in present'
    <3>1. f \in Remote
      BY DEF Visible
    <3>2. CASE f = e
      BY <1>3, <1>11, <3>2 DEF Says
    <3>3. CASE f # e
      BY <1>4, <3>1, <3>3, Tells DEF IInv, GraphIsCurrent
    <3> QED BY <3>2, <3>3
  <2>2. cache' \subseteq Visible
    BY DEF IInv, GraphIsCurrent
  <2> QED BY <2>1, <2>2, WillTell
<1>13. \A u \in Threads : \A f \in steady'[u] : f \in present' <=> f \in present
  <2>1. ASSUME NEW u \in Threads, NEW f \in steady'[u]
        PROVE  f \in present' <=> f \in present
    <3>1. CASE f = e
      BY <2>1, <3>1
    <3>2. CASE f # e
      BY <3>2
    <3> QED BY <3>1, <3>2
  <2> QED BY <2>1
<1>14. SteadyIsTold'
  <2>1. ASSUME NEW u \in Threads, NEW f \in steady'[u]
        PROVE  f \in Visible /\ f \in steady[u] /\ f \in Remote
    BY <2>1 DEF IInv, SteadyIsTold, Visible
  <2>2. ASSUME NEW u \in Threads, NEW f \in steady'[u], Reached(u, f)'
        PROVE  /\ Says(f, On(f, batch'[u]), cache') <=> f \in present'
               /\ \A o \in Waiting(f)' \ batch'[u] : o.what = "data" /\ f \in present'
    <3>1. Reached(u, f)
      BY <2>2 DEF Reached
    <3>2. /\ Says(f, On(f, batch[u]), cache) <=> f \in present
          /\ \A o \in Waiting(f) \ batch[u] : o.what = "data" /\ f \in present
      BY <2>1, <2>2, <3>1, Tells DEF IInv, SteadyIsTold
    <3>3. CASE f = e
      BY <1>3, <1>13, <2>2, <3>2, <3>3
    <3>4. CASE f # e
      BY <1>4, <1>13, <2>1, <2>2, <3>2, <3>4
    <3> QED BY <3>3, <3>4
  <2> QED BY <2>1, <2>2, WillTell
<1>15. HalfIsRight'
  BY <1>13, HalfKept
<1> QED BY <1>7, <1>8, <1>9, <1>10, <1>12, <1>14, <1>15 DEF IInv

\* What the other participants and zzdds do.
LEMMA RemoteKeeps ==
  ASSUME IInv, TypeOK', NEW e \in Remote, ComeOrGo(e) \/ HearAgain(e)
  PROVE  IInv'
<1>1. TypeOK /\ steady \in [Threads -> SUBSET Remote]
  BY DEF IInv, TypeOK
<1>2. CASE ComeOrGo(e)
  <2> DEFINE what == IF e \in present THEN "gone" ELSE "data"
             s == Sample(e, what)
  <2>1. what \in {"data", "gone"}
    OBVIOUS
  <2>2. s \in Samples /\ s.on = e /\ s.what = what /\ s.n = changes + 1
    BY <1>1, <2>1, SamplesAre
  <2>3. /\ Deliver(s) /\ changes' = changes + 1
        /\ present' = IF e \in present THEN present \ {e} ELSE present \cup {e}
        /\ UNCHANGED <<batch, known, cache, phase, half>>
    BY <1>2 DEF ComeOrGo, graphVars, loopVars
  <2>4. \A u \in Threads : steady'[u] \subseteq steady[u] /\ e \notin steady'[u]
    BY <1>2 DEF ComeOrGo
  <2>5. /\ e \in present' <=> what = "data"
        /\ \A f : f # e => (f \in present' <=> f \in present)
    BY <2>3
  <2> HIDE DEF what, s
  <2> QED BY <2>2, <2>3, <2>4, <2>5, DeliverKeeps
<1>3. CASE HearAgain(e)
  <2> DEFINE s == Sample(e, "data")
  <2>1. s \in Samples /\ s.on = e /\ s.what = "data" /\ s.n = changes + 1
    BY <1>1, SamplesAre
  <2>2. /\ Deliver(s) /\ changes' = changes + 1 /\ e \in present
        /\ UNCHANGED <<present, steady, batch, known, cache, phase, half>>
    BY <1>3 DEF HearAgain, graphVars, loopVars
  <2> HIDE DEF s
  <2> QED BY <2>1, <2>2, DeliverKeeps
<1> QED BY <1>2, <1>3

-----------------------------------------------------------------------------
(* Samples are gone through.                                               *)

\* When the first of some samples on e enters the graph, the rest of them says
\* what they said with it.
LEMMA RestSays ==
  ASSUME NEW e, NEW s \in Samples, NEW W \in SUBSET Samples,
         \A o \in W : o.on = e,
         s.on = e => s \in W,
         Numbered(W), \A o \in W : s.n <= o.n,
         IF s.on = e THEN e \in cache' <=> s.what = "data" ELSE e \in cache' <=> e \in cache
  PROVE  Says(e, W \ {s}, cache') <=> Says(e, W, cache)
<1>1. CASE s.on # e
  <2>1. W \ {s} = W
    BY <1>1
  <2> QED BY <1>1, <2>1 DEF Says
<1>2. CASE s.on = e /\ W \ {s} = {}
  <2>1. W = {s}
    BY <1>2
  <2> QED BY <1>2, <2>1, OneTells DEF Says
<1>3. CASE s.on = e /\ W \ {s} # {}
  <2>1. W # {}
    BY <1>3
  <2> QED BY <1>3, <2>1, FirstIsOutdated DEF Says
<1> QED BY <1>1, <1>2, <1>3

\* What a turn of the loop does to the graph.
LEMMA TurnDoes ==
  ASSUME IInv, NEW t \in Threads, NEW s \in batch[t], Remove(t, s) \/ Add(t, s)
  PROVE  /\ known' = cache' /\ cache' \subseteq Visible
         /\ \A e \in Visible :
              IF s.on = e THEN e \in cache' <=> s.what = "data" ELSE e \in cache' <=> e \in cache
<1>1. s \in Samples /\ s.on \in Remote
  BY SamplesAre DEF IInv, TypeOK
<1>2. known = cache /\ cache \subseteq Visible
  BY DEF IInv, RecordsMatch
<1>3. CASE Remove(t, s)
  BY <1>2, <1>3 DEF Remove, graphVars
<1>4. CASE Add(t, s)
  <2>1. s.on \in Visible <=> s.on \notin Skipped
    BY <1>1, <1>4 DEF Add, Visible, Skipped
  <2> QED BY <1>2, <1>4, <2>1 DEF Add, Recorded, graphVars
<1> QED BY <1>3, <1>4

\* A turn of the loop, over the first of the samples that are lent.
LEMMA TurnKeeps ==
  ASSUME IInv, TypeOK', NEW t \in Threads, NEW s \in batch[t],
         phase[t] \in Loops, \A o \in batch[t] : s.n <= o.n,
         Remove(t, s) \/ Add(t, s),
         UNCHANGED <<present, changes, inbox, half>>
  PROVE  IInv'
<1>1. /\ batch' = [batch EXCEPT ![t] = batch[t] \ {s}]
      /\ UNCHANGED <<phase, steady>>
      /\ batch \in [Threads -> SUBSET Samples]
      /\ inbox \in [Kinds -> SUBSET Samples]
  BY DEF Remove, Add, Rest, IInv, TypeOK
<1>2. /\ batch'[t] = batch[t] \ {s}
      /\ \A u \in Threads \ {t} : batch'[u] = {} /\ batch[u] = {}
  BY <1>1, LentInLoops, PhasesAre
<1>3. /\ s \in Samples /\ s.on \in Remote /\ Kind(s.on) \in Kinds /\ s.n \in Nat
      /\ \A o \in inbox[Kind(s.on)] : s.n < o.n
  BY <1>1, SamplesAre DEF IInv, InOrder
<1>4. \A e \in Remote :
        /\ Waiting(e)' = Waiting(e) \ {s}
        /\ s.on = e => s \in Waiting(e)
  <2>1. ASSUME NEW e \in Remote, NEW o
        PROVE  o \in Waiting(e)' <=> o \in Waiting(e) \ {s}
    <3>1. o \in Waiting(e)' <=> o.on = e /\ (o \in inbox[Kind(e)] \/ o \in batch[t] \ {s})
      BY <1>2, WaitingWillBe
    <3>2. o \in Waiting(e) <=> o.on = e /\ (o \in inbox[Kind(e)] \/ o \in batch[t])
      BY <1>2, WaitingIs
    <3>3. s.on = e => s \notin inbox[Kind(e)]
      BY <1>3
    <3> QED BY <3>1, <3>2, <3>3
  <2>2. \A e \in Remote : s.on = e => s \in Waiting(e)
    BY WaitingIs
  <2> QED BY <2>1, <2>2
<1>5. \A e \in Remote :
        /\ Waiting(e) \in SUBSET Samples
        /\ \A o \in Waiting(e) : o.on = e
        /\ Numbered(Waiting(e))
        /\ s.on = e => \A o \in Waiting(e) : s.n <= o.n
  <2>1. ASSUME NEW e \in Remote PROVE Waiting(e) \in SUBSET Samples /\ \A o \in Waiting(e) : o.on = e
    BY WaitingTyped DEF IInv
  <2>2. ASSUME NEW e \in Remote PROVE Numbered(Waiting(e))
    BY DEF IInv, InOrder, Numbered
  <2>3. ASSUME NEW e \in Remote, s.on = e, NEW o \in Waiting(e) PROVE s.n <= o.n
    <3>1. o \in inbox[Kind(e)] \/ o \in batch[t]
      BY <1>2, <2>3, WaitingIs
    <3>2. o.n \in Nat
      BY <2>3, WaitingTyped DEF IInv
    <3> QED BY <1>3, <2>3, <3>1, <3>2
  <2> QED BY <2>1, <2>2, <2>3
<1>6. /\ known' = cache' /\ cache' \subseteq Visible
      /\ \A e \in Visible :
           IF s.on = e THEN e \in cache' <=> s.what = "data" ELSE e \in cache' <=> e \in cache
  BY TurnDoes
<1>7. OneRefresh'
  BY <1>1 DEF IInv, OneRefresh
<1>8. InPlace'
  <2>1. \A u \in Threads : batch'[u] \subseteq batch[u]
    BY <1>2
  <2> QED BY <1>1, <2>1 DEF IInv, InPlace
<1>9. InOrder'
  <2>1. \A u \in Threads : batch'[u] \subseteq batch[u]
    BY <1>2
  <2>2. \A e \in Remote : Waiting(e)' \subseteq Waiting(e)
    BY <1>4
  <2> QED BY <2>1, <2>2 DEF IInv, InOrder
<1>10. RecordsMatch'
  BY <1>6 DEF RecordsMatch
<1>11. \A e \in Visible : e \in Remote
  BY DEF Visible
<1>12. GraphIsCurrent'
  <2>1. ASSUME NEW e \in Visible
        PROVE  Says(e, Waiting(e)', cache') <=> e \in present'
    <3>1. Waiting(e)' = Waiting(e) \ {s} /\ (s.on = e => s \in Waiting(e))
      BY <1>4, <1>11
    <3>2. CASE s.on = e
      <4>1. Says(e, Waiting(e) \ {s}, cache') <=> Says(e, Waiting(e), cache)
        BY <1>3, <1>5, <1>6, <1>11, <3>1, <3>2, RestSays
      <4> QED BY <3>1, <4>1, Tells DEF IInv, GraphIsCurrent
    <3>3. CASE s.on # e
      <4>1. Waiting(e)' = Waiting(e)
        BY <1>5, <1>11, <3>1, <3>3
      <4>2. e \in cache' <=> e \in cache
        BY <1>6, <3>3
      <4> QED BY <4>1, <4>2, Tells DEF IInv, GraphIsCurrent, Says
    <3> QED BY <3>2, <3>3
  <2> QED BY <1>6, <2>1, WillTell
<1>13. SteadyIsTold'
  <2>1. \A u \in Threads : \A e \in steady'[u] : e \in Visible /\ e \in Remote
    BY <1>1, <1>11 DEF IInv, SteadyIsTold
  <2>2. ASSUME NEW u \in Threads, NEW e \in steady[u], Reached(u, e)
        PROVE  /\ Says(e, On(e, batch[u]), cache) <=> e \in present
               /\ \A o \in Waiting(e) \ batch[u] : o.what = "data" /\ e \in present
    BY <2>2, Tells DEF IInv, SteadyIsTold
  <2>3. ASSUME NEW u \in Threads \ {t}, NEW e \in steady[u], Reached(u, e)
        PROVE  /\ Says(e, On(e, batch'[u]), cache') <=> e \in present
               /\ \A o \in Waiting(e)' \ batch'[u] : o.what = "data" /\ e \in present
    <3>1. /\ e \in Visible /\ e \in Remote
          /\ On(e, batch[u]) = {} /\ On(e, batch'[u]) = {}
      BY <1>1, <1>2, <2>1, <2>3 DEF On
    <3>2. /\ e \in cache <=> e \in present
          /\ \A o \in Waiting(e) : o.what = "data" /\ e \in present
      BY <1>2, <2>2, <2>3, <3>1 DEF Says
    <3>3. e \in cache' <=> e \in present
      BY <1>4, <1>6, <3>1, <3>2
    <3> QED BY <1>4, <3>1, <3>2, <3>3 DEF Says
  <2>4. ASSUME NEW e \in steady[t], Reached(t, e)
        PROVE  /\ Says(e, On(e, batch'[t]), cache') <=> e \in present
               /\ \A o \in Waiting(e)' \ batch'[t] : o.what = "data" /\ e \in present
    <3> DEFINE W == On(e, batch[t])
    <3>1. e \in Visible /\ e \in Remote
      BY <1>1, <2>1, <2>4
    <3>2. W \in SUBSET Samples /\ (\A o \in W : o.on = e /\ s.n <= o.n) /\ (s.on = e => s \in W)
      BY <1>1 DEF On
    <3>3. Numbered(W)
      <4>1. W \subseteq Waiting(e)
        BY WaitingIs DEF On
      <4> QED BY <1>5, <3>1, <4>1 DEF Numbered
    <3>4. On(e, batch'[t]) = W \ {s}
      BY <1>2 DEF On
    <3>5. Says(e, W, cache) <=> e \in present
      BY <2>2, <2>4
    <3>6. Waiting(e)' \ batch'[t] = Waiting(e) \ batch[t]
      BY <1>2, <1>4, <3>1
    <3>7. \A o \in Waiting(e) \ batch[t] : o.what = "data" /\ e \in present
      BY <2>2, <2>4
    <3> HIDE DEF W
    <3>8. Says(e, W \ {s}, cache') <=> Says(e, W, cache)
      BY <1>3, <1>6, <3>1, <3>2, <3>3, RestSays
    <3> QED BY <3>4, <3>5, <3>6, <3>7, <3>8
  <2>5. \A u \in Threads : \A e : Reached(u, e)' <=> Reached(u, e)
    BY <1>1 DEF Reached
  <2> QED BY <1>1, <2>1, <2>3, <2>4, <2>5, WillTell
<1>14. HalfIsRight'
  BY <1>1, HalfKept
<1> QED BY <1>7, <1>8, <1>9, <1>10, <1>12, <1>13, <1>14 DEF IInv

\* A step of the refresh of a thread, if every description can be read.
LEMMA RefreshKeeps ==
  ASSUME IInv, TypeOK', Unreadable = {}, NEW t \in Threads, Refresh(t)
  PROVE  IInv'
<1>1. CASE Consume(t)
  <2>1. PICK s \in batch[t] :
          (\A o \in batch[t] : s.n <= o.n) /\ (Remove(t, s) \/ Add(t, s) \/ Break(t, s))
    BY <1>1 DEF Consume
  <2>2. ~Break(t, s)
    BY DEF Break
  <2>3. phase[t] \in Loops /\ UNCHANGED <<present, changes, inbox, half>>
    BY <1>1 DEF Consume, remoteVars
  <2> QED BY <2>1, <2>2, <2>3, TurnKeeps
<1> QED BY <1>1, TakeKeeps, ReturnKeeps, TellKeeps DEF Refresh

\* At first nothing is there and nothing is told.
LEMMA InitIsRight ==
  ASSUME Init, TypeOK
  PROVE  IInv
<1>1. /\ present = {} /\ cache = {} /\ known = {}
      /\ \A k \in Kinds : inbox[k] = {}
      /\ \A t \in Threads : phase[t] = "idle" /\ batch[t] = {} /\ steady[t] = {}
  BY DEF Init
<1>2. \A e \in Remote : Waiting(e) = {}
  BY <1>1, SamplesAre DEF Waiting
<1>3. OneRefresh /\ InPlace
  BY <1>1 DEF OneRefresh, InPlace, Locked, Loops
<1>4. InOrder /\ RecordsMatch
  BY <1>1, <1>2 DEF InOrder, RecordsMatch
<1>5. GraphIsCurrent
  BY <1>1, <1>2 DEF GraphIsCurrent, TellsPresent, Visible
<1>6. SteadyIsTold /\ HalfIsRight
  BY <1>1 DEF SteadyIsTold, HalfIsRight, Kinds
<1> QED BY <1>3, <1>4, <1>5, <1>6 DEF IInv

\* The invariant holds in every state if every description can be read.
LEMMA InvariantHolds ==
  ASSUME Unreadable = {}
  PROVE  Spec => []IInv
<1>1. ASSUME IInv, TypeOK', [Next]_vars PROVE IInv'
  <2>1. CASE \E e \in Remote : ComeOrGo(e) \/ HearAgain(e)
    BY <1>1, <2>1, RemoteKeeps
  <2>2. CASE \E t \in Threads : Step(t) \/ Query(t)
    BY <1>1, <2>2, RefreshKeeps, ReadHalfKeeps, ReadKeeps, AskKeeps DEF Step
  <2>3. CASE Notify \/ UNCHANGED vars
    BY <1>1, <2>3, OtherKeeps
  <2> QED BY <1>1, <2>1, <2>2, <2>3 DEF Next
<1> QED BY <1>1, InitIsRight, DiscoveryTypes, PTL DEF Spec

\* No sample is lost between zzdds and the graph, in whatever batches they are
\* taken and by whichever threads, if every description can be read: the graph
\* with what waits tells which endpoints are there (graph_discovery.cpp 80-206).
THEOREM GraphStaysCurrent ==
  ASSUME Unreadable = {}
  PROVE  Spec => []GraphIsCurrent
<1>1. IInv => GraphIsCurrent
  BY DEF IInv
<1> QED BY <1>1, InvariantHolds, PTL

\* What is left to read of the cache completes what was read to an answer that is
\* right about all that has not come or gone.
LEMMA AnswersAreRight ==
  ASSUME IInv
  PROVE  AnswersAreCurrent
<1> SUFFICES ASSUME NEW t \in Threads, phase[t] \in Kinds \cup {"read"}, NEW e \in steady[t]
             PROVE  e \in Answer(t) <=> e \in present
  BY DEF AnswersAreCurrent
<1>1. batch[t] = {}
  BY RefreshLends
<1>2. e \in cache <=> e \in present
  <2>1. Reached(t, e)
    BY DEF Reached
  <2>2. On(e, batch[t]) = {}
    BY <1>1 DEF On
  <2> QED BY <2>1, <2>2, Tells DEF IInv, SteadyIsTold, Says
<1>3. CASE phase[t] = "read"
  BY <1>2, <1>3 DEF Answer
<1>4. CASE phase[t] \in Kinds
  <2>1. phase[t] # "read"
    BY <1>4 DEF Kinds
  <2>2. e \in Answer(t) <=> e \in half[t] \/ (e \in cache /\ Kind(e) = phase[t])
    BY <2>1 DEF Answer, Cached
  <2> QED BY <1>2, <1>4, <2>2 DEF IInv, HalfIsRight
<1> QED BY <1>3, <1>4

\* A query that returns OK answers with every endpoint that was there during all
\* of it and with none that was away during all of it, whatever other threads
\* take and whenever the cache is read (rmw_graph.cpp 341-352 and 493-526).
THEOREM AnswersStayCurrent ==
  ASSUME Unreadable = {}
  PROVE  Spec => []AnswersAreCurrent
BY InvariantHolds, AnswersAreRight, PTL
===============================================================================
