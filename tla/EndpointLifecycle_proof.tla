------------------------ MODULE EndpointLifecycle_proof ------------------------
(***************************************************************************)
(* Proofs about EndpointLifecycle, for any number of threads, nodes,       *)
(* endpoints, clients and services, whatever fails.                        *)
(***************************************************************************)
EXTENDS EndpointLifecycle, FiniteSetTheorems, SequenceTheorems, TLAPS

\* What a step of a call does, and to what.
EndpointSteps ==
  {"begin", "make", "announce", "undo", "detach", "unlisten", "delete", "free"}
PairSteps == {"register", "unregister", "release"}
CreatingSteps == {"begin", "make", "announce", "undo", "register"}

ToDo ==
  [do : EndpointSteps, on : Endpoints, node : Nodes]
    \cup [do : PairSteps, on : Pairs, node : Nodes]

\* Every variable has its type.
TypeOK ==
  /\ up \in BOOLEAN
  /\ shutdown \in BOOLEAN
  /\ nodes \in SUBSET Nodes
  /\ parts \in [Endpoints -> SUBSET Parts]
  /\ owner \in [Endpoints -> Nodes \cup {None}]
  /\ listening \in SUBSET Subs
  /\ registered \in SUBSET (Endpoints \cup Pairs)
  /\ active \in Int
  /\ held \in SUBSET (Endpoints \cup Pairs)
  /\ todo \in [Threads -> Seq(ToDo)]

-----------------------------------------------------------------------------
(* The lists of steps.                                                     *)

\* The step that comes after this one, on the same endpoint.
After(step) ==
  IF step = "begin" THEN "make" ELSE
  IF step = "make" THEN "announce" ELSE
  IF step = "detach" THEN "unlisten" ELSE
  IF step = "unlisten" THEN "delete" ELSE
  IF step = "delete" THEN "free" ELSE "none"

Following(step) == [do |-> After(step.do), on |-> step.on, node |-> step.node]

\* What is begun on an endpoint is carried on, and done once.
Carried(list) ==
  \A i \in DOMAIN list :
    /\ After(list[i].do) # "none" =>
         i + 1 \in DOMAIN list /\ list[i + 1] = Following(list[i])
    /\ list[i].do \in {"announce", "undo", "free"} =>
         \A j \in DOMAIN list : i < j => list[j].on # list[i].on

\* Nothing is carried on that was not begun.
Entered(list) ==
  \A i \in DOMAIN list :
    i > 1 /\ list[i].do \notin {"begin", "detach", "register", "release"} =>
      After(list[i - 1].do) = list[i].do

\* What may be done at j when a client or service is still to be registered.
Precedes(list, j, last) ==
  /\ list[j].do \in {"begin", "make", "announce"}
  /\ list[j].node = last.node
  /\ list[j].on \in Concerns(last.on)
  /\ list[j].on = First[last.on] =>
       \E k \in DOMAIN list :
         k > j /\ list[k].on = Second[last.on] /\ list[k].do = "begin"

\* A client or service is registered last, when its ends have been created, the
\* first one first; it leaves the context's sets before its ends do, and its
\* memory is freed after theirs.
Registers(list) ==
  \A i \in DOMAIN list :
    /\ list[i].do = "register" =>
         i = Len(list) /\ \A j \in DOMAIN list : j < i => Precedes(list, j, list[i])
    /\ list[i].do = "announce" /\ i < Len(list) => list[Len(list)].do = "register"
    /\ list[i].do = "release" => i = Len(list)
    /\ list[i].do = "unregister" =>
         /\ 2 \in DOMAIN list /\ list[2].do = "detach"
         /\ list[Len(list)].do = "release" /\ list[Len(list)].on = list[i].on

ListOK(list) == Carried(list) /\ Entered(list) /\ Registers(list)

ListsOK == \A t \in Threads : ListOK(todo[t])

-----------------------------------------------------------------------------
(* What the steps to do tell of the endpoints.                             *)

\* Nothing is there of an endpoint.
Fresh(e) == parts[e] = {} /\ owner[e] = None /\ e \notin registered /\ e \notin listening

\* Its first k parts are there.
PartsUpTo(e, k) == {Order(e)[i] : i \in 1 .. k}

\* The endpoints this list is about.
About(list) == UNION {Concerns(list[i].on) : i \in DOMAIN list}

Mentions(list, e) == \E i \in DOMAIN list : list[i].on = e

\* Step i of the list finds its endpoint as it expects it.
StepFits(list, i) ==
  LET do == list[i].do
      e == list[i].on
      n == list[i].node
  IN  /\ do \in CreatingSteps => n \in nodes
      /\ do = "begin" => Fresh(e)
      /\ do = "make" /\ i = 1 =>
           /\ e \notin registered /\ owner[e] = n
           /\ \E k \in 0 .. Len(Order(e)) - 1 : parts[e] = PartsUpTo(e, k)
      /\ do = "announce" /\ i = 1 =>
           /\ e \notin registered /\ owner[e] = n
           /\ \E k \in 0 .. Len(Order(e)) : parts[e] = PartsUpTo(e, k)
      /\ do = "undo" =>
           /\ e \notin registered
           /\ \E k \in 0 .. Len(Order(e)) : parts[e] = PartsUpTo(e, k)
      /\ do = "detach" => e \in registered /\ owner[e] = n
      /\ do = "unlisten" /\ i = 1 => e \notin registered
      /\ do \in {"delete", "free"} /\ i = 1 => e \notin registered /\ e \notin listening
      /\ do = "register" =>
           \A x \in Concerns(e) : Mentions(list, x) \/ (x \in registered /\ owner[x] = n)
      /\ do = "release" =>
           \A x \in Concerns(e) : Mentions(list, x) \/ Fresh(x)

Fits(list) == \A i \in DOMAIN list : StepFits(list, i)

StepsFit == \A t \in Threads : Fits(todo[t])

\* No two threads, and no thread and the application, work on the same endpoint.
Exclusive ==
  /\ \A t, u \in Threads : t # u => About(todo[t]) \cap About(todo[u]) = {}
  /\ \A t \in Threads, h \in held : About(todo[t]) \cap Concerns(h) = {}
  /\ \A g, h \in held : g # h => Concerns(g) \cap Concerns(h) = {}

\* What the application has is registered, on one node.
HeldAreLive ==
  \A h \in held :
    /\ Concerns(h) \subseteq registered
    /\ \A x, y \in Concerns(h) : owner[x] = owner[y]

\* Of what nobody has there is nothing.
RestIsFresh ==
  \A e \in Endpoints :
    \/ \E t \in Threads : e \in About(todo[t])
    \/ \E h \in held : e \in Concerns(h)
    \/ Fresh(e)

\* A reader with its listener has its impl, as the listener comes after it.
ListenersHaveImpl == \A e \in listening : {"impl", "entity"} \subseteq parts[e]

\* A registered endpoint keeps its node, and steps keep the context.
OwnersThere ==
  /\ \A e \in registered \cap Endpoints : owner[e] \in nodes
  /\ ~up => nodes = {} /\ registered \cap Endpoints = {}
  /\ \A t \in Threads : \A i \in DOMAIN todo[t] : todo[t][i].do # "release" => up

\* The endpoints active_entities counts: those registered, and those that are
\* on their way to be freed.
ToFree(list, e) == \E i \in DOMAIN list : list[i].do = "free" /\ list[i].on = e
Counted == {e \in Endpoints : e \in registered \/ \E t \in Threads : ToFree(todo[t], e)}

CountIsExact == active = Cardinality(nodes) + Cardinality(Counted)

\* The inductive invariant.
IInv ==
  /\ TypeOK
  /\ ListsOK
  /\ StepsFit
  /\ Exclusive
  /\ HeldAreLive
  /\ RestIsFresh
  /\ ListenersHaveImpl
  /\ OwnersThere
  /\ CountIsExact

-----------------------------------------------------------------------------
(* Lists of steps: what they are made of, and their rests.                 *)

\* The ends of a client or service are two endpoints.
LEMMA PairEnds ==
  ASSUME NEW p \in Pairs
  PROVE  /\ First[p] \in Endpoints /\ Second[p] \in Endpoints /\ First[p] # Second[p]
         /\ Concerns(p) = {First[p], Second[p]}
BY EndpointConstants DEF Endpoints, Concerns

\* What a step is about are endpoints: the one it names, or both ends.
LEMMA ConcernsOf ==
  /\ \A e \in Endpoints : e \notin Pairs /\ Concerns(e) = {e}
  /\ \A x \in Endpoints \cup Pairs : Concerns(x) \subseteq Endpoints
  /\ \A step \in ToDo : step.on \in Endpoints \cup Pairs /\ step.node \in Nodes
BY EndpointConstants, PairEnds DEF Concerns, ToDo

\* A list that is not empty has a first step, and its rest the others.
LEMMA TailSteps ==
  ASSUME NEW list \in Seq(ToDo), list # <<>>
  PROVE  /\ Len(list) \in Nat \ {0} /\ DOMAIN list = 1 .. Len(list)
         /\ list[1] = Head(list) /\ list[1] \in ToDo
         /\ Tail(list) \in Seq(ToDo) /\ Len(Tail(list)) = Len(list) - 1
         /\ DOMAIN Tail(list) = 1 .. Len(list) - 1
         /\ \A i \in DOMAIN Tail(list) : i + 1 \in DOMAIN list /\ Tail(list)[i] = list[i + 1]
<1>1. Len(list) \in Nat \ {0} /\ DOMAIN list = 1 .. Len(list) /\ list[1] = Head(list)
  BY LenProperties, EmptySeq
<1>2. /\ Tail(list) \in Seq(ToDo) /\ Len(Tail(list)) = Len(list) - 1 /\ Head(list) \in ToDo
      /\ \A i \in 1 .. Len(Tail(list)) : Tail(list)[i] = list[i + 1]
  BY HeadTailProperties
<1>3. DOMAIN Tail(list) = 1 .. Len(list) - 1
  BY <1>2, LenProperties
<1> QED
  BY <1>1, <1>2, <1>3

\* The rest of a list is as well formed as the list.
LEMMA TailOK ==
  ASSUME NEW list \in Seq(ToDo), list # <<>>, ListOK(list)
  PROVE  ListOK(Tail(list))
<1> DEFINE rest == Tail(list)
<1>1. /\ Len(list) \in Nat \ {0} /\ DOMAIN list = 1 .. Len(list)
      /\ Len(rest) = Len(list) - 1 /\ DOMAIN rest = 1 .. Len(list) - 1
      /\ \A i \in DOMAIN rest : i + 1 \in DOMAIN list /\ rest[i] = list[i + 1]
  BY TailSteps
<1> HIDE DEF rest
<1>2. Carried(rest)
  <2> SUFFICES ASSUME NEW i \in DOMAIN rest
               PROVE  /\ After(rest[i].do) # "none" =>
                           i + 1 \in DOMAIN rest /\ rest[i + 1] = Following(rest[i])
                      /\ rest[i].do \in {"announce", "undo", "free"} =>
                           \A j \in DOMAIN rest : i < j => rest[j].on # rest[i].on
    BY DEF Carried
  <2>1. i \in Nat /\ i + 1 \in DOMAIN list /\ rest[i] = list[i + 1]
    BY <1>1
  <2>2. CASE After(rest[i].do) # "none"
    <3>1. i + 1 + 1 \in DOMAIN list
      BY <2>1, <2>2 DEF ListOK, Carried
    <3>2. i + 1 \in DOMAIN rest
      BY <1>1, <2>1, <3>1
    <3>3. list[i + 1 + 1] = Following(list[i + 1])
      BY <2>1, <2>2 DEF ListOK, Carried
    <3>4. rest[i + 1] = list[i + 1 + 1]
      BY <1>1, <3>2
    <3>5. rest[i].do \notin {"announce", "undo", "free"}
      BY <2>2 DEF After
    <3> QED
      BY <2>1, <3>2, <3>3, <3>4, <3>5
  <2>3. ASSUME rest[i].do \in {"announce", "undo", "free"}, NEW j \in DOMAIN rest, i < j
        PROVE  rest[j].on # rest[i].on
    <3>1. j \in Nat /\ j + 1 \in DOMAIN list /\ rest[j] = list[j + 1] /\ i + 1 < j + 1
      BY <1>1, <2>1, <2>3
    <3> QED
      BY <2>1, <2>3, <3>1 DEF ListOK, Carried
  <2> QED
    BY <2>2, <2>3
<1>3. Entered(rest)
  <2> SUFFICES ASSUME NEW i \in DOMAIN rest, i > 1,
                      rest[i].do \notin {"begin", "detach", "register", "release"}
               PROVE  After(rest[i - 1].do) = rest[i].do
    BY DEF Entered
  <2>1. i \in Nat /\ i + 1 \in DOMAIN list /\ rest[i] = list[i + 1] /\ i - 1 \in DOMAIN rest
        /\ rest[i - 1] = list[i] /\ i + 1 > 1 /\ (i + 1) - 1 = i
    BY <1>1
  <2> QED
    BY <2>1 DEF ListOK, Entered
<1>4. Registers(rest)
  <2> SUFFICES ASSUME NEW i \in DOMAIN rest
               PROVE  /\ rest[i].do = "register" =>
                           i = Len(rest) /\ \A j \in DOMAIN rest : j < i => Precedes(rest, j, rest[i])
                      /\ rest[i].do = "announce" /\ i < Len(rest) => rest[Len(rest)].do = "register"
                      /\ rest[i].do = "release" => i = Len(rest)
                      /\ rest[i].do # "unregister"
    BY DEF Registers
  <2>1. i \in Nat /\ i + 1 \in DOMAIN list /\ rest[i] = list[i + 1]
    BY <1>1
  <2>2. CASE rest[i].do = "register"
    <3>1. i + 1 = Len(list)
      BY <2>1, <2>2 DEF ListOK, Registers
    <3>2. i = Len(rest)
      BY <1>1, <2>1, <3>1
    <3>3. ASSUME NEW j \in DOMAIN rest, j < i
          PROVE  Precedes(rest, j, rest[i])
      <4>1. j \in Nat /\ j + 1 \in DOMAIN list /\ rest[j] = list[j + 1] /\ j + 1 < i + 1
        BY <1>1, <2>1, <3>3
      <4>2. Precedes(list, j + 1, list[i + 1])
        BY <2>1, <2>2, <4>1 DEF ListOK, Registers
      <4>3. \A k \in DOMAIN list : k > j + 1 =>
              k - 1 \in DOMAIN rest /\ k - 1 > j /\ rest[k - 1] = list[k]
        BY <1>1, <4>1
      <4>4. ASSUME rest[j].on = First[rest[i].on]
            PROVE  \E k \in DOMAIN rest :
                     k > j /\ rest[k].on = Second[rest[i].on] /\ rest[k].do = "begin"
        <5>1. PICK k \in DOMAIN list :
                k > j + 1 /\ list[k].on = Second[list[i + 1].on] /\ list[k].do = "begin"
          BY <2>1, <4>1, <4>2, <4>4 DEF Precedes
        <5>2. k - 1 \in DOMAIN rest /\ k - 1 > j /\ rest[k - 1] = list[k]
          BY <4>3, <5>1
        <5> QED
          BY <2>1, <5>1, <5>2
      <4> QED
        BY <2>1, <4>1, <4>2, <4>4 DEF Precedes
    <3> QED
      BY <2>2, <3>2, <3>3
  <2>3. CASE rest[i].do = "announce" /\ i < Len(rest)
    <3>1. i + 1 < Len(list) /\ Len(rest) \in DOMAIN rest /\ rest[Len(rest)] = list[Len(list)]
      BY <1>1, <2>1, <2>3
    <3> QED
      BY <2>1, <2>3, <3>1 DEF ListOK, Registers
  <2>4. CASE rest[i].do = "release"
    <3>1. i + 1 = Len(list)
      BY <2>1, <2>4 DEF ListOK, Registers
    <3> QED
      BY <1>1, <2>1, <2>4, <3>1
  <2>5. rest[i].do # "unregister"
    <3>1. i + 1 > 1 /\ (i + 1) - 1 = i /\ i \in DOMAIN list
      BY <1>1, <2>1
    <3>2. list[i + 1].do = "unregister" => After(list[i].do) = "unregister"
      BY <2>1, <3>1 DEF ListOK, Entered
    <3> QED
      BY <2>1, <3>2 DEF After
  <2> QED
    BY <2>2, <2>3, <2>4, <2>5
<1> QED
  BY <1>2, <1>3, <1>4 DEF ListOK, rest

\* The lists that calls begin with, and those that replace what was to be done
\* when a creation fails.
LEMMA CreatingList ==
  ASSUME NEW e \in Endpoints, NEW n \in Nodes
  PROVE  /\ Creating(e, n) \in Seq(ToDo) /\ Len(Creating(e, n)) = 3
         /\ Creating(e, n)[1] = [do |-> "begin", on |-> e, node |-> n]
         /\ Creating(e, n)[2] = [do |-> "make", on |-> e, node |-> n]
         /\ Creating(e, n)[3] = [do |-> "announce", on |-> e, node |-> n]
<1>1. Creating(e, n) = [i \in 1 .. 3 |-> [do |-> <<"begin", "make", "announce">>[i], on |-> e, node |-> n]]
  BY DEF Creating, Steps
<1>2. \A i \in 1 .. 3 : [do |-> <<"begin", "make", "announce">>[i], on |-> e, node |-> n] \in ToDo
  BY DEF ToDo, EndpointSteps
<1> QED
  BY <1>1, <1>2, IsASeq

\* The list of a destruction.
LEMMA DestroyingList ==
  ASSUME NEW e \in Endpoints, NEW n \in Nodes
  PROVE  /\ Destroying(e, n) \in Seq(ToDo) /\ Len(Destroying(e, n)) = 4
         /\ Destroying(e, n)[1] = [do |-> "detach", on |-> e, node |-> n]
         /\ Destroying(e, n)[2] = [do |-> "unlisten", on |-> e, node |-> n]
         /\ Destroying(e, n)[3] = [do |-> "delete", on |-> e, node |-> n]
         /\ Destroying(e, n)[4] = [do |-> "free", on |-> e, node |-> n]
<1>1. Destroying(e, n)
        = [i \in 1 .. 4 |-> [do |-> <<"detach", "unlisten", "delete", "free">>[i], on |-> e, node |-> n]]
  BY DEF Destroying, Steps
<1>2. \A i \in 1 .. 4 :
        [do |-> <<"detach", "unlisten", "delete", "free">>[i], on |-> e, node |-> n] \in ToDo
  BY DEF ToDo, EndpointSteps
<1> QED
  BY <1>1, <1>2, IsASeq

\* A list of one step.
LEMMA OneStepList ==
  ASSUME NEW do, NEW x, NEW n, [do |-> do, on |-> x, node |-> n] \in ToDo
  PROVE  /\ Steps(<<do>>, x, n) \in Seq(ToDo) /\ Len(Steps(<<do>>, x, n)) = 1
         /\ Steps(<<do>>, x, n)[1] = [do |-> do, on |-> x, node |-> n]
<1>1. Steps(<<do>>, x, n) = <<[do |-> do, on |-> x, node |-> n]>>
  BY DEF Steps
<1>2. ASSUME NEW S, NEW step \in S
      PROVE  <<step>> \in Seq(S) /\ Len(<<step>>) = 1 /\ <<step>>[1] = step
  OBVIOUS
<1> DEFINE step == [do |-> do, on |-> x, node |-> n]
<1>3. step \in ToDo
  OBVIOUS
<1> HIDE DEF step
<1>4. <<step>> \in Seq(ToDo) /\ Len(<<step>>) = 1 /\ <<step>>[1] = step
  BY <1>2, <1>3
<1> QED
  BY <1>1, <1>4, Zenon DEF step

\* Two lists, one after the other.
LEMMA JoinedList ==
  ASSUME NEW a \in Seq(ToDo), NEW b \in Seq(ToDo)
  PROVE  /\ a \o b \in Seq(ToDo) /\ Len(a \o b) = Len(a) + Len(b)
         /\ Len(a) \in Nat /\ Len(b) \in Nat /\ DOMAIN a = 1 .. Len(a) /\ DOMAIN b = 1 .. Len(b)
         /\ DOMAIN (a \o b) = 1 .. Len(a) + Len(b)
         /\ \A i \in 1 .. Len(a) : (a \o b)[i] = a[i]
         /\ \A i \in 1 .. Len(b) : (a \o b)[Len(a) + i] = b[i]
<1>1. /\ a \o b \in Seq(ToDo) /\ Len(a \o b) = Len(a) + Len(b)
      /\ Len(a) \in Nat /\ Len(b) \in Nat /\ DOMAIN a = 1 .. Len(a) /\ DOMAIN b = 1 .. Len(b)
  BY ConcatProperties, LenProperties
<1>2. DOMAIN (a \o b) = 1 .. Len(a) + Len(b)
  BY <1>1, LenProperties
<1>3. ASSUME NEW i \in 1 .. Len(a)
      PROVE  (a \o b)[i] = a[i]
  BY <1>1, ConcatProperties
<1>4. ASSUME NEW i \in 1 .. Len(b)
      PROVE  (a \o b)[Len(a) + i] = b[i]
  <2> DEFINE j == Len(a) + i
  <2>1. j \in 1 .. Len(a) + Len(b) /\ ~(j <= Len(a)) /\ j - Len(a) = i
    BY <1>1
  <2> HIDE DEF j
  <2>2. (a \o b)[j] = b[j - Len(a)]
    BY <2>1, ConcatProperties
  <2> QED
    BY <2>1, <2>2 DEF j
<1> QED
  BY <1>1, <1>2, <1>3, <1>4

\* Of these lists, the ones that undo or destroy.
LEMMA UndoingOK ==
  ASSUME NEW list \in Seq(ToDo), NEW e, NEW n, Len(list) = 1,
         list[1] = [do |-> "undo", on |-> e, node |-> n]
  PROVE  ListOK(list)
<1>1. DOMAIN list = {1}
  BY LenProperties
<1> QED
  BY <1>1 DEF ListOK, Carried, Entered, Registers, After

\* The list of a destruction is well formed.
LEMMA DestroyingOK ==
  ASSUME NEW e \in Endpoints, NEW n \in Nodes
  PROVE  ListOK(Destroying(e, n))
<1> DEFINE list == Destroying(e, n)
<1>1. /\ DOMAIN list = 1 .. 4 /\ Len(list) = 4
      /\ list[1] = [do |-> "detach", on |-> e, node |-> n]
      /\ list[2] = [do |-> "unlisten", on |-> e, node |-> n]
      /\ list[3] = [do |-> "delete", on |-> e, node |-> n]
      /\ list[4] = [do |-> "free", on |-> e, node |-> n]
  BY DestroyingList, LenProperties
<1> HIDE DEF list
<1>2. \A i \in 1 .. 4 : i = 1 \/ i = 2 \/ i = 3 \/ i = 4
  OBVIOUS
<1>3. Carried(list)
  BY <1>1, <1>2 DEF Carried, Following, After
<1>4. Entered(list)
  BY <1>1, <1>2 DEF Entered, After
<1>5. Registers(list)
  BY <1>1, <1>2 DEF Registers
<1> QED
  BY <1>3, <1>4, <1>5 DEF ListOK, list

\* One list after another, about other endpoints.
LEMMA JoinedOK ==
  ASSUME NEW a \in Seq(ToDo), NEW b \in Seq(ToDo), ListOK(a), ListOK(b),
         \A i \in 1 .. Len(a) : a[i].do \in {"undo", "detach", "unlisten", "delete", "free"},
         \A i \in 1 .. Len(b) : b[i].do \in {"detach", "unlisten", "delete", "free", "release"},
         Len(b) > 0 => b[1].do \in {"detach", "release"},
         \A i \in 1 .. Len(a), j \in 1 .. Len(b) : a[i].on # b[j].on
  PROVE  ListOK(a \o b)
<1> DEFINE list == a \o b
           m == Len(a)
           k == Len(b)
<1>1. /\ list \in Seq(ToDo) /\ Len(list) = m + k /\ DOMAIN list = 1 .. m + k
      /\ \A i \in 1 .. m : list[i] = a[i]
      /\ \A i \in m + 1 .. m + k : list[i] = b[i - m]
  <2>1. /\ list \in Seq(ToDo) /\ Len(list) = m + k /\ DOMAIN list = 1 .. m + k
        /\ m \in Nat /\ k \in Nat
        /\ \A i \in 1 .. m : list[i] = a[i]
        /\ \A i \in 1 .. k : list[m + i] = b[i]
    BY JoinedList
  <2>2. ASSUME NEW i \in m + 1 .. m + k
        PROVE  list[i] = b[i - m]
    <3> HIDE DEF list, m, k
    <3>1. i - m \in 1 .. k /\ m + (i - m) = i
      BY <2>1
    <3> QED
      BY <2>1, <3>1
  <2> QED
    BY <2>1, <2>2
<1>0. DOMAIN a = 1 .. m /\ DOMAIN b = 1 .. k /\ m \in Nat /\ k \in Nat
  BY LenProperties
<1> HIDE DEF list
<1> USE <1>0
<1>2. ASSUME NEW i \in DOMAIN list
      PROVE  \/ i \in DOMAIN a /\ list[i] = a[i]
             \/ i > m /\ i - m \in DOMAIN b /\ list[i] = b[i - m]
  BY <1>1
<1>3. Carried(list)
  <2>1. ASSUME NEW i \in DOMAIN list, After(list[i].do) # "none"
        PROVE  i + 1 \in DOMAIN list /\ list[i + 1] = Following(list[i])
    <3>1. CASE i \in DOMAIN a /\ list[i] = a[i]
      <4>1. i + 1 \in DOMAIN a /\ a[i + 1] = Following(a[i])
        BY <2>1, <3>1 DEF ListOK, Carried
      <4> QED
        BY <1>1, <3>1, <4>1
    <3>2. CASE i > m /\ i - m \in DOMAIN b /\ list[i] = b[i - m]
      <4>1. i - m + 1 \in DOMAIN b /\ b[i - m + 1] = Following(b[i - m])
        BY <2>1, <3>2 DEF ListOK, Carried
      <4>2. i \in Int /\ i + 1 - m = i - m + 1 /\ i + 1 \in m + 1 .. m + k
        BY <1>1, <4>1
      <4>3. i + 1 \in DOMAIN list /\ list[i + 1] = b[i - m + 1]
        BY <1>1, <4>2
      <4> QED
        BY <3>2, <4>1, <4>3
    <3> QED
      BY <1>2, <3>1, <3>2
  <2>2. ASSUME NEW i \in DOMAIN list, list[i].do \in {"announce", "undo", "free"},
               NEW j \in DOMAIN list, i < j
        PROVE  list[j].on # list[i].on
    <3>1. CASE i \in DOMAIN a /\ list[i] = a[i]
      BY <1>1, <1>2, <2>2, <3>1 DEF ListOK, Carried
    <3>2. CASE i > m /\ i - m \in DOMAIN b /\ list[i] = b[i - m]
      <4>1. j \in m + 1 .. m + k /\ j - m \in 1 .. k /\ i - m < j - m
        BY <1>1, <2>2, <3>2
      <4>2. list[j] = b[j - m]
        BY <1>1, <4>1
      <4> QED
        BY <2>2, <3>2, <4>1, <4>2 DEF ListOK, Carried
    <3> QED
      BY <1>2, <3>1, <3>2
  <2> QED
    BY <2>1, <2>2 DEF Carried
<1>4. Entered(list)
  <2> SUFFICES ASSUME NEW i \in DOMAIN list, i > 1,
                      list[i].do \notin {"begin", "detach", "register", "release"}
               PROVE  After(list[i - 1].do) = list[i].do
    BY DEF Entered
  <2>1. CASE i \in DOMAIN a /\ list[i] = a[i]
    <3>1. i - 1 \in DOMAIN a /\ list[i - 1] = a[i - 1]
      BY <1>1, <2>1
    <3> QED
      BY <2>1, <3>1 DEF ListOK, Entered
  <2>2. CASE i > m /\ i - m \in DOMAIN b /\ list[i] = b[i - m]
    <3>1. i - m # 1
      BY <1>1, <2>2
    <3>2. i - m > 1 /\ i - 1 \in m + 1 .. m + k /\ (i - 1) - m = (i - m) - 1
      BY <1>1, <2>2, <3>1
    <3>3. list[i - 1] = b[(i - m) - 1]
      BY <1>1, <3>2
    <3> QED
      BY <2>2, <3>2, <3>3 DEF ListOK, Entered
  <2> QED
    BY <1>2, <2>1, <2>2
<1>5. Registers(list)
  <2> SUFFICES ASSUME NEW i \in DOMAIN list
               PROVE  /\ list[i].do \notin {"register", "announce", "unregister"}
                      /\ list[i].do = "release" => i = Len(list)
    BY DEF Registers
  <2>1. CASE i \in DOMAIN a /\ list[i] = a[i]
    BY <1>1, <2>1
  <2>2. CASE i > m /\ i - m \in DOMAIN b /\ list[i] = b[i - m]
    <3>1. list[i].do = "release" => i - m = k
      BY <2>2 DEF ListOK, Registers
    <3>2. i \in Int /\ list[i].do = "release" => i = Len(list)
      BY <1>1, <3>1
    <3>3. list[i].do \notin {"register", "announce", "unregister"}
      BY <2>2
    <3> QED
      BY <1>1, <3>2, <3>3
  <2> QED
    BY <1>2, <2>1, <2>2
<1> QED
  BY <1>3, <1>4, <1>5 DEF ListOK, list
\* The lists of a client or service: its creation, the destruction of its ends
\* when it cannot be registered, and its own destruction.
CreatingEnds(p, n) ==
  Creating(First[p], n) \o Creating(Second[p], n) \o Steps(<<"register">>, p, n)

DestroyingEnds(p, n) == Destroying(Second[p], n) \o Destroying(First[p], n)

DestroyingAll(p, n) ==
  Steps(<<"unregister">>, p, n) \o Destroying(Second[p], n) \o Destroying(First[p], n)
    \o Steps(<<"release">>, p, n)

\* The list of the creation of a client or service.
LEMMA CreatingBoth ==
  ASSUME NEW p \in Pairs, NEW n \in Nodes
  PROVE  LET list == CreatingEnds(p, n) IN
         /\ list \in Seq(ToDo) /\ Len(list) = 7 /\ DOMAIN list = 1 .. 7
         /\ list[1] = [do |-> "begin", on |-> First[p], node |-> n]
         /\ list[2] = [do |-> "make", on |-> First[p], node |-> n]
         /\ list[3] = [do |-> "announce", on |-> First[p], node |-> n]
         /\ list[4] = [do |-> "begin", on |-> Second[p], node |-> n]
         /\ list[5] = [do |-> "make", on |-> Second[p], node |-> n]
         /\ list[6] = [do |-> "announce", on |-> Second[p], node |-> n]
         /\ list[7] = [do |-> "register", on |-> p, node |-> n]
<1> DEFINE a == Creating(First[p], n)
           b == Creating(Second[p], n)
           c == Steps(<<"register">>, p, n)
<1>1. /\ a \in Seq(ToDo) /\ Len(a) = 3
      /\ a[1] = [do |-> "begin", on |-> First[p], node |-> n]
      /\ a[2] = [do |-> "make", on |-> First[p], node |-> n]
      /\ a[3] = [do |-> "announce", on |-> First[p], node |-> n]
  BY PairEnds, CreatingList
<1>2. /\ b \in Seq(ToDo) /\ Len(b) = 3
      /\ b[1] = [do |-> "begin", on |-> Second[p], node |-> n]
      /\ b[2] = [do |-> "make", on |-> Second[p], node |-> n]
      /\ b[3] = [do |-> "announce", on |-> Second[p], node |-> n]
  BY PairEnds, CreatingList
<1>3. /\ c \in Seq(ToDo) /\ Len(c) = 1
      /\ c[1] = [do |-> "register", on |-> p, node |-> n]
  BY OneStepList DEF ToDo, PairSteps
<1> HIDE DEF a, b, c
<1> DEFINE d == a \o b
<1>4. /\ d \in Seq(ToDo) /\ Len(d) = 6
      /\ d[1] = a[1] /\ d[2] = a[2] /\ d[3] = a[3]
      /\ d[4] = b[1] /\ d[5] = b[2] /\ d[6] = b[3]
  <2>1. /\ d \in Seq(ToDo) /\ Len(d) = Len(a) + Len(b)
        /\ \A i \in 1 .. Len(a) : d[i] = a[i]
        /\ \A i \in 1 .. Len(b) : d[Len(a) + i] = b[i]
    BY <1>1, <1>2, JoinedList
  <2> HIDE DEF d
  <2> QED
    BY <1>1, <1>2, <2>1
<1> HIDE DEF d
<1>5. /\ d \o c \in Seq(ToDo) /\ Len(d \o c) = 7
      /\ (d \o c)[1] = d[1] /\ (d \o c)[2] = d[2] /\ (d \o c)[3] = d[3]
      /\ (d \o c)[4] = d[4] /\ (d \o c)[5] = d[5] /\ (d \o c)[6] = d[6]
      /\ (d \o c)[7] = c[1]
  <2>1. /\ d \o c \in Seq(ToDo) /\ Len(d \o c) = Len(d) + Len(c)
        /\ \A i \in 1 .. Len(d) : (d \o c)[i] = d[i]
        /\ \A i \in 1 .. Len(c) : (d \o c)[Len(d) + i] = c[i]
    BY <1>3, <1>4, JoinedList
  <2> QED
    BY <1>3, <1>4, <2>1
<1>6. DOMAIN (d \o c) = 1 .. 7
  BY <1>5, LenProperties
<1>7. CreatingEnds(p, n) = d \o c
  BY DEF CreatingEnds, a, b, c, d
<1> QED
  BY <1>1, <1>2, <1>3, <1>4, <1>5, <1>6, <1>7

\* The list of a creation is well formed.
LEMMA CreatingOK ==
  ASSUME NEW e \in Endpoints, NEW n \in Nodes
  PROVE  ListOK(Creating(e, n))
<1> DEFINE list == Creating(e, n)
<1>1. /\ DOMAIN list = 1 .. 3 /\ Len(list) = 3
      /\ list[1] = [do |-> "begin", on |-> e, node |-> n]
      /\ list[2] = [do |-> "make", on |-> e, node |-> n]
      /\ list[3] = [do |-> "announce", on |-> e, node |-> n]
  BY CreatingList, LenProperties
<1> HIDE DEF list
<1>2. \A i \in 1 .. 3 : i = 1 \/ i = 2 \/ i = 3
  OBVIOUS
<1>3. Carried(list)
  BY <1>1, <1>2 DEF Carried, Following, After
<1>4. Entered(list)
  BY <1>1, <1>2 DEF Entered, After
<1>5. Registers(list)
  BY <1>1, <1>2 DEF Registers
<1> QED
  BY <1>3, <1>4, <1>5 DEF ListOK, list

\* The list of the creation of a client or service is well formed.
LEMMA CreatingBothOK ==
  ASSUME NEW p \in Pairs, NEW n \in Nodes
  PROVE  ListOK(CreatingEnds(p, n))
<1> DEFINE list == CreatingEnds(p, n)
<1>1. /\ list \in Seq(ToDo) /\ Len(list) = 7 /\ DOMAIN list = 1 .. 7
      /\ list[1] = [do |-> "begin", on |-> First[p], node |-> n]
      /\ list[2] = [do |-> "make", on |-> First[p], node |-> n]
      /\ list[3] = [do |-> "announce", on |-> First[p], node |-> n]
      /\ list[4] = [do |-> "begin", on |-> Second[p], node |-> n]
      /\ list[5] = [do |-> "make", on |-> Second[p], node |-> n]
      /\ list[6] = [do |-> "announce", on |-> Second[p], node |-> n]
      /\ list[7] = [do |-> "register", on |-> p, node |-> n]
  BY CreatingBoth
<1> HIDE DEF list
<1>2. First[p] # Second[p] /\ p # First[p] /\ p # Second[p] /\ Concerns(p) = {First[p], Second[p]}
  BY PairEnds, ConcernsOf
<1>3. \A i \in 1 .. 7 : i = 1 \/ i = 2 \/ i = 3 \/ i = 4 \/ i = 5 \/ i = 6 \/ i = 7
  OBVIOUS
<1>4. /\ \A i \in 1 .. 7 : After(list[i].do) # "none" => i \in {1, 2, 4, 5}
      /\ \A i \in {1, 2, 4, 5} : i + 1 \in 1 .. 7 /\ list[i + 1] = Following(list[i])
  BY <1>1, <1>3 DEF After, Following
<1>5. /\ \A j \in 1 .. 7 : j > 3 => list[j].on # First[p]
      /\ \A j \in 1 .. 7 : j > 6 => list[j].on # Second[p]
      /\ \A i \in 1 .. 7 : list[i].do \in {"announce", "undo", "free"} => i \in {3, 6}
  BY <1>1, <1>2, <1>3
<1>6. Carried(list)
  BY <1>1, <1>4, <1>5 DEF Carried
<1>7. Entered(list)
  <2>1. \A i \in 1 .. 7 : list[i].do \notin {"begin", "detach", "register", "release"} => i \in {2, 3, 5, 6}
    BY <1>1, <1>3
  <2>2. \A i \in {2, 3, 5, 6} : After(list[i - 1].do) = list[i].do
    BY <1>1 DEF After
  <2> QED
    BY <1>1, <2>1, <2>2 DEF Entered
<1>8. \A j \in 1 .. 7 : j < 7 => Precedes(list, j, list[7])
  <2> SUFFICES ASSUME NEW j \in 1 .. 7, j < 7
               PROVE  Precedes(list, j, list[7])
    OBVIOUS
  <2>1. list[j].do \in {"begin", "make", "announce"} /\ list[j].node = n
    BY <1>1, <1>3
  <2>2. list[j].on \in {First[p], Second[p]} /\ (list[j].on = First[p] => j < 4)
    BY <1>1, <1>2, <1>3
  <2>3. 4 \in DOMAIN list /\ list[4].on = Second[p] /\ list[4].do = "begin"
        /\ list[7].on = p /\ list[7].node = n
    BY <1>1
  <2> QED
    BY <1>2, <2>1, <2>2, <2>3 DEF Precedes
<1>9. Registers(list)
  <2>1. /\ list[7].do = "register"
        /\ \A i \in 1 .. 7 : /\ list[i].do \notin {"release", "unregister"}
                            /\ list[i].do = "register" => i = 7
    BY <1>1, <1>3
  <2> QED
    BY <1>1, <1>8, <2>1 DEF Registers
<1> QED
  BY <1>6, <1>7, <1>9 DEF ListOK, list

\* Both ends of a client or service are destroyed, the second one first.
LEMMA DestroyingBothOK ==
  ASSUME NEW p \in Pairs, NEW n \in Nodes
  PROVE  LET list == DestroyingEnds(p, n) IN
         /\ list \in Seq(ToDo) /\ Len(list) = 8 /\ DOMAIN list = 1 .. 8
         /\ \A i \in 1 .. 4 : list[i] = Destroying(Second[p], n)[i]
         /\ \A i \in 1 .. 4 : list[4 + i] = Destroying(First[p], n)[i]
         /\ ListOK(list)
<1> DEFINE a == Destroying(Second[p], n)
           b == Destroying(First[p], n)
<1>1. /\ a \in Seq(ToDo) /\ Len(a) = 4 /\ ListOK(a)
      /\ a[1] = [do |-> "detach", on |-> Second[p], node |-> n]
      /\ a[2] = [do |-> "unlisten", on |-> Second[p], node |-> n]
      /\ a[3] = [do |-> "delete", on |-> Second[p], node |-> n]
      /\ a[4] = [do |-> "free", on |-> Second[p], node |-> n]
  BY PairEnds, DestroyingList, DestroyingOK
<1>2. /\ b \in Seq(ToDo) /\ Len(b) = 4 /\ ListOK(b)
      /\ b[1] = [do |-> "detach", on |-> First[p], node |-> n]
      /\ b[2] = [do |-> "unlisten", on |-> First[p], node |-> n]
      /\ b[3] = [do |-> "delete", on |-> First[p], node |-> n]
      /\ b[4] = [do |-> "free", on |-> First[p], node |-> n]
  BY PairEnds, DestroyingList, DestroyingOK
<1> HIDE DEF a, b
<1>3. \A i \in 1 .. 4 : i = 1 \/ i = 2 \/ i = 3 \/ i = 4
  OBVIOUS
<1>4. /\ \A i \in 1 .. Len(a) : a[i].do \in {"undo", "detach", "unlisten", "delete", "free"}
      /\ \A i \in 1 .. Len(b) : b[i].do \in {"detach", "unlisten", "delete", "free", "release"}
      /\ Len(b) > 0 => b[1].do \in {"detach", "release"}
      /\ \A i \in 1 .. Len(a), j \in 1 .. Len(b) : a[i].on # b[j].on
  BY <1>1, <1>2, <1>3, PairEnds
<1>5. ListOK(a \o b)
  BY <1>1, <1>2, <1>4, JoinedOK
<1>6. /\ a \o b \in Seq(ToDo) /\ Len(a \o b) = 8
      /\ \A i \in 1 .. 4 : (a \o b)[i] = a[i]
      /\ \A i \in 1 .. 4 : (a \o b)[4 + i] = b[i]
  <2>1. /\ a \o b \in Seq(ToDo) /\ Len(a \o b) = Len(a) + Len(b)
        /\ \A i \in 1 .. Len(a) : (a \o b)[i] = a[i]
        /\ \A i \in 1 .. Len(b) : (a \o b)[Len(a) + i] = b[i]
    BY <1>1, <1>2, JoinedList
  <2> QED
    BY <1>1, <1>2, <2>1
<1> QED
  BY <1>5, <1>6, LenProperties DEF DestroyingEnds, a, b

\* The whole destruction of a client or service.
LEMMA DestroyingWhole ==
  ASSUME NEW p \in Pairs, NEW n \in Nodes
  PROVE  LET list == DestroyingAll(p, n) IN
         /\ list \in Seq(ToDo) /\ Len(list) = 10 /\ DOMAIN list = 1 .. 10
         /\ list[1] = [do |-> "unregister", on |-> p, node |-> n]
         /\ list[2] = [do |-> "detach", on |-> Second[p], node |-> n]
         /\ list[3] = [do |-> "unlisten", on |-> Second[p], node |-> n]
         /\ list[4] = [do |-> "delete", on |-> Second[p], node |-> n]
         /\ list[5] = [do |-> "free", on |-> Second[p], node |-> n]
         /\ list[6] = [do |-> "detach", on |-> First[p], node |-> n]
         /\ list[7] = [do |-> "unlisten", on |-> First[p], node |-> n]
         /\ list[8] = [do |-> "delete", on |-> First[p], node |-> n]
         /\ list[9] = [do |-> "free", on |-> First[p], node |-> n]
         /\ list[10] = [do |-> "release", on |-> p, node |-> n]
<1> DEFINE u == Steps(<<"unregister">>, p, n)
           b == Destroying(Second[p], n)
           a == Destroying(First[p], n)
           r == Steps(<<"release">>, p, n)
<1>1. /\ u \in Seq(ToDo) /\ Len(u) = 1 /\ u[1] = [do |-> "unregister", on |-> p, node |-> n]
      /\ r \in Seq(ToDo) /\ Len(r) = 1 /\ r[1] = [do |-> "release", on |-> p, node |-> n]
  BY OneStepList DEF ToDo, PairSteps
<1>2. /\ b \in Seq(ToDo) /\ Len(b) = 4
      /\ b[1] = [do |-> "detach", on |-> Second[p], node |-> n]
      /\ b[2] = [do |-> "unlisten", on |-> Second[p], node |-> n]
      /\ b[3] = [do |-> "delete", on |-> Second[p], node |-> n]
      /\ b[4] = [do |-> "free", on |-> Second[p], node |-> n]
  BY PairEnds, DestroyingList
<1>3. /\ a \in Seq(ToDo) /\ Len(a) = 4
      /\ a[1] = [do |-> "detach", on |-> First[p], node |-> n]
      /\ a[2] = [do |-> "unlisten", on |-> First[p], node |-> n]
      /\ a[3] = [do |-> "delete", on |-> First[p], node |-> n]
      /\ a[4] = [do |-> "free", on |-> First[p], node |-> n]
  BY PairEnds, DestroyingList
<1> HIDE DEF u, b, a, r
<1> DEFINE c == u \o b
<1>4. /\ c \in Seq(ToDo) /\ Len(c) = 5
      /\ c[1] = u[1] /\ c[2] = b[1] /\ c[3] = b[2] /\ c[4] = b[3] /\ c[5] = b[4]
  <2>1. /\ c \in Seq(ToDo) /\ Len(c) = Len(u) + Len(b)
        /\ \A i \in 1 .. Len(u) : c[i] = u[i]
        /\ \A i \in 1 .. Len(b) : c[Len(u) + i] = b[i]
    BY <1>1, <1>2, JoinedList
  <2> HIDE DEF c
  <2> QED
    BY <1>1, <1>2, <2>1
<1> HIDE DEF c
<1> DEFINE d == c \o a
<1>5. /\ d \in Seq(ToDo) /\ Len(d) = 9
      /\ d[1] = c[1] /\ d[2] = c[2] /\ d[3] = c[3] /\ d[4] = c[4] /\ d[5] = c[5]
      /\ d[6] = a[1] /\ d[7] = a[2] /\ d[8] = a[3] /\ d[9] = a[4]
  <2>1. /\ d \in Seq(ToDo) /\ Len(d) = Len(c) + Len(a)
        /\ \A i \in 1 .. Len(c) : d[i] = c[i]
        /\ \A i \in 1 .. Len(a) : d[Len(c) + i] = a[i]
    BY <1>3, <1>4, JoinedList
  <2> HIDE DEF d
  <2> QED
    BY <1>3, <1>4, <2>1
<1> HIDE DEF d
<1> DEFINE f == d \o r
<1>6. /\ f \in Seq(ToDo) /\ Len(f) = Len(d) + Len(r)
      /\ DOMAIN f = 1 .. Len(d) + Len(r)
      /\ \A i \in 1 .. Len(d) : f[i] = d[i]
      /\ \A i \in 1 .. Len(r) : f[Len(d) + i] = r[i]
  BY <1>1, <1>5, JoinedList
<1>7. DestroyingAll(p, n) = f
  BY DEF DestroyingAll, u, b, a, r, c, d
<1> HIDE DEF f
<1>8. Len(f) = 10 /\ DOMAIN f = 1 .. 10 /\ f[10] = r[1] /\ \A i \in 1 .. 9 : f[i] = d[i]
  BY <1>1, <1>5, <1>6
<1>9. /\ f[1] = d[1] /\ f[2] = d[2] /\ f[3] = d[3] /\ f[4] = d[4] /\ f[5] = d[5]
      /\ f[6] = d[6] /\ f[7] = d[7] /\ f[8] = d[8] /\ f[9] = d[9]
  BY <1>8
<1> QED
  BY <1>1, <1>2, <1>3, <1>4, <1>5, <1>6, <1>7, <1>8, <1>9

\* The list of the destruction of a client or service is well formed.
LEMMA DestroyingWholeOK ==
  ASSUME NEW p \in Pairs, NEW n \in Nodes
  PROVE  ListOK(DestroyingAll(p, n))
<1> DEFINE list == DestroyingAll(p, n)
<1>1. /\ list \in Seq(ToDo) /\ Len(list) = 10 /\ DOMAIN list = 1 .. 10
      /\ list[1] = [do |-> "unregister", on |-> p, node |-> n]
      /\ list[2] = [do |-> "detach", on |-> Second[p], node |-> n]
      /\ list[3] = [do |-> "unlisten", on |-> Second[p], node |-> n]
      /\ list[4] = [do |-> "delete", on |-> Second[p], node |-> n]
      /\ list[5] = [do |-> "free", on |-> Second[p], node |-> n]
      /\ list[6] = [do |-> "detach", on |-> First[p], node |-> n]
      /\ list[7] = [do |-> "unlisten", on |-> First[p], node |-> n]
      /\ list[8] = [do |-> "delete", on |-> First[p], node |-> n]
      /\ list[9] = [do |-> "free", on |-> First[p], node |-> n]
      /\ list[10] = [do |-> "release", on |-> p, node |-> n]
  BY DestroyingWhole
<1> HIDE DEF list
<1>2. First[p] # Second[p] /\ p # First[p] /\ p # Second[p]
  BY PairEnds, ConcernsOf
<1>3. \A i \in 1 .. 10 : \/ i = 1 \/ i = 2 \/ i = 3 \/ i = 4 \/ i = 5
                         \/ i = 6 \/ i = 7 \/ i = 8 \/ i = 9 \/ i = 10
  OBVIOUS
<1>4. /\ \A i \in 1 .. 10 : After(list[i].do) # "none" => i \in {2, 3, 4, 6, 7, 8}
      /\ \A i \in {2, 3, 4, 6, 7, 8} : i + 1 \in 1 .. 10 /\ list[i + 1] = Following(list[i])
  BY <1>1, <1>3 DEF After, Following
<1>5. /\ \A j \in 1 .. 10 : j > 5 => list[j].on # Second[p]
      /\ \A j \in 1 .. 10 : j > 9 => list[j].on # First[p]
      /\ \A i \in 1 .. 10 : list[i].do \in {"announce", "undo", "free"} => i \in {5, 9}
  BY <1>1, <1>2, <1>3
<1>6. Carried(list)
  BY <1>1, <1>4, <1>5 DEF Carried
<1>7. Entered(list)
  <2>1. \A i \in 1 .. 10 : i > 1 /\ list[i].do \notin {"begin", "detach", "register", "release"}
                             => i \in {3, 4, 5, 7, 8, 9}
    BY <1>1, <1>3
  <2>2. \A i \in {3, 4, 5, 7, 8, 9} : After(list[i - 1].do) = list[i].do
    BY <1>1 DEF After
  <2> QED
    BY <1>1, <2>1, <2>2 DEF Entered
<1>8. Registers(list)
  <2>1. \A i \in 1 .. 10 : /\ list[i].do \notin {"register", "announce"}
                           /\ list[i].do = "release" => i = 10
                           /\ list[i].do = "unregister" => i = 1
    BY <1>1, <1>3
  <2> QED
    BY <1>1, <2>1 DEF Registers
<1> QED
  BY <1>6, <1>7, <1>8 DEF ListOK, list

\* What is left after a failure: the first end of a client or service is
\* destroyed when the second one fails, and otherwise nothing has been created.
LEMMA FailureLeaves ==
  ASSUME NEW list \in Seq(ToDo), ListOK(list), NEW e \in Endpoints, NEW k \in 1 .. Len(list),
         list[k].do = "announce", \A i \in 1 .. k : list[i].on = e
  PROVE  LET left == AfterFailure(SubSeq(list, k + 1, Len(list))) IN
         \/ /\ left = <<>>
            /\ \A x \in About(list) :
                 x = e \/ \E i \in DOMAIN list : list[i].do = "begin" /\ list[i].on = x
            /\ \A i \in DOMAIN list : list[i].do # "free"
         \/ \E p \in Pairs :
              /\ Len(list) = k + 1 /\ list[k + 1].do = "register" /\ list[k + 1].on = p
              /\ e = Second[p]
              /\ left = Destroying(First[p], list[k + 1].node)
<1> DEFINE rest == SubSeq(list, k + 1, Len(list))
<1>1. Len(list) \in Nat /\ DOMAIN list = 1 .. Len(list) /\ k \in Nat /\ \A i \in DOMAIN list : list[i] \in ToDo
  BY LenProperties, ElementOfSeq
<1>4. \A i \in DOMAIN list : list[i].do # "free"
  <2> SUFFICES ASSUME NEW i \in DOMAIN list, list[i].do = "free"
               PROVE  FALSE
    OBVIOUS
  <2>1. CASE i < k
    BY <1>1, <2>1 DEF ListOK, Carried
  <2>2. CASE i > k
    <3>1. list[Len(list)].do = "register" /\ Len(list) \in DOMAIN list
      BY <1>1, <2>2 DEF ListOK, Registers
    <3>2. i # Len(list) /\ i < Len(list)
      BY <1>1, <3>1
    <3> QED
      BY <3>1, <3>2 DEF ListOK, Registers, Precedes
  <2> QED
    BY <1>1, <2>1, <2>2
<1>2. CASE k = Len(list)
  <2>1. rest = <<>>
    BY <1>1, <1>2, SubSeqEmpty
  <2>2. AfterFailure(rest) = <<>>
    BY <2>1 DEF AfterFailure
  <2>3. \A x \in About(list) : x = e
    BY <1>1, <1>2, ConcernsOf DEF About
  <2> QED
    BY <1>4, <2>2, <2>3
<1>3. CASE k < Len(list)
  <2> DEFINE m == Len(list)
             p == list[m].on
  <2>1. k \in DOMAIN list /\ k + 1 \in DOMAIN list /\ m \in DOMAIN list /\ k + 1 <= m
    BY <1>1, <1>3
  <2>2. list[m].do = "register"
    BY <1>3, <2>1 DEF ListOK, Registers
  <2>3. p \in Pairs
    BY <1>1, <2>1, <2>2 DEF ToDo, EndpointSteps
  <2>4. \A j \in DOMAIN list : j < m => Precedes(list, j, list[m])
    BY <2>1, <2>2 DEF ListOK, Registers
  <2>5. list[k].on = e /\ e \in Concerns(p)
    BY <1>1, <1>3, <2>1, <2>4 DEF Precedes
  <2>6. /\ rest # <<>> /\ Head(rest) = list[k + 1]
    <3>1. /\ Len(rest) = Len(list) - (k + 1) + 1
          /\ \A i \in 1 .. Len(list) - (k + 1) + 1 : rest[i] = list[k + 1 + i - 1]
          /\ rest \in Seq(ToDo)
      BY <1>1, <2>1, SubSeqProperties
    <3> HIDE DEF rest
    <3>2. Len(rest) > 0 /\ rest[1] = list[k + 1]
      <4>1. 1 \in 1 .. Len(list) - (k + 1) + 1 /\ k + 1 + 1 - 1 = k + 1
        BY <1>1, <1>3
      <4> QED
        BY <1>1, <1>3, <3>1, <4>1
    <3>3. rest # <<>>
      BY <3>1, <3>2
    <3> QED
      BY <3>1, <3>2, <3>3
  <2> HIDE DEF m, p, rest
  <2>7. CASE list[k + 1].do = "register"
    <3>1. k + 1 = m
      BY <2>1, <2>7 DEF ListOK, Registers, m
    <3>2. e # First[p]
      <4>1. k < m /\ Precedes(list, k, list[m])
        BY <1>3, <2>1, <2>4 DEF m
      <4>2. \A j \in DOMAIN list : j > k /\ list[j].do = "begin" => FALSE
        BY <1>1, <2>2, <3>1 DEF m
      <4> QED
        BY <2>5, <4>1, <4>2 DEF Precedes, p
    <3>3. e = Second[p]
      BY <2>3, <2>5, <3>2, PairEnds
    <3>4. AfterFailure(rest) = Destroying(First[p], list[k + 1].node)
      BY <2>6, <2>7, <3>1 DEF AfterFailure, p
    <3> QED
      BY <2>3, <2>7, <3>1, <3>3, <3>4 DEF m, p, rest
  <2>8. CASE list[k + 1].do # "register"
    <3>1. AfterFailure(rest) = <<>>
      BY <2>6, <2>8 DEF AfterFailure
    <3>2. k + 1 # m /\ k + 1 < m
      <4>1. list[k + 1].do # list[m].do
        BY <2>2, <2>8
      <4>2. k + 1 # m
        BY <4>1
      <4>3. m \in Nat
        BY <1>1 DEF m
      <4> QED
        BY <1>1, <2>1, <4>2, <4>3
    <3>3. list[k + 1].do \in {"begin", "make", "announce"} /\ list[k + 1].on \in Concerns(p)
      BY <2>1, <2>4, <3>2 DEF Precedes, p
    <3>4. list[k + 1].do = "begin"
      <4>1. k + 1 > 1 /\ (k + 1) - 1 = k
        BY <1>1
      <4> QED
        BY <2>1, <3>3, <4>1 DEF ListOK, Entered, After
    <3>5. list[k + 1].on # e
      BY <1>1, <2>1, <2>5 DEF ListOK, Carried
    <3>6. Concerns(p) = {e, list[k + 1].on}
      BY <2>3, <2>5, <3>3, <3>5, PairEnds
    <3>7. ASSUME NEW i \in DOMAIN list
          PROVE  Concerns(list[i].on) \subseteq {e, list[k + 1].on}
      <4>1. CASE i = m
        BY <3>6, <4>1 DEF p
      <4>2. CASE i < m
        <5>1. list[i].on \in Concerns(p)
          BY <2>4, <4>2 DEF Precedes, p
        <5>2. Concerns(list[i].on) = {list[i].on}
          BY <2>3, <5>1, PairEnds, ConcernsOf
        <5> QED
          BY <3>6, <5>1, <5>2
      <4> QED
        BY <1>1, <4>1, <4>2 DEF m
    <3>8. \A x \in About(list) : x \in {e, list[k + 1].on}
      BY <3>7 DEF About
    <3> QED
      BY <2>1, <3>1, <3>4, <3>8, <1>4 DEF rest
  <2> QED
    BY <2>7, <2>8
<1> HIDE DEF rest
<1>5. k = Len(list) \/ k < Len(list)
  <2>1. Len(list) \in Nat
    BY <1>1
  <2>2. k \in Nat /\ k <= Len(list)
    BY <2>1
  <2> QED
    BY <2>1, <2>2
<1> QED
  BY <1>2, <1>3, <1>5 DEF rest

\* The list that undoes the creation of e.
LEMMA UndoingList ==
  ASSUME NEW e \in Endpoints, NEW n \in Nodes
  PROVE  LET list == Steps(<<"undo">>, e, n) \o <<>> IN
         /\ list \in Seq(ToDo) /\ Len(list) = 1 /\ DOMAIN list = {1}
         /\ list[1] = [do |-> "undo", on |-> e, node |-> n]
         /\ ListOK(list)
<1> DEFINE u == Steps(<<"undo">>, e, n)
<1>1. u \in Seq(ToDo) /\ Len(u) = 1 /\ u[1] = [do |-> "undo", on |-> e, node |-> n]
  BY OneStepList DEF ToDo, EndpointSteps
<1> HIDE DEF u
<1>2. u \o <<>> = u
  BY <1>1, ConcatEmptySeq
<1>3. DOMAIN u = {1}
  BY <1>1, LenProperties
<1>4. ListOK(u)
  BY <1>1, UndoingOK
<1> QED
  BY <1>1, <1>2, <1>3, <1>4 DEF u

\* The list that undoes the creation of e and destroys d.
LEMMA UndoingBoth ==
  ASSUME NEW e \in Endpoints, NEW d \in Endpoints, e # d, NEW n \in Nodes, NEW o \in Nodes
  PROVE  LET list == Steps(<<"undo">>, e, n) \o Destroying(d, o) IN
         /\ list \in Seq(ToDo) /\ Len(list) = 5 /\ DOMAIN list = 1 .. 5
         /\ list[1] = [do |-> "undo", on |-> e, node |-> n]
         /\ \A i \in 1 .. 4 : list[1 + i] = Destroying(d, o)[i]
         /\ ListOK(list)
<1> DEFINE u == Steps(<<"undo">>, e, n)
           a == Destroying(d, o)
<1>1. u \in Seq(ToDo) /\ Len(u) = 1 /\ u[1] = [do |-> "undo", on |-> e, node |-> n]
  BY OneStepList DEF ToDo, EndpointSteps
<1>2. /\ a \in Seq(ToDo) /\ Len(a) = 4 /\ ListOK(a)
      /\ a[1] = [do |-> "detach", on |-> d, node |-> o]
      /\ a[2] = [do |-> "unlisten", on |-> d, node |-> o]
      /\ a[3] = [do |-> "delete", on |-> d, node |-> o]
      /\ a[4] = [do |-> "free", on |-> d, node |-> o]
  BY DestroyingList, DestroyingOK
<1> HIDE DEF u, a
<1>3. ListOK(u)
  BY <1>1, UndoingOK
<1>4. \A i \in 1 .. 4 : i = 1 \/ i = 2 \/ i = 3 \/ i = 4
  OBVIOUS
<1>5. /\ \A i \in 1 .. Len(u) : u[i].do \in {"undo", "detach", "unlisten", "delete", "free"}
      /\ \A i \in 1 .. Len(a) : a[i].do \in {"detach", "unlisten", "delete", "free", "release"}
      /\ Len(a) > 0 => a[1].do \in {"detach", "release"}
      /\ \A i \in 1 .. Len(u), j \in 1 .. Len(a) : u[i].on # a[j].on
  BY <1>1, <1>2, <1>4
<1>6. ListOK(u \o a)
  BY <1>1, <1>2, <1>3, <1>5, JoinedOK
<1>7. /\ u \o a \in Seq(ToDo) /\ Len(u \o a) = Len(u) + Len(a)
      /\ DOMAIN (u \o a) = 1 .. Len(u) + Len(a)
      /\ \A i \in 1 .. Len(u) : (u \o a)[i] = u[i]
      /\ \A i \in 1 .. Len(a) : (u \o a)[Len(u) + i] = a[i]
  BY <1>1, <1>2, JoinedList
<1>8. /\ Len(u \o a) = 5 /\ DOMAIN (u \o a) = 1 .. 5 /\ (u \o a)[1] = u[1]
      /\ \A i \in 1 .. 4 : (u \o a)[1 + i] = a[i]
  BY <1>1, <1>2, <1>7
<1> QED
  BY <1>1, <1>6, <1>7, <1>8 DEF u, a

-----------------------------------------------------------------------------
(* The parts of an endpoint.                                               *)

\* An endpoint is made of different parts, a subscription's impl before its
\* reader.
LEMMA OrderIs ==
  ASSUME NEW e \in Endpoints
  PROVE  /\ Len(Order(e)) \in {3, 6} /\ DOMAIN Order(e) = 1 .. Len(Order(e))
         /\ \A i \in DOMAIN Order(e) : Order(e)[i] \in Parts
         /\ \A i, j \in DOMAIN Order(e) : Order(e)[i] = Order(e)[j] => i = j
         /\ e \in Subs => \A i \in DOMAIN Order(e) :
                            /\ Order(e)[i] = "impl" <=> i = 3
                            /\ Order(e)[i] = "entity" <=> i = 4
<1>1. CASE e \in Pubs
  <2>1. Order(e) = <<"topic", "entity", "memory">>
    BY <1>1 DEF Order
  <2>2. e \notin Subs
    BY <1>1, EndpointConstants
  <2>3. /\ Len(Order(e)) = 3 /\ DOMAIN Order(e) = 1 .. 3
        /\ Order(e)[1] = "topic" /\ Order(e)[2] = "entity" /\ Order(e)[3] = "memory"
    BY <2>1
  <2>4. \A i \in 1 .. 3 : i = 1 \/ i = 2 \/ i = 3
    OBVIOUS
  <2> QED
    BY <2>2, <2>3, <2>4 DEF Parts
<1>2. CASE e \notin Pubs
  <2>1. Order(e) = <<"topic", "filter", "impl", "entity", "condition", "memory">>
    BY <1>2 DEF Order
  <2>2. /\ Len(Order(e)) = 6 /\ DOMAIN Order(e) = 1 .. 6
        /\ Order(e)[1] = "topic" /\ Order(e)[2] = "filter" /\ Order(e)[3] = "impl"
        /\ Order(e)[4] = "entity" /\ Order(e)[5] = "condition" /\ Order(e)[6] = "memory"
    BY <2>1
  <2>3. \A i \in 1 .. 6 : i = 1 \/ i = 2 \/ i = 3 \/ i = 4 \/ i = 5 \/ i = 6
    OBVIOUS
  <2> QED
    BY <2>2, <2>3 DEF Parts
<1> QED
  BY <1>1, <1>2

\* One part more.
LEMMA PartsGrow ==
  ASSUME NEW e \in Endpoints, NEW k \in 0 .. Len(Order(e)) - 1
  PROVE  /\ PartsUpTo(e, k + 1) = PartsUpTo(e, k) \cup {Order(e)[k + 1]}
         /\ PartsUpTo(e, k) = PartsUpTo(e, k + 1) \ {Order(e)[k + 1]}
         /\ Order(e)[k + 1] \notin PartsUpTo(e, k)
<1>1. /\ Len(Order(e)) \in Nat /\ DOMAIN Order(e) = 1 .. Len(Order(e)) /\ k \in Nat
      /\ \A i, j \in DOMAIN Order(e) : Order(e)[i] = Order(e)[j] => i = j
  BY OrderIs
<1>2. k + 1 \in DOMAIN Order(e) /\ \A i \in 1 .. k : i \in DOMAIN Order(e) /\ i # k + 1
  BY <1>1
<1>3. Order(e)[k + 1] \notin PartsUpTo(e, k)
  BY <1>1, <1>2 DEF PartsUpTo
<1>4. 1 .. k + 1 = (1 .. k) \cup {k + 1}
  BY <1>1
<1>5. PartsUpTo(e, k + 1) = PartsUpTo(e, k) \cup {Order(e)[k + 1]}
  BY <1>4 DEF PartsUpTo
<1> QED
  BY <1>3, <1>5

\* No part is there twice.
LEMMA PartsCount ==
  ASSUME NEW e \in Endpoints
  PROVE  \A k \in 0 .. Len(Order(e)) :
           /\ PartsUpTo(e, k) \in SUBSET Parts
           /\ IsFiniteSet(PartsUpTo(e, k)) /\ Cardinality(PartsUpTo(e, k)) = k
<1>1. Len(Order(e)) \in {3, 6}
  BY OrderIs
<1> DEFINE P(k) == IsFiniteSet(PartsUpTo(e, k)) /\ Cardinality(PartsUpTo(e, k)) = k
<1>2. P(0)
  <2>1. PartsUpTo(e, 0) = {}
    BY DEF PartsUpTo
  <2> QED
    BY <2>1, FS_EmptySet
<1>3. ASSUME NEW k \in 0 .. Len(Order(e)) - 1, P(k)
      PROVE  P(k + 1)
  <2>1. /\ PartsUpTo(e, k + 1) = PartsUpTo(e, k) \cup {Order(e)[k + 1]}
        /\ Order(e)[k + 1] \notin PartsUpTo(e, k)
    BY PartsGrow
  <2>2. /\ IsFiniteSet(PartsUpTo(e, k) \cup {Order(e)[k + 1]})
        /\ Cardinality(PartsUpTo(e, k) \cup {Order(e)[k + 1]}) = Cardinality(PartsUpTo(e, k)) + 1
    BY <1>3, <2>1, FS_AddElement
  <2> QED
    BY <1>3, <2>1, <2>2
<1>4. \A k \in 0 .. Len(Order(e)) : PartsUpTo(e, k) \in SUBSET Parts
  BY <1>1, OrderIs DEF PartsUpTo
<1> HIDE DEF P
<1>5. P(1) /\ P(2) /\ P(3)
  <2>1. /\ 0 \in 0 .. Len(Order(e)) - 1 /\ 1 \in 0 .. Len(Order(e)) - 1 /\ 2 \in 0 .. Len(Order(e)) - 1
        /\ 0 + 1 = 1 /\ 1 + 1 = 2 /\ 2 + 1 = 3
    <3> DEFINE n == Len(Order(e))
    <3>1. n \in Nat /\ n >= 3
      BY <1>1
    <3> HIDE DEF n
    <3>2. /\ 0 \in 0 .. n - 1 /\ 1 \in 0 .. n - 1 /\ 2 \in 0 .. n - 1
          /\ 0 + 1 = 1 /\ 1 + 1 = 2 /\ 2 + 1 = 3
      BY <3>1
    <3> QED
      BY <3>2 DEF n
  <2>2. P(0 + 1)
    BY <1>2, <1>3, <2>1
  <2>3. P(1 + 1)
    BY <1>3, <2>1, <2>2
  <2> QED
    BY <1>3, <2>1, <2>2, <2>3
<1>6. CASE Len(Order(e)) = 6
  <2>1. /\ 3 \in 0 .. Len(Order(e)) - 1 /\ 4 \in 0 .. Len(Order(e)) - 1 /\ 5 \in 0 .. Len(Order(e)) - 1
        /\ 3 + 1 = 4 /\ 4 + 1 = 5 /\ 5 + 1 = 6
    BY <1>6
  <2>2. P(3 + 1)
    BY <1>3, <1>5, <2>1
  <2>3. P(4 + 1)
    BY <1>3, <2>1, <2>2
  <2>4. P(5 + 1)
    BY <1>3, <2>1, <2>3
  <2>5. \A k \in 0 .. 6 : k = 0 \/ k = 1 \/ k = 2 \/ k = 3 \/ k = 4 \/ k = 5 \/ k = 6
    OBVIOUS
  <2>6. \A k \in 0 .. 6 : P(k)
    BY <1>2, <1>5, <2>1, <2>2, <2>3, <2>4, <2>5
  <2> QED
    BY <1>4, <1>6, <2>6 DEF P
<1>7. CASE Len(Order(e)) = 3
  <2>1. \A k \in 0 .. 3 : k = 0 \/ k = 1 \/ k = 2 \/ k = 3
    OBVIOUS
  <2>2. \A k \in 0 .. 3 : P(k)
    BY <1>2, <1>5, <2>1
  <2> QED
    BY <1>4, <1>7, <2>2 DEF P
<1> QED
  BY <1>1, <1>6, <1>7

\* The part to be made now is the next in the order.
LEMMA MissingIs ==
  ASSUME NEW e \in Endpoints, NEW k \in 0 .. Len(Order(e)), parts[e] = PartsUpTo(e, k)
  PROVE  Cardinality(parts[e]) = k /\ Missing(e) = Order(e)[k + 1]
  BY PartsCount DEF Missing

\* The part undone first is the last that was made.
LEMMA LastIs ==
  ASSUME NEW e \in Endpoints, NEW k \in 0 .. Len(Order(e)), parts[e] = PartsUpTo(e, k)
  PROVE  /\ k = 0 => parts[e] = {}
         /\ k > 0 =>
              /\ parts[e] # {} /\ k \in DOMAIN Order(e)
              /\ k = CHOOSE i \in DOMAIN Order(e) :
                       /\ Order(e)[i] \in parts[e]
                       /\ \A j \in DOMAIN Order(e) : Order(e)[j] \in parts[e] => j <= i
              /\ parts[e] \ {Order(e)[k]} = PartsUpTo(e, k - 1)
<1>1. /\ Len(Order(e)) \in Nat /\ DOMAIN Order(e) = 1 .. Len(Order(e)) /\ k \in Nat
      /\ \A i, j \in DOMAIN Order(e) : Order(e)[i] = Order(e)[j] => i = j
  BY OrderIs
<1>2. CASE k = 0
  BY <1>2 DEF PartsUpTo
<1>3. CASE k > 0
  <2>1. k \in DOMAIN Order(e) /\ Order(e)[k] \in parts[e]
    BY <1>1, <1>3 DEF PartsUpTo
  <2>2. \A j \in DOMAIN Order(e) : Order(e)[j] \in parts[e] <=> j <= k
    BY <1>1, <1>3 DEF PartsUpTo
  <2> DEFINE Last(i) == /\ Order(e)[i] \in parts[e]
                        /\ \A j \in DOMAIN Order(e) : Order(e)[j] \in parts[e] => j <= i
  <2>3. Last(k)
    BY <2>1, <2>2
  <2>4. \A i \in DOMAIN Order(e) : Last(i) => i = k
    BY <1>1, <2>1, <2>2
  <2> HIDE DEF Last
  <2>5. k = CHOOSE i \in DOMAIN Order(e) : Last(i)
    BY <2>1, <2>3, <2>4
  <2>6. k - 1 \in 0 .. Len(Order(e)) - 1 /\ (k - 1) + 1 = k
    BY <1>1, <1>3
  <2>7. PartsUpTo(e, k - 1) = PartsUpTo(e, k) \ {Order(e)[k]}
    BY <2>6, PartsGrow
  <2>8. k = CHOOSE i \in DOMAIN Order(e) :
              /\ Order(e)[i] \in parts[e]
              /\ \A j \in DOMAIN Order(e) : Order(e)[j] \in parts[e] => j <= i
    BY <2>5 DEF Last
  <2>9. parts[e] # {}
    BY <2>1
  <2>10. k # 0
    BY <1>1, <1>3
  <2> QED
    BY <2>1, <2>7, <2>8, <2>9, <2>10, Zenon
<1> QED
  BY <1>1, <1>2, <1>3

-----------------------------------------------------------------------------
(* What a step of one thread leaves alone.                                 *)

\* An endpoint is what it was.
Same(e) ==
  /\ parts'[e] = parts[e] /\ owner'[e] = owner[e]
  /\ e \in registered' <=> e \in registered
  /\ e \in listening' <=> e \in listening

\* A list is about endpoints, those of its steps.
LEMMA AboutList ==
  ASSUME NEW list \in Seq(ToDo)
  PROVE  /\ About(list) \subseteq Endpoints
         /\ \A i \in DOMAIN list :
              /\ list[i] \in ToDo
              /\ Concerns(list[i].on) \subseteq About(list)
              /\ list[i].on \in Endpoints => list[i].on \in About(list)
<1>1. \A i \in DOMAIN list : list[i] \in ToDo
  BY ElementOfSeq, LenProperties
<1>2. \A i \in DOMAIN list : Concerns(list[i].on) \subseteq Endpoints
  BY <1>1, ConcernsOf
<1>3. About(list) \subseteq Endpoints
  BY <1>2 DEF About
<1>4. \A i \in DOMAIN list : Concerns(list[i].on) \subseteq About(list)
  BY DEF About
<1> QED
  BY <1>1, <1>3, <1>4, ConcernsOf

\* A step finds what it expects as long as its endpoints are what they were.
LEMMA StepStillFits ==
  ASSUME NEW list \in Seq(ToDo), NEW i \in DOMAIN list, StepFits(list, i), nodes' = nodes,
         \A x \in Concerns(list[i].on) : Same(x)
  PROVE  StepFits(list, i)'
<1>1. list[i] \in ToDo
  BY AboutList
<1>2. CASE list[i].do \in PairSteps
  <2>1. Concerns(list[i].on)' = Concerns(list[i].on)
    BY DEF Concerns
  <2>2. \A x : Mentions(list, x)' = Mentions(list, x)
    BY DEF Mentions
  <2> QED
    BY <1>2, <2>1, <2>2 DEF StepFits, PairSteps, CreatingSteps, Same, Fresh
<1>3. CASE list[i].do \in EndpointSteps
  <2>1. list[i].on \in Endpoints /\ list[i].on \in Concerns(list[i].on)
    BY <1>1, <1>3, ConcernsOf DEF ToDo, EndpointSteps, PairSteps
  <2>2. Same(list[i].on)
    BY <2>1
  <2>3. \A x, k : PartsUpTo(x, k)' = PartsUpTo(x, k) /\ Order(x)' = Order(x)
    BY DEF PartsUpTo, Order
  <2> QED
    BY <1>3, <2>2, <2>3 DEF StepFits, EndpointSteps, CreatingSteps, Same, Fresh
<1> QED
  BY <1>1, <1>2, <1>3 DEF ToDo

\* Thread t works on the endpoints X and nobody else does: those it gives to the
\* application are registered, the others are in its new list or nothing is left
\* of them.
HandsOver(t, list, X, kept, new) ==
  /\ About(todo[t]) \subseteq X /\ About(list) \subseteq X
  /\ \A u \in Threads \ {t}, x \in X : x \notin About(todo[u])
  /\ \A h \in kept, x \in X : x \notin Concerns(h)
  /\ \A h \in held \ kept : Concerns(h) \subseteq X
  /\ \A x \in Endpoints \ X : Same(x)
  /\ \A g, h \in new : g = h
  /\ \A h \in new : /\ Concerns(h) \subseteq (X \ About(list)) \cap registered'
                    /\ \A x, y \in Concerns(h) : owner'[x] = owner'[y]
  /\ \A x \in X : x \in About(list) \/ Fresh(x)' \/ \E h \in new : x \in Concerns(h)

\* One thread's step leaves the lists of the other threads and what the
\* application has as they are expected to be.
LEMMA OthersUndisturbed ==
  ASSUME TypeOK, ListsOK, StepsFit, Exclusive, HeldAreLive, RestIsFresh,
         NEW t \in Threads, NEW list \in Seq(ToDo), NEW X, NEW kept, NEW new,
         todo' = [todo EXCEPT ![t] = list], nodes' = nodes,
         held' = kept \cup new, kept \subseteq held,
         ListOK(list), Fits(list)', HandsOver(t, list, X, kept, new)
  PROVE  ListsOK' /\ StepsFit' /\ Exclusive' /\ HeldAreLive' /\ RestIsFresh'
<1> USE DEF HandsOver
<1>1. /\ todo'[t] = list
      /\ \A u \in Threads \ {t} : todo'[u] = todo[u] /\ todo[u] \in Seq(ToDo)
  BY DEF TypeOK
<1>2. \A x : Concerns(x)' = Concerns(x)
  BY DEF Concerns
<1>3. \A l : ListOK(l)' = ListOK(l) /\ About(l)' = About(l)
  BY DEF ListOK, Carried, Entered, Registers, Precedes, About, Concerns
<1>4. ListsOK'
  BY <1>1, <1>3 DEF ListsOK
<1>5. StepsFit'
  <2>1. ASSUME NEW u \in Threads, u # t
        PROVE  Fits(todo[u])'
    <3>1. PICK l \in Seq(ToDo) : todo[u] = l
      BY <1>1, <2>1
    <3>2. \A x \in About(l) : x \in Endpoints \ X
      BY <2>1, <3>1, AboutList
    <3>3. Fits(l)
      BY <3>1 DEF StepsFit
    <3>4. ASSUME NEW i \in DOMAIN l
          PROVE  StepFits(l, i)'
      <4>1. \A x \in Concerns(l[i].on) : Same(x)
        BY <3>2, AboutList
      <4> QED
        BY <3>3, <4>1, StepStillFits DEF Fits
    <3>5. Fits(l)'
      BY <3>4 DEF Fits
    <3>6. todo'[u] = l
      BY <1>1, <2>1, <3>1
    <3> QED
      BY <3>5, <3>6
  <2> QED
    BY <1>1, <2>1 DEF StepsFit
<1>6. Exclusive'
  <2>1. ASSUME NEW u \in Threads, NEW v \in Threads, u # v
        PROVE  About(todo'[u]) \cap About(todo'[v]) = {}
    <3>1. CASE u = t
      BY <1>1, <2>1, <3>1
    <3>2. CASE v = t
      BY <1>1, <2>1, <3>2
    <3>3. CASE u # t /\ v # t
      BY <1>1, <2>1, <3>3 DEF Exclusive
    <3> QED
      BY <3>1, <3>2, <3>3
  <2>2. \A u \in Threads, h \in held' : About(todo'[u]) \cap Concerns(h) = {}
    BY <1>1 DEF Exclusive
  <2>3. \A g, h \in held' : g # h => Concerns(g) \cap Concerns(h) = {}
    BY DEF Exclusive
  <2> QED
    BY <1>2, <1>3, <2>1, <2>2, <2>3 DEF Exclusive
<1>7. HeldAreLive'
  <2>1. \A h \in held : Concerns(h) \subseteq Endpoints
    BY ConcernsOf DEF TypeOK
  <2>2. \A h \in kept : \A x \in Concerns(h) : Same(x)
    BY <2>1
  <2> QED
    BY <1>2, <2>2 DEF HeldAreLive, Same
<1>8. RestIsFresh'
  <2> SUFFICES ASSUME NEW x \in Endpoints
               PROVE  \/ \E u \in Threads : x \in About(todo'[u])
                      \/ \E h \in held' : x \in Concerns(h)
                      \/ Fresh(x)'
    BY <1>2, <1>3 DEF RestIsFresh
  <2>1. CASE x \in X
    BY <1>1, <2>1
  <2>2. CASE x \notin X
    <3>1. Same(x)
      BY <2>2
    <3>2. CASE \E u \in Threads : x \in About(todo[u])
      BY <1>1, <2>2, <3>2
    <3>3. CASE \E h \in held : x \in Concerns(h)
      BY <2>2, <3>3
    <3>4. CASE Fresh(x)
      BY <3>1, <3>4 DEF Same, Fresh
    <3> QED
      BY <3>2, <3>3, <3>4 DEF RestIsFresh
  <2> QED
    BY <2>1, <2>2
<1> QED
  BY <1>4, <1>5, <1>6, <1>7, <1>8

\* A thread at a step has a list that begins with it.
LEMMA AtHead ==
  ASSUME TypeOK, ListsOK, StepsFit, NEW t \in Threads, NEW name, NEW x, At(t, name, x)
  PROVE  /\ todo[t] \in Seq(ToDo) /\ todo[t] # <<>> /\ ListOK(todo[t]) /\ Fits(todo[t])
         /\ 1 \in DOMAIN todo[t] /\ todo[t][1] \in ToDo /\ Next1(t) = todo[t][1]
         /\ todo[t][1].do = name /\ todo[t][1].on = x /\ todo[t][1].node \in Nodes
         /\ StepFits(todo[t], 1)
<1>1. todo[t] \in Seq(ToDo) /\ todo[t] # <<>> /\ ListOK(todo[t]) /\ Fits(todo[t])
  BY DEF TypeOK, ListsOK, StepsFit, At
<1>2. Head(todo[t]) = todo[t][1] /\ 1 \in DOMAIN todo[t] /\ todo[t][1] \in ToDo
  BY <1>1, TailSteps
<1> QED
  BY <1>1, <1>2, ConcernsOf DEF At, Next1, Fits

\* On the endpoint of the first step only what it leads to is still to do.
LEMMA RestOfEndpoint ==
  ASSUME NEW list \in Seq(ToDo), list # <<>>, ListOK(list), list[1].on \in Endpoints,
         NEW i \in DOMAIN list, i > 1, list[i].on = list[1].on
  PROVE  /\ list[i].do \in {"make", "announce", "unlisten", "delete", "free"}
         /\ After(list[1].do) # "none"
<1>1. Len(list) \in Nat \ {0} /\ DOMAIN list = 1 .. Len(list) /\ 1 \in DOMAIN list
  BY TailSteps
<1>2. i \in Nat /\ 1 < i
  BY <1>1
<1>3. ASSUME NEW j \in DOMAIN list, list[j].do \in {"announce", "undo", "free"}, list[j].on = list[1].on
      PROVE  i <= j
  <2>1. ~(j < i)
    BY <1>3 DEF ListOK, Carried
  <2> QED
    BY <1>1, <1>2, <2>1
<1>4. ASSUME NEW j \in DOMAIN list, After(list[j].do) # "none"
      PROVE  /\ j + 1 \in DOMAIN list /\ list[j + 1].do = After(list[j].do)
             /\ list[j + 1].on = list[j].on
  <2>1. j + 1 \in DOMAIN list /\ list[j + 1] = Following(list[j])
    BY <1>4 DEF ListOK, Carried
  <2> QED
    BY <2>1 DEF Following
<1>12. 2 \in DOMAIN list /\ After(list[2].do) # "none" =>
         3 \in DOMAIN list /\ list[3].do = After(list[2].do) /\ list[3].on = list[2].on
  <2>1. 2 + 1 = 3
    OBVIOUS
  <2>2. 2 \in DOMAIN list /\ After(list[2].do) # "none" =>
          /\ 2 + 1 \in DOMAIN list /\ list[2 + 1].do = After(list[2].do)
          /\ list[2 + 1].on = list[2].on
    BY <1>4, Zenon
  <2> QED
    BY <2>1, <2>2
<1>13. 3 \in DOMAIN list /\ After(list[3].do) # "none" =>
         4 \in DOMAIN list /\ list[4].do = After(list[3].do) /\ list[4].on = list[3].on
  <2>1. 3 + 1 = 4
    OBVIOUS
  <2>2. 3 \in DOMAIN list /\ After(list[3].do) # "none" =>
          /\ 3 + 1 \in DOMAIN list /\ list[3 + 1].do = After(list[3].do)
          /\ list[3 + 1].on = list[3].on
    BY <1>4, Zenon
  <2> QED
    BY <2>1, <2>2
<1>5. list[1].do \in EndpointSteps
  BY <1>1, AboutList, EndpointConstants DEF ToDo
<1>6. list[1].do \notin {"announce", "undo", "free"}
  BY <1>1, <1>2, <1>3
<1>7. CASE list[1].do = "begin"
  <2>1. 2 \in DOMAIN list /\ list[2].do = "make" /\ list[2].on = list[1].on
    BY <1>1, <1>4, <1>7 DEF After
  <2>2. 3 \in DOMAIN list /\ list[3].do = "announce" /\ list[3].on = list[1].on
    BY <1>12, <2>1 DEF After
  <2>3. i <= 3
    BY <1>3, <2>2
  <2>4. i = 2 \/ i = 3
    BY <1>2, <2>3
  <2> QED
    BY <1>7, <2>1, <2>2, <2>4 DEF After
<1>8. CASE list[1].do = "make"
  <2>1. 2 \in DOMAIN list /\ list[2].do = "announce" /\ list[2].on = list[1].on
    BY <1>1, <1>4, <1>8 DEF After
  <2>2. i <= 2
    BY <1>3, <2>1
  <2>3. i = 2
    BY <1>2, <2>2
  <2> QED
    BY <1>8, <2>1, <2>3 DEF After
<1>9. CASE list[1].do = "detach"
  <2>1. 2 \in DOMAIN list /\ list[2].do = "unlisten" /\ list[2].on = list[1].on
    BY <1>1, <1>4, <1>9 DEF After
  <2>2. 3 \in DOMAIN list /\ list[3].do = "delete" /\ list[3].on = list[1].on
    BY <1>12, <2>1 DEF After
  <2>3. 4 \in DOMAIN list /\ list[4].do = "free" /\ list[4].on = list[1].on
    BY <1>13, <2>2 DEF After
  <2>4. i <= 4
    BY <1>3, <2>3
  <2>5. i = 2 \/ i = 3 \/ i = 4
    BY <1>2, <2>4
  <2> QED
    BY <1>9, <2>1, <2>2, <2>3, <2>5 DEF After
<1>10. CASE list[1].do = "unlisten"
  <2>1. 2 \in DOMAIN list /\ list[2].do = "delete" /\ list[2].on = list[1].on
    BY <1>1, <1>4, <1>10 DEF After
  <2>2. 3 \in DOMAIN list /\ list[3].do = "free" /\ list[3].on = list[1].on
    BY <1>12, <2>1 DEF After
  <2>3. i <= 3
    BY <1>3, <2>2
  <2>4. i = 2 \/ i = 3
    BY <1>2, <2>3
  <2> QED
    BY <1>10, <2>1, <2>2, <2>4 DEF After
<1>11. CASE list[1].do = "delete"
  <2>1. 2 \in DOMAIN list /\ list[2].do = "free" /\ list[2].on = list[1].on
    BY <1>1, <1>4, <1>11 DEF After
  <2>2. i <= 2
    BY <1>3, <2>1
  <2>3. i = 2
    BY <1>2, <2>2
  <2> QED
    BY <1>11, <2>1, <2>3 DEF After
<1> QED
  BY <1>5, <1>6, <1>7, <1>8, <1>9, <1>10, <1>11 DEF EndpointSteps

\* When the first step is done the others find what they expect: the next one on
\* its endpoint, or a client or service that waits for the endpoint or frees the
\* last of it.
LEMMA RestFits ==
  ASSUME NEW list \in Seq(ToDo), list # <<>>, ListOK(list), Fits(list),
         NEW e \in Endpoints, list[1].on = e, nodes' = nodes,
         \A x \in About(list) \ {e} : Same(x),
         \/ After(list[1].do) # "none" /\ StepFits(Tail(list), 1)'
         \/ list[1].do = "announce" /\ e \in registered' /\ owner'[e] = list[1].node
         \/ list[1].do \in {"undo", "free"} /\ Fresh(e)'
  PROVE  /\ Fits(Tail(list))'
         /\ About(Tail(list)) \subseteq About(list)
         /\ \A x \in About(list) :
              x \in About(Tail(list)) \/ (x = e /\ list[1].do \in {"announce", "undo", "free"})
<1> DEFINE rest == Tail(list)
<1>1. /\ Len(list) \in Nat \ {0} /\ DOMAIN list = 1 .. Len(list) /\ 1 \in DOMAIN list
      /\ rest \in Seq(ToDo) /\ DOMAIN rest = 1 .. Len(list) - 1
      /\ \A i \in DOMAIN rest : i + 1 \in DOMAIN list /\ rest[i] = list[i + 1]
  BY TailSteps
<1>2. \A j \in DOMAIN list : j # 1 => j - 1 \in DOMAIN rest /\ rest[j - 1] = list[j] /\ j > 1
  <2> SUFFICES ASSUME NEW j \in DOMAIN list, j # 1
               PROVE  j - 1 \in DOMAIN rest /\ rest[j - 1] = list[j] /\ j > 1
    OBVIOUS
  <2> HIDE DEF rest
  <2>1. j - 1 \in DOMAIN rest /\ j > 1 /\ (j - 1) + 1 = j
    BY <1>1
  <2> QED
    BY <1>1, <2>1
<1>3. /\ Fits(rest)' <=> \A i \in DOMAIN rest : StepFits(rest, i)'
      /\ StepFits(Tail(list), 1)' <=> StepFits(rest, 1)'
  BY DEF Fits
<1> HIDE DEF rest
<1>4. After(list[1].do) # "none" => 2 \in DOMAIN list /\ list[2].on = e /\ rest[1] = list[2] /\ 1 \in DOMAIN rest
  <2> SUFFICES ASSUME After(list[1].do) # "none"
               PROVE  2 \in DOMAIN list /\ list[2].on = e /\ rest[1] = list[2] /\ 1 \in DOMAIN rest
    OBVIOUS
  <2>1. 1 + 1 \in DOMAIN list /\ list[1 + 1] = Following(list[1])
    BY <1>1, Zenon DEF ListOK, Carried
  <2>2. 2 \in DOMAIN list /\ list[2] = Following(list[1])
    BY <2>1
  <2>3. Following(list[1]).on = e
    BY DEF Following
  <2>4. 2 - 1 = 1
    OBVIOUS
  <2> QED
    BY <1>2, <2>2, <2>3, <2>4
<1>5. \A i \in DOMAIN list : list[i] \in ToDo /\ Concerns(list[i].on) \subseteq About(list)
  BY AboutList
<1>6. ASSUME NEW i \in DOMAIN rest
      PROVE  StepFits(rest, i)'
  <2> DEFINE j == i + 1
  <2>1. j \in DOMAIN list /\ rest[i] = list[j] /\ j > 1 /\ j # 1 /\ i \in Nat
    BY <1>1
  <2>2. StepFits(list, j)
    BY <2>1 DEF Fits
  <2>3. list[j].do \in CreatingSteps => list[j].node \in nodes'
    BY <2>2 DEF StepFits
  <2>4. CASE list[j].on = e
    <3>1. /\ list[j].do \in {"make", "announce", "unlisten", "delete", "free"}
          /\ After(list[1].do) # "none"
      BY <2>1, <2>4, RestOfEndpoint
    <3>2. CASE i = 1
      BY <1>3, <3>1, <3>2 DEF After
    <3>3. CASE i # 1
      BY <2>1, <2>3, <3>1, <3>3 DEF StepFits
    <3> QED
      BY <3>2, <3>3
  <2>5. CASE list[j].on \in Endpoints /\ list[j].on # e
    <3>1. list[j].do \in EndpointSteps
      BY <1>5, <2>1, <2>5, EndpointConstants DEF ToDo
    <3>2. list[j].do \in {"make", "announce", "unlisten", "delete", "free"} => i # 1
      <4> SUFFICES ASSUME list[j].do \in {"make", "announce", "unlisten", "delete", "free"}, i = 1
                   PROVE  FALSE
        OBVIOUS
      <4>1. After(list[j - 1].do) = list[j].do /\ j - 1 = 1 /\ j = 2
        <5>1. j = 2
          BY <2>1
        <5>2. 2 > 1 /\ 2 - 1 = 1 /\ 2 \in DOMAIN list
          BY <2>1, <5>1
        <5>3. list[2].do \notin {"begin", "detach", "register", "release"}
          BY <5>1
        <5>4. After(list[2 - 1].do) = list[2].do
          BY <5>2, <5>3 DEF ListOK, Entered
        <5> QED
          BY <5>1, <5>2, <5>4
      <4> QED
        BY <1>4, <2>5, <4>1
    <3>3. StepFits(list, j)'
      <4>1. \A x \in Concerns(list[j].on) : Same(x)
        BY <1>5, <2>1, <2>5, ConcernsOf
      <4> QED
        BY <2>1, <2>2, <4>1, StepStillFits
    <3> HIDE DEF j
    <3> QED
      BY <2>1, <3>1, <3>2, <3>3 DEF StepFits, EndpointSteps
  <2>6. CASE list[j].on \in Pairs
    <3>1. list[j].do \in PairSteps
      BY <1>5, <2>1, <2>6, EndpointConstants DEF ToDo
    <3>2. ASSUME NEW x \in Concerns(list[j].on), x # e
          PROVE  Same(x) /\ (Mentions(list, x) => Mentions(rest, x))
      BY <1>2, <1>5, <2>1, <3>2 DEF Mentions
    <3>3. After(list[1].do) # "none" => Mentions(rest, e)
      BY <1>4 DEF Mentions
    <3>4. CASE list[j].do = "register"
      <4>1. Precedes(list, 1, list[j])
        BY <1>1, <2>1, <3>4 DEF ListOK, Registers
      <4>2. list[1].do \in {"begin", "make", "announce"} /\ list[1].node = list[j].node
        BY <4>1 DEF Precedes
      <4>3. ASSUME NEW x \in Concerns(list[j].on)
            PROVE  Mentions(rest, x) \/ (x \in registered' /\ owner'[x] = list[j].node)
        <5>1. CASE x = e
          BY <3>3, <4>2, <5>1
        <5>2. CASE x # e
          <6>1. Mentions(list, x) \/ (x \in registered /\ owner[x] = list[j].node)
            BY <2>2, <3>4 DEF StepFits
          <6> QED
            BY <3>2, <5>2, <6>1 DEF Same
        <5> QED
          BY <5>1, <5>2
      <4>4. (\A x \in Concerns(rest[i].on) :
               Mentions(rest, x) \/ (x \in registered /\ owner[x] = rest[i].node))'
        BY <2>1, <4>3 DEF Mentions, Concerns
      <4> HIDE DEF j
      <4> QED
        BY <2>1, <2>3, <3>4, <4>4 DEF StepFits, CreatingSteps
    <3>5. CASE list[j].do = "release"
      <4>1. j = Len(list)
        BY <2>1, <3>5 DEF ListOK, Registers
      <4>2. list[1].do # "announce"
        BY <1>1, <2>1, <3>5, <4>1 DEF ListOK, Registers
      <4>3. ASSUME NEW x \in Concerns(list[j].on)
            PROVE  Mentions(rest, x) \/ Fresh(x)'
        <5>1. CASE x = e
          BY <3>3, <4>2, <5>1
        <5>2. CASE x # e
          <6>1. Mentions(list, x) \/ Fresh(x)
            BY <2>2, <3>5 DEF StepFits
          <6> QED
            BY <3>2, <5>2, <6>1 DEF Same, Fresh
        <5> QED
          BY <5>1, <5>2
      <4>4. (\A x \in Concerns(rest[i].on) : Mentions(rest, x) \/ Fresh(x))'
        BY <2>1, <4>3 DEF Mentions, Concerns
      <4> HIDE DEF j
      <4> QED
        BY <2>1, <3>5, <4>4 DEF StepFits, CreatingSteps
    <3>6. CASE list[j].do = "unregister"
      <4> HIDE DEF j
      <4> QED
        BY <2>1, <3>6 DEF StepFits, CreatingSteps
    <3> QED
      BY <3>1, <3>4, <3>5, <3>6 DEF PairSteps
  <2> QED
    BY <1>5, <2>1, <2>4, <2>5, <2>6, ConcernsOf
<1>7. About(rest) \subseteq About(list)
  BY <1>1 DEF About
<1>8. ASSUME NEW x \in About(list)
      PROVE  x \in About(rest) \/ (x = e /\ list[1].do \in {"announce", "undo", "free"})
  <2>1. PICK k \in DOMAIN list : x \in Concerns(list[k].on)
    BY DEF About
  <2>2. CASE k # 1
    BY <1>2, <2>1, <2>2 DEF About
  <2>3. CASE k = 1
    <3>1. x = e
      BY <2>1, <2>3, ConcernsOf
    <3>2. After(list[1].do) # "none" => e \in About(rest)
      BY <1>4, ConcernsOf DEF About
    <3> QED
      BY <3>1, <3>2
  <2> QED
    BY <2>2, <2>3
<1> QED
  BY <1>3, <1>6, <1>7, <1>8 DEF rest

\* While the first step goes on, the others find what they expect.
LEMMA RestStaysFit ==
  ASSUME NEW list \in Seq(ToDo), list # <<>>, ListOK(list), Fits(list),
         NEW e \in Endpoints, list[1].on = e, nodes' = nodes,
         \A x \in About(list) \ {e} : Same(x), StepFits(list, 1)'
  PROVE  Fits(list)'
<1>1. 1 \in DOMAIN list /\ \A i \in DOMAIN list : i # 1 => i > 1
  BY TailSteps
<1>2. \A i \in DOMAIN list : list[i] \in ToDo /\ Concerns(list[i].on) \subseteq About(list)
  BY AboutList
<1>3. ASSUME NEW i \in DOMAIN list, i # 1
      PROVE  StepFits(list, i)'
  <2>1. StepFits(list, i) /\ i > 1
    BY <1>1, <1>3 DEF Fits
  <2>2. CASE list[i].on = e
    <3>1. list[i].do \in {"make", "announce", "unlisten", "delete", "free"}
      BY <2>1, <2>2, RestOfEndpoint
    <3>2. list[i].do \in CreatingSteps => list[i].node \in nodes'
      BY <2>1 DEF StepFits
    <3> QED
      BY <1>3, <3>1, <3>2 DEF StepFits
  <2>3. CASE list[i].on \in Endpoints /\ list[i].on # e
    <3>1. \A x \in Concerns(list[i].on) : Same(x)
      BY <1>2, <2>3, ConcernsOf
    <3> QED
      BY <2>1, <3>1, StepStillFits
  <2>4. CASE list[i].on \in Pairs
    <3>1. list[i].do \in PairSteps
      BY <1>2, <2>4, EndpointConstants DEF ToDo
    <3>2. \A x \in Concerns(list[i].on) : Same(x) \/ Mentions(list, x)
      BY <1>1, <1>2 DEF Mentions
    <3>3. /\ Concerns(list[i].on)' = Concerns(list[i].on)
          /\ \A x : Mentions(list, x)' = Mentions(list, x)
      BY DEF Concerns, Mentions
    <3> QED
      BY <2>1, <3>1, <3>2, <3>3 DEF StepFits, PairSteps, CreatingSteps, Same, Fresh
  <2> QED
    BY <1>2, <2>2, <2>3, <2>4, ConcernsOf
<1> QED
  BY <1>3 DEF Fits

\* A list finds what it expects as long as its endpoints are what they were.
LEMMA ListStillFits ==
  ASSUME NEW list \in Seq(ToDo), Fits(list), nodes' = nodes, \A x \in About(list) : Same(x)
  PROVE  Fits(list)'
<1>1. ASSUME NEW i \in DOMAIN list
      PROVE  StepFits(list, i)'
  <2>1. StepFits(list, i) /\ \A x \in Concerns(list[i].on) : Same(x)
    BY AboutList DEF Fits
  <2> QED
    BY <2>1, StepStillFits
<1> QED
  BY <1>1 DEF Fits

\* No steps.
LEMMA NoSteps ==
  /\ <<>> \in Seq(ToDo) /\ DOMAIN <<>> = {} /\ Len(<<>>) = 0
  /\ ListOK(<<>>) /\ Fits(<<>>) /\ Fits(<<>>)' /\ About(<<>>) = {}
  /\ \A e : ~ToFree(<<>>, e)
<1>1. DOMAIN <<>> = {} /\ <<>> \in Seq(ToDo) /\ Len(<<>>) = 0
  BY EmptySeq, LenProperties
<1> QED
  BY <1>1 DEF ListOK, Carried, Entered, Registers, Fits, About, ToFree

\* A registered endpoint can be destroyed.
LEMMA DestroyingFits ==
  ASSUME NEW e \in Endpoints, NEW n \in Nodes, e \in registered, owner[e] = n
  PROVE  /\ Fits(Destroying(e, n)) /\ About(Destroying(e, n)) = {e}
         /\ \A x : ToFree(Destroying(e, n), x) <=> x = e
<1> DEFINE list == Destroying(e, n)
<1>1. /\ DOMAIN list = 1 .. 4
      /\ list[1] = [do |-> "detach", on |-> e, node |-> n]
      /\ list[2] = [do |-> "unlisten", on |-> e, node |-> n]
      /\ list[3] = [do |-> "delete", on |-> e, node |-> n]
      /\ list[4] = [do |-> "free", on |-> e, node |-> n]
  BY DestroyingList, LenProperties
<1> HIDE DEF list
<1>2. \A i \in 1 .. 4 : i = 1 \/ i = 2 \/ i = 3 \/ i = 4
  OBVIOUS
<1>3. \A i \in 1 .. 4 : StepFits(list, i)
  BY <1>1, <1>2 DEF StepFits, CreatingSteps
<1>4. About(list) = {e}
  BY <1>1, <1>2, ConcernsOf DEF About
<1>5. \A x : ToFree(list, x) <=> x = e
  BY <1>1, <1>2 DEF ToFree
<1> QED
  BY <1>1, <1>3, <1>4, <1>5 DEF Fits, list

\* The creation of the second end of a client or service fails only when the
\* first one is registered.
LEMMA FirstIsThere ==
  ASSUME NEW list \in Seq(ToDo), ListOK(list), Fits(list), NEW k \in 1 .. Len(list), NEW p \in Pairs,
         \A i \in 1 .. k : list[i].on = Second[p],
         Len(list) = k + 1, list[k + 1].do = "register", list[k + 1].on = p
  PROVE  /\ First[p] \in registered /\ owner[First[p]] = list[k + 1].node
         /\ list[k + 1].node \in Nodes
         /\ About(list) = {First[p], Second[p]}
         /\ \A i \in DOMAIN list : list[i].do # "free"
<1>1. /\ k \in Nat /\ DOMAIN list = 1 .. k + 1 /\ k + 1 \in DOMAIN list
      /\ \A i \in DOMAIN list : i \in 1 .. k \/ i = k + 1
  BY LenProperties
<1>2. /\ First[p] # Second[p] /\ p # First[p] /\ p # Second[p]
      /\ Concerns(p) = {First[p], Second[p]} /\ Concerns(Second[p]) = {Second[p]}
      /\ First[p] \in Endpoints /\ Second[p] \in Endpoints
  BY PairEnds, ConcernsOf
<1>3. ~Mentions(list, First[p])
  BY <1>1, <1>2 DEF Mentions
<1>4. First[p] \in registered /\ owner[First[p]] = list[k + 1].node
  BY <1>1, <1>2, <1>3 DEF Fits, StepFits
<1>5. About(list) = {First[p], Second[p]}
  BY <1>1, <1>2 DEF About
<1>6. ASSUME NEW i \in DOMAIN list
      PROVE  list[i].do # "free"
  <2>1. i < k + 1 => Precedes(list, i, list[k + 1])
    BY <1>1 DEF ListOK, Registers
  <2>2. i < k + 1 \/ i = k + 1
    BY <1>1
  <2> QED
    BY <2>1, <2>2 DEF Precedes
<1> QED
  BY <1>1, <1>4, <1>5, <1>6, AboutList, ConcernsOf

-----------------------------------------------------------------------------
(* What active_entities counts.                                            *)

\* What is counted can be counted.
LEMMA CountedIsFinite ==
  ASSUME TypeOK
  PROVE  /\ IsFiniteSet(nodes) /\ IsFiniteSet(Counted)
         /\ Cardinality(nodes) \in Nat /\ Cardinality(Counted) \in Nat
<1>1. nodes \subseteq Nodes /\ Counted \subseteq Endpoints
  BY DEF TypeOK, Counted
<1> QED
  BY <1>1, EndpointConstants, FS_Subset, FS_CardinalityType

\* One thread's step changes what is counted of an endpoint only by what it
\* registers and has left to free.
LEMMA CountedElsewhere ==
  ASSUME TypeOK, NEW t \in Threads, NEW list, todo' = [todo EXCEPT ![t] = list],
         NEW e \in Endpoints,
         (e \in registered' \/ ToFree(list, e)) <=> (e \in registered \/ ToFree(todo[t], e))
  PROVE  e \in Counted' <=> e \in Counted
<1>1. todo'[t] = list /\ \A u \in Threads \ {t} : todo'[u] = todo[u]
  BY DEF TypeOK
<1>2. \A l : ToFree(l, e)' = ToFree(l, e)
  BY DEF ToFree
<1>3. e \in Counted' <=> e \in registered' \/ \E u \in Threads : ToFree(todo'[u], e)
  BY <1>2 DEF Counted
<1>4. e \in Counted <=> e \in registered \/ \E u \in Threads : ToFree(todo[u], e)
  BY DEF Counted
<1> QED
  BY <1>1, <1>3, <1>4

\* The number of what is counted.
LEMMA CountedKept ==
  ASSUME TypeOK, CountIsExact, nodes' = nodes, active' = active,
         \A e \in Endpoints : e \in Counted' <=> e \in Counted
  PROVE  CountIsExact'
<1>1. Counted' = Counted
  BY DEF Counted
<1> QED
  BY <1>1 DEF CountIsExact

\* An endpoint a thread works on, not registered and not to be freed by it, is
\* not counted.
LEMMA NotCounted ==
  ASSUME TypeOK, Exclusive, NEW t \in Threads, NEW e \in About(todo[t]),
         e \notin registered, ~ToFree(todo[t], e)
  PROVE  e \notin Counted
<1>1. e \in Endpoints
  BY AboutList DEF TypeOK
<1>2. ASSUME NEW u \in Threads, u # t
      PROVE  ~ToFree(todo[u], e)
  <2>1. ToFree(todo[u], e) => e \in About(todo[u])
    BY <1>1, AboutList DEF TypeOK, ToFree
  <2> QED
    BY <1>2, <2>1 DEF Exclusive
<1> QED
  BY <1>2 DEF Counted

\* What is left to free when the first step is done.
LEMMA RestToFree ==
  ASSUME NEW list \in Seq(ToDo), list # <<>>, NEW e
  PROVE  ToFree(list, e) <=> ToFree(Tail(list), e) \/ (list[1].do = "free" /\ list[1].on = e)
<1> DEFINE rest == Tail(list)
<1>1. /\ Len(list) \in Nat \ {0} /\ DOMAIN list = 1 .. Len(list) /\ 1 \in DOMAIN list
      /\ DOMAIN rest = 1 .. Len(list) - 1
      /\ \A i \in DOMAIN rest : i + 1 \in DOMAIN list /\ rest[i] = list[i + 1]
  BY TailSteps
<1> HIDE DEF rest
<1>2. ASSUME NEW j \in DOMAIN list, j # 1
      PROVE  j - 1 \in DOMAIN rest /\ rest[j - 1] = list[j]
  <2>1. j - 1 \in DOMAIN rest /\ (j - 1) + 1 = j
    BY <1>1, <1>2
  <2> QED
    BY <1>1, <2>1
<1>3. ToFree(list, e) => ToFree(rest, e) \/ (list[1].do = "free" /\ list[1].on = e)
  BY <1>2 DEF ToFree
<1>4. ToFree(rest, e) \/ (list[1].do = "free" /\ list[1].on = e) => ToFree(list, e)
  BY <1>1 DEF ToFree
<1> QED
  BY <1>3, <1>4 DEF rest

\* Nodes and the context are there as long as they were for what goes on.
LEMMA OwnersKept ==
  ASSUME TypeOK, OwnersThere, NEW t \in Threads, NEW list \in Seq(ToDo),
         todo' = [todo EXCEPT ![t] = list], up' = up, nodes' = nodes,
         \A e \in registered' \cap Endpoints : owner'[e] \in nodes /\ up,
         \A i \in DOMAIN list : list[i].do # "release" => up
  PROVE  OwnersThere'
<1>1. todo'[t] = list /\ \A u \in Threads \ {t} : todo'[u] = todo[u]
  BY DEF TypeOK
<1> QED
  BY <1>1 DEF OwnersThere

-----------------------------------------------------------------------------
(* Every step keeps the invariant.                                         *)

\* Nobody else works on these endpoints or has been given them.
Alone(t, X) ==
  /\ \A u \in Threads \ {t}, x \in X : x \notin About(todo[u])
  /\ \A h \in held, x \in X : x \notin Concerns(h)

\* A thread at a step of an endpoint.
LEMMA Going ==
  ASSUME IInv, NEW t \in Threads, NEW e \in Endpoints, NEW name, At(t, name, e),
         NEW list \in Seq(ToDo), todo[t] = list
  PROVE  /\ list # <<>> /\ ListOK(list) /\ Fits(list) /\ Tail(list) \in Seq(ToDo)
         /\ 1 \in DOMAIN list /\ list[1].do = name /\ list[1].on = e
         /\ list[1] \in ToDo /\ list[1].node \in Nodes /\ Next1(t) = list[1]
         /\ StepFits(list, 1)
         /\ up /\ e \in About(list) /\ About(list) \subseteq Endpoints
         /\ Alone(t, About(list))
<1>1. TypeOK /\ ListsOK /\ StepsFit /\ OwnersThere /\ Exclusive
  BY DEF IInv
<1>2. /\ list # <<>> /\ ListOK(list) /\ Fits(list)
      /\ 1 \in DOMAIN list /\ list[1].do = name /\ list[1].on = e
      /\ list[1] \in ToDo /\ list[1].node \in Nodes /\ Next1(t) = list[1]
      /\ StepFits(list, 1)
  BY <1>1, AtHead
<1>3. Tail(list) \in Seq(ToDo)
  BY <1>2, TailSteps
<1>4. list[1].do # "release"
  BY <1>2, EndpointConstants DEF ToDo, EndpointSteps
<1>5. up
  BY <1>1, <1>2, <1>4 DEF OwnersThere
<1>6. e \in About(list)
  BY <1>2, AboutList
<1>7. Alone(t, About(list))
  BY <1>1 DEF Exclusive, Alone
<1>8. About(list) \subseteq Endpoints
  BY AboutList
<1> QED
  BY <1>2, <1>3, <1>5, <1>6, <1>7, <1>8

\* What comes next on the endpoint.
LEMMA NextOnEndpoint ==
  ASSUME NEW list \in Seq(ToDo), list # <<>>, ListOK(list), After(list[1].do) # "none"
  PROVE  /\ Tail(list)[1].do = After(list[1].do)
         /\ Tail(list)[1].on = list[1].on /\ Tail(list)[1].node = list[1].node
<1> DEFINE rest == Tail(list)
<1>1. /\ Len(list) \in Nat \ {0} /\ DOMAIN list = 1 .. Len(list) /\ 1 \in DOMAIN list
      /\ \A i \in DOMAIN rest : rest[i] = list[i + 1]
      /\ DOMAIN rest = 1 .. Len(list) - 1
  BY TailSteps
<1> HIDE DEF rest
<1>2. 1 + 1 \in DOMAIN list /\ list[1 + 1] = Following(list[1])
  BY <1>1, Zenon DEF ListOK, Carried
<1>3. 1 \in DOMAIN rest
  BY <1>1, <1>2
<1>4. rest[1] = Following(list[1])
  BY <1>1, <1>2, <1>3
<1>5. rest[1].do = After(list[1].do) /\ rest[1].on = list[1].on /\ rest[1].node = list[1].node
  BY <1>4 DEF Following
<1> QED
  BY <1>5 DEF rest

\* A destruction goes on until the memory is freed.
LEMMA LeadsToFree ==
  ASSUME NEW list \in Seq(ToDo), ListOK(list), NEW i \in DOMAIN list,
         list[i].do \in {"detach", "unlisten", "delete", "free"}
  PROVE  ToFree(list, list[i].on)
<1>1. ASSUME NEW j \in DOMAIN list, After(list[j].do) # "none"
      PROVE  /\ j + 1 \in DOMAIN list /\ list[j + 1].do = After(list[j].do)
             /\ list[j + 1].on = list[j].on
  <2>1. j + 1 \in DOMAIN list /\ list[j + 1] = Following(list[j])
    BY <1>1 DEF ListOK, Carried
  <2> QED
    BY <2>1 DEF Following
<1>2. ASSUME NEW j \in DOMAIN list, list[j].do = "free"
      PROVE  ToFree(list, list[j].on)
  BY <1>2 DEF ToFree
<1>3. ASSUME NEW j \in DOMAIN list, list[j].do = "delete"
      PROVE  ToFree(list, list[j].on)
  <2>1. j + 1 \in DOMAIN list /\ list[j + 1].do = "free" /\ list[j + 1].on = list[j].on
    BY <1>1, <1>3 DEF After
  <2> QED
    BY <1>2, <2>1
<1>4. ASSUME NEW j \in DOMAIN list, list[j].do = "unlisten"
      PROVE  ToFree(list, list[j].on)
  <2>1. j + 1 \in DOMAIN list /\ list[j + 1].do = "delete" /\ list[j + 1].on = list[j].on
    BY <1>1, <1>4 DEF After
  <2> QED
    BY <1>3, <2>1
<1>5. ASSUME NEW j \in DOMAIN list, list[j].do = "detach"
      PROVE  ToFree(list, list[j].on)
  <2>1. j + 1 \in DOMAIN list /\ list[j + 1].do = "unlisten" /\ list[j + 1].on = list[j].on
    BY <1>1, <1>5 DEF After
  <2> QED
    BY <1>4, <2>1
<1> QED
  BY <1>2, <1>3, <1>4, <1>5

\* A step that is done and leads to the next one, or leaves nothing.
LEMMA DoneKeeps ==
  ASSUME IInv, NEW t \in Threads, NEW e \in Endpoints, NEW name, At(t, name, e),
         NEW list \in Seq(ToDo), todo[t] = list,
         todo' = [todo EXCEPT ![t] = Tail(list)], nodes' = nodes, held' = held,
         \A x \in Endpoints \ {e} : Same(x),
         \/ After(name) # "none" /\ StepFits(Tail(list), 1)'
         \/ name \in {"undo", "free"} /\ Fresh(e)'
  PROVE  /\ ListsOK' /\ StepsFit' /\ Exclusive' /\ HeldAreLive' /\ RestIsFresh'
         /\ todo' \in [Threads -> Seq(ToDo)]
<1>1. TypeOK /\ ListsOK /\ StepsFit /\ Exclusive /\ HeldAreLive /\ RestIsFresh
  BY DEF IInv
<1>2. /\ list # <<>> /\ ListOK(list) /\ Fits(list) /\ Tail(list) \in Seq(ToDo)
      /\ list[1].do = name /\ list[1].on = e
      /\ e \in About(list) /\ About(list) \subseteq Endpoints
      /\ Alone(t, About(list))
  BY Going
<1> DEFINE rest == Tail(list)
<1>4. /\ Fits(rest)'
      /\ About(rest) \subseteq About(list)
      /\ \A x \in About(list) :
           x \in About(rest) \/ (x = e /\ list[1].do \in {"announce", "undo", "free"})
  BY <1>2, RestFits
<1>5. ListOK(rest)
  BY <1>2, TailOK
<1>6. \A x \in About(list) : x \in About(rest) \/ Fresh(x)'
  BY <1>2, <1>4 DEF After
<1>7. todo' \in [Threads -> Seq(ToDo)]
  BY <1>1, <1>2 DEF TypeOK
<1>8. rest \in Seq(ToDo) /\ todo' = [todo EXCEPT ![t] = rest]
  BY <1>2
<1>9. HandsOver(t, rest, About(list), held, {}) /\ held' = held \cup {} /\ held \subseteq held
  BY <1>1, <1>2, <1>4, <1>6 DEF Alone, HandsOver
<1> HIDE DEF rest
<1>10. ListsOK' /\ StepsFit' /\ Exclusive' /\ HeldAreLive' /\ RestIsFresh'
  BY <1>1, <1>4, <1>5, <1>8, <1>9, OthersUndisturbed
<1> QED
  BY <1>7, <1>10

\* The endpoint leaves the graph before anything else (rmw_data_plane.cpp,
\* rmw_destroy_publisher and rmw_destroy_subscription).
LEMMA DetachInv ==
  ASSUME IInv, NEW t \in Threads, NEW e \in Endpoints, Detach(t, e)
  PROVE  IInv'
<1>1. PICK list \in Seq(ToDo) : todo[t] = list
  BY DEF IInv, TypeOK
<1>2. At(t, "detach", e) /\ todo' = [todo EXCEPT ![t] = Tail(list)]
  BY <1>1 DEF Detach, Done
<1>3. /\ list # <<>> /\ ListOK(list) /\ Tail(list) \in Seq(ToDo)
      /\ list[1].do = "detach" /\ list[1].on = e /\ 1 \in DOMAIN list
      /\ StepFits(list, 1) /\ up /\ e \in About(list)
  BY <1>1, <1>2, Going
<1>4. Tail(list)[1].do = "unlisten" /\ Tail(list)[1].on = e
  BY <1>3, NextOnEndpoint DEF After
<1>5. StepFits(Tail(list), 1)'
  <2>1. e \notin registered'
    BY DEF Detach
  <2> QED
    BY <1>4, <2>1 DEF StepFits, CreatingSteps
<1>6. \A x \in Endpoints \ {e} : Same(x)
  BY DEF Detach, Same, endpointVars
<1>7. /\ ListsOK' /\ StepsFit' /\ Exclusive' /\ HeldAreLive' /\ RestIsFresh'
      /\ todo' \in [Threads -> Seq(ToDo)]
  <2>1. After("detach") # "none" /\ nodes' = nodes /\ held' = held
    BY DEF After, Detach, contextVars
  <2> QED
    BY <1>1, <1>2, <1>5, <1>6, <2>1, DoneKeeps
<1>8. active' = active
  BY DEF Detach, ActiveAfter, Uncounts, IInv, TypeOK
<1>9. TypeOK'
  BY <1>7, <1>8 DEF IInv, TypeOK, Detach, contextVars, endpointVars
<1>10. ListenersHaveImpl'
  BY DEF IInv, ListenersHaveImpl, Detach, endpointVars
<1>11. OwnersThere'
  BY <1>2, <1>3, OwnersKept DEF IInv, OwnersThere, Detach, contextVars, endpointVars
<1>12. CountIsExact'
  <2>1. \A x : ToFree(list, x) <=> ToFree(Tail(list), x)
    BY <1>3, RestToFree
  <2>2. ToFree(list, e)
    BY <1>3, LeadsToFree
  <2>3. ASSUME NEW x \in Endpoints
        PROVE  x \in Counted' <=> x \in Counted
    <3>1. (x \in registered' \/ ToFree(Tail(list), x)) <=> (x \in registered \/ ToFree(list, x))
      BY <2>1, <2>2 DEF Detach
    <3> QED
      BY <1>1, <1>2, <3>1, CountedElsewhere DEF IInv
  <2> QED
    BY <1>8, <2>3, CountedKept DEF IInv, Detach, contextVars
<1> QED
  BY <1>7, <1>9, <1>10, <1>11, <1>12 DEF IInv

\* The listener goes before anything it uses.
LEMMA UnlistenInv ==
  ASSUME IInv, NEW t \in Threads, NEW e \in Endpoints, Unlisten(t, e)
  PROVE  IInv'
<1>1. PICK list \in Seq(ToDo) : todo[t] = list
  BY DEF IInv, TypeOK
<1>2. At(t, "unlisten", e) /\ todo' = [todo EXCEPT ![t] = Tail(list)]
  BY <1>1 DEF Unlisten, Done
<1>3. /\ list # <<>> /\ ListOK(list) /\ Tail(list) \in Seq(ToDo)
      /\ list[1].do = "unlisten" /\ list[1].on = e /\ 1 \in DOMAIN list
      /\ StepFits(list, 1) /\ up /\ e \in About(list)
  BY <1>1, <1>2, Going
<1>4. Tail(list)[1].do = "delete" /\ Tail(list)[1].on = e
  BY <1>3, NextOnEndpoint DEF After
<1>5. StepFits(Tail(list), 1)'
  <2>1. e \notin registered
    BY <1>3 DEF StepFits
  <2>2. e \notin registered' /\ e \notin listening'
    BY <2>1 DEF Unlisten, graphVars
  <2> QED
    BY <1>4, <2>2 DEF StepFits, CreatingSteps
<1>6. \A x \in Endpoints \ {e} : Same(x)
  BY DEF Unlisten, Same, graphVars
<1>7. /\ ListsOK' /\ StepsFit' /\ Exclusive' /\ HeldAreLive' /\ RestIsFresh'
      /\ todo' \in [Threads -> Seq(ToDo)]
  <2>1. After("unlisten") # "none" /\ nodes' = nodes /\ held' = held
    BY DEF After, Unlisten, contextVars
  <2> QED
    BY <1>1, <1>2, <1>5, <1>6, <2>1, DoneKeeps
<1>9. TypeOK'
  BY <1>7 DEF IInv, TypeOK, Unlisten, contextVars, graphVars
<1>10. ListenersHaveImpl'
  BY DEF IInv, ListenersHaveImpl, Unlisten, graphVars
<1>11. OwnersThere'
  BY <1>2, <1>3, OwnersKept DEF IInv, OwnersThere, Unlisten, contextVars, graphVars
<1>12. CountIsExact'
  <2>1. \A x : ToFree(list, x) <=> ToFree(Tail(list), x)
    BY <1>3, RestToFree
  <2>2. ASSUME NEW x \in Endpoints
        PROVE  x \in Counted' <=> x \in Counted
    <3>1. (x \in registered' \/ ToFree(Tail(list), x)) <=> (x \in registered \/ ToFree(list, x))
      BY <2>1 DEF Unlisten, graphVars
    <3> QED
      BY <1>1, <1>2, <3>1, CountedElsewhere DEF IInv
  <2> QED
    BY <2>2, CountedKept DEF IInv, Unlisten, contextVars
<1> QED
  BY <1>7, <1>9, <1>10, <1>11, <1>12 DEF IInv

\* The writer or reader is deleted when no listener is left.
LEMMA DeleteInv ==
  ASSUME IInv, NEW t \in Threads, NEW e \in Endpoints, Delete(t, e)
  PROVE  IInv'
<1>1. PICK list \in Seq(ToDo) : todo[t] = list
  BY DEF IInv, TypeOK
<1>2. At(t, "delete", e) /\ todo' = [todo EXCEPT ![t] = Tail(list)]
  BY <1>1 DEF Delete, Done
<1>3. /\ list # <<>> /\ ListOK(list) /\ Tail(list) \in Seq(ToDo)
      /\ list[1].do = "delete" /\ list[1].on = e /\ 1 \in DOMAIN list
      /\ StepFits(list, 1) /\ up /\ e \in About(list)
  BY <1>1, <1>2, Going
<1>4. Tail(list)[1].do = "free" /\ Tail(list)[1].on = e
  BY <1>3, NextOnEndpoint DEF After
<1>5. e \notin registered /\ e \notin listening
  <2> USE DEF StepFits
  <2> QED
    BY <1>3
<1>6. StepFits(Tail(list), 1)'
  <2>1. e \notin registered' /\ e \notin listening'
    BY <1>5 DEF Delete, graphVars
  <2> QED
    BY <1>4, <2>1 DEF StepFits, CreatingSteps
<1>7. parts' = [parts EXCEPT ![e] = parts[e] \ DdsParts]
  BY DEF Delete
<1>8. \A x \in Endpoints \ {e} : Same(x) /\ parts'[x] = parts[x]
  BY <1>7 DEF Delete, Same, graphVars, IInv, TypeOK
<1>9. /\ ListsOK' /\ StepsFit' /\ Exclusive' /\ HeldAreLive' /\ RestIsFresh'
      /\ todo' \in [Threads -> Seq(ToDo)]
  <2>1. After("delete") # "none" /\ nodes' = nodes /\ held' = held
    BY DEF After, Delete, contextVars
  <2> QED
    BY <1>1, <1>2, <1>6, <1>8, <2>1, DoneKeeps
<1>10. TypeOK'
  <2>1. parts' \in [Endpoints -> SUBSET Parts]
    BY <1>7 DEF IInv, TypeOK
  <2> QED
    BY <1>9, <2>1 DEF IInv, TypeOK, Delete, contextVars, graphVars
<1>11. ListenersHaveImpl'
  <2>1. \A x \in listening : x \in Endpoints \ {e}
    BY <1>5 DEF IInv, TypeOK, Endpoints
  <2> QED
    BY <1>8, <2>1 DEF IInv, ListenersHaveImpl, Delete
<1>13. OwnersThere'
  BY <1>2, <1>3, OwnersKept DEF IInv, OwnersThere, Delete, contextVars, graphVars
<1>14. CountIsExact'
  <2>1. \A x : ToFree(list, x) <=> ToFree(Tail(list), x)
    BY <1>3, RestToFree
  <2>2. ASSUME NEW x \in Endpoints
        PROVE  x \in Counted' <=> x \in Counted
    <3>1. (x \in registered' \/ ToFree(Tail(list), x)) <=> (x \in registered \/ ToFree(list, x))
      BY <2>1 DEF Delete, graphVars
    <3> QED
      BY <1>1, <1>2, <3>1, CountedElsewhere DEF IInv
  <2> QED
    BY <2>2, CountedKept DEF IInv, Delete, contextVars
<1> QED
  BY <1>9, <1>10, <1>11, <1>13, <1>14 DEF IInv

\* Nothing is left of an endpoint that is freed, and it is counted no longer.
LEMMA FreeInv ==
  ASSUME IInv, NEW t \in Threads, NEW e \in Endpoints, Free(t, e)
  PROVE  IInv'
<1>1. PICK list \in Seq(ToDo) : todo[t] = list
  BY DEF IInv, TypeOK
<1>2. At(t, "free", e) /\ todo' = [todo EXCEPT ![t] = Tail(list)]
  BY <1>1 DEF Free, Done
<1>3. /\ list # <<>> /\ ListOK(list) /\ Tail(list) \in Seq(ToDo)
      /\ list[1].do = "free" /\ list[1].on = e /\ 1 \in DOMAIN list
      /\ StepFits(list, 1) /\ up /\ e \in About(list) /\ Alone(t, About(list))
  BY <1>1, <1>2, Going
<1>4. e \notin registered /\ e \notin listening
  <2> USE DEF StepFits
  <2> QED
    BY <1>3
<1>5. parts' = [parts EXCEPT ![e] = {}] /\ owner' = [owner EXCEPT ![e] = None]
  BY DEF Free
<1>6. Fresh(e)'
  BY <1>4, <1>5 DEF Fresh, Free, graphVars, IInv, TypeOK
<1>7. \A x \in Endpoints \ {e} : Same(x) /\ parts'[x] = parts[x] /\ owner'[x] = owner[x]
  BY <1>5 DEF Free, Same, graphVars, IInv, TypeOK
<1>8. /\ ListsOK' /\ StepsFit' /\ Exclusive' /\ HeldAreLive' /\ RestIsFresh'
      /\ todo' \in [Threads -> Seq(ToDo)]
  <2>1. nodes' = nodes /\ held' = held
    BY DEF Free, contextVars
  <2> QED
    BY <1>1, <1>2, <1>6, <1>7, <2>1, DoneKeeps
<1>9. active' = active - 1
  BY DEF Free, ActiveAfter, Uncounts
<1>10. TypeOK'
  <2>1. parts' \in [Endpoints -> SUBSET Parts] /\ owner' \in [Endpoints -> Nodes \cup {None}]
    BY <1>5 DEF IInv, TypeOK
  <2>2. active' \in Int
    BY <1>9 DEF IInv, TypeOK
  <2> QED
    BY <1>8, <2>1, <2>2 DEF IInv, TypeOK, Free, contextVars, graphVars
<1>11. ListenersHaveImpl'
  <2>1. \A x \in listening : x \in Endpoints \ {e}
    BY <1>4 DEF IInv, TypeOK, Endpoints
  <2> QED
    BY <1>7, <2>1 DEF IInv, ListenersHaveImpl, Free
<1>13. OwnersThere'
  <2>1. \A x \in registered' \cap Endpoints : owner'[x] \in nodes
    BY <1>4, <1>7 DEF IInv, OwnersThere, Free, graphVars
  <2> QED
    BY <1>2, <1>3, <2>1, OwnersKept DEF IInv, Free, contextVars
<1>14. CountIsExact'
  <2>1. \A x : ToFree(list, x) <=> ToFree(Tail(list), x) \/ x = e
    BY <1>3, RestToFree
  <2>2. ~ToFree(Tail(list), e)
    <3>1. \A i \in DOMAIN list : i > 1 => list[i].on # e
      BY <1>3 DEF ListOK, Carried
    <3>2. /\ DOMAIN Tail(list) = 1 .. Len(list) - 1 /\ Len(list) \in Nat
          /\ \A i \in DOMAIN Tail(list) : i + 1 \in DOMAIN list /\ Tail(list)[i] = list[i + 1]
      BY <1>3, TailSteps
    <3> DEFINE rest == Tail(list)
    <3> HIDE DEF rest
    <3>3. \A i \in DOMAIN rest : i + 1 \in DOMAIN list /\ i + 1 > 1 /\ rest[i] = list[i + 1]
      BY <3>2 DEF rest
    <3>4. ~ToFree(rest, e)
      BY <3>1, <3>3 DEF ToFree
    <3> QED
      BY <3>4 DEF rest
  <2>3. ASSUME NEW x \in Endpoints, x # e
        PROVE  x \in Counted' <=> x \in Counted
    <3>1. (x \in registered' \/ ToFree(Tail(list), x)) <=> (x \in registered \/ ToFree(list, x))
      BY <2>1, <2>3 DEF Free, graphVars
    <3> QED
      BY <1>1, <1>2, <3>1, CountedElsewhere DEF IInv
  <2>4. e \in Counted
    BY <1>1, <2>1 DEF Counted
  <2>5. e \notin Counted'
    <3>1. todo'[t] = Tail(list) /\ \A u \in Threads \ {t} : todo'[u] = todo[u]
      BY <1>2 DEF IInv, TypeOK
    <3>2. ASSUME NEW u \in Threads, u # t
          PROVE  ~ToFree(todo[u], e)
      <4>1. ToFree(todo[u], e) => e \in About(todo[u])
        BY AboutList DEF IInv, TypeOK, ToFree
      <4> QED
        BY <1>3, <3>2, <4>1 DEF Alone
    <3>3. \A u \in Threads : ~ToFree(todo'[u], e)
      BY <2>2, <3>1, <3>2
    <3>4. \A l : ToFree(l, e)' = ToFree(l, e)
      BY DEF ToFree
    <3> QED
      BY <1>4, <3>3, <3>4 DEF Counted, Free, graphVars
  <2>6. Counted' = Counted \ {e}
    BY <2>3, <2>5 DEF Counted
  <2>7. Cardinality(Counted \ {e}) = Cardinality(Counted) - 1
    BY <2>4, CountedIsFinite, FS_RemoveElement DEF IInv
  <2>8. Cardinality(nodes) \in Nat /\ Cardinality(Counted) \in Nat
    BY CountedIsFinite DEF IInv
  <2>9. active = Cardinality(nodes) + Cardinality(Counted) /\ nodes' = nodes
    BY DEF IInv, CountIsExact, Free, contextVars
  <2> QED
    BY <1>9, <2>6, <2>7, <2>8, <2>9 DEF CountIsExact
<1> QED
  BY <1>8, <1>10, <1>11, <1>13, <1>14 DEF IInv

\* A thread gets another list of steps, and nothing else happens.
LEMMA ListReplaced ==
  ASSUME IInv, NEW t \in Threads, NEW new \in Seq(ToDo), NEW X, NEW kept, kept \subseteq held,
         todo' = [todo EXCEPT ![t] = new], held' = kept,
         UNCHANGED <<up, nodes, parts, owner, listening, registered, active>>,
         shutdown' = shutdown,
         ListOK(new), Fits(new), HandsOver(t, new, X, kept, {}),
         \A x \in Endpoints : x \in registered \/ (ToFree(new, x) <=> ToFree(todo[t], x)),
         \A i \in DOMAIN new : new[i].do # "release" => up
  PROVE  IInv'
<1>1. \A x : Same(x)
  BY DEF Same
<1>2. /\ ListsOK' /\ StepsFit' /\ Exclusive' /\ HeldAreLive' /\ RestIsFresh'
  <2>1. Fits(new)'
    BY <1>1, ListStillFits
  <2>2. held' = kept \cup {}
    OBVIOUS
  <2> QED
    BY <2>1, <2>2, OthersUndisturbed DEF IInv
<1>3. TypeOK'
  BY DEF IInv, TypeOK
<1>4. ListenersHaveImpl'
  BY DEF IInv, ListenersHaveImpl
<1>5. OwnersThere'
  <2>1. \A e \in registered' \cap Endpoints : owner'[e] \in nodes /\ up
    BY DEF IInv, OwnersThere
  <2> QED
    BY <2>1, OwnersKept DEF IInv
<1>6. CountIsExact'
  <2>1. ASSUME NEW x \in Endpoints
        PROVE  x \in Counted' <=> x \in Counted
    <3>1. (x \in registered' \/ ToFree(new, x)) <=> (x \in registered \/ ToFree(todo[t], x))
      OBVIOUS
    <3> QED
      BY <3>1, CountedElsewhere DEF IInv
  <2> QED
    BY <2>1, CountedKept DEF IInv
<1> QED
  BY <1>2, <1>3, <1>4, <1>5, <1>6 DEF IInv

\* What is left after a failure finds what it expects, and nothing is left of
\* what is not done any more, but the endpoint that failed.
LEMMA FailureFits ==
  ASSUME NEW list \in Seq(ToDo), ListOK(list), Fits(list), NEW e \in Endpoints,
         NEW k \in 1 .. Len(list),
         list[k].do = "announce", \A i \in 1 .. k : list[i].on = e
  PROVE  LET left == AfterFailure(SubSeq(list, k + 1, Len(list))) IN
         /\ left \in Seq(ToDo) /\ ListOK(left) /\ Fits(left)
         /\ About(left) \subseteq About(list) \ {e}
         /\ \A x \in About(list) : x = e \/ x \in About(left) \/ Fresh(x)
         /\ \A x \in Endpoints : x \in registered \/ (ToFree(left, x) <=> ToFree(list, x))
         /\ \/ left = <<>>
            \/ \E d \in Endpoints, o \in Nodes :
                 d # e /\ d \in registered /\ owner[d] = o /\ left = Destroying(d, o)
<1> DEFINE left == AfterFailure(SubSeq(list, k + 1, Len(list)))
<1>1. \/ /\ left = <<>>
         /\ \A x \in About(list) :
              x = e \/ \E i \in DOMAIN list : list[i].do = "begin" /\ list[i].on = x
         /\ \A i \in DOMAIN list : list[i].do # "free"
      \/ \E p \in Pairs :
           /\ Len(list) = k + 1 /\ list[k + 1].do = "register" /\ list[k + 1].on = p
           /\ e = Second[p]
           /\ left = Destroying(First[p], list[k + 1].node)
  BY FailureLeaves
<1> HIDE DEF left
<1>2. CASE /\ left = <<>>
           /\ \A x \in About(list) :
                x = e \/ \E i \in DOMAIN list : list[i].do = "begin" /\ list[i].on = x
           /\ \A i \in DOMAIN list : list[i].do # "free"
  <2>1. \A x \in About(list) : x = e \/ Fresh(x)
    BY <1>2 DEF Fits, StepFits
  <2>2. \A x : ~ToFree(list, x)
    BY <1>2 DEF ToFree
  <2>3. left \in Seq(ToDo) /\ ListOK(left) /\ Fits(left) /\ About(left) = {} /\ \A x : ~ToFree(left, x)
    BY <1>2, NoSteps
  <2> QED
    BY <1>2, <2>1, <2>2, <2>3 DEF left
<1>3. ASSUME NEW p \in Pairs,
             Len(list) = k + 1 /\ list[k + 1].do = "register" /\ list[k + 1].on = p,
             e = Second[p], left = Destroying(First[p], list[k + 1].node)
      PROVE  /\ left \in Seq(ToDo) /\ ListOK(left) /\ Fits(left)
             /\ About(left) \subseteq About(list) \ {e}
             /\ \A x \in About(list) : x = e \/ x \in About(left) \/ Fresh(x)
             /\ \A x \in Endpoints : x \in registered \/ (ToFree(left, x) <=> ToFree(list, x))
             /\ \E d \in Endpoints, o \in Nodes :
                  d # e /\ d \in registered /\ owner[d] = o /\ left = Destroying(d, o)
  <2> DEFINE d == First[p]
             o == list[k + 1].node
  <2>1. /\ d \in registered /\ owner[d] = o /\ o \in Nodes
        /\ About(list) = {d, e} /\ \A i \in DOMAIN list : list[i].do # "free"
    BY <1>3, FirstIsThere
  <2>2. d \in Endpoints /\ d # e
    BY <1>3, PairEnds
  <2>3. left = Destroying(d, o)
    BY <1>3
  <2> HIDE DEF d, o
  <2>4. /\ left \in Seq(ToDo) /\ ListOK(left) /\ Fits(left) /\ About(left) = {d}
        /\ \A x : ToFree(left, x) <=> x = d
    BY <2>1, <2>2, <2>3, DestroyingList, DestroyingOK, DestroyingFits
  <2>5. \A x : ~ToFree(list, x)
    BY <2>1 DEF ToFree
  <2> QED
    BY <2>1, <2>2, <2>3, <2>4, <2>5
<1> QED
  BY <1>1, <1>2, <1>3 DEF left

\* The list that undoes e and then does what is left finds what it expects.
LEMMA UndoingFits ==
  ASSUME NEW left, NEW e \in Endpoints, NEW n \in nodes, n \in Nodes,
         \/ left = <<>>
         \/ \E d \in Endpoints, o \in Nodes :
              d # e /\ d \in registered /\ owner[d] = o /\ left = Destroying(d, o),
         e \notin registered, \E k \in 0 .. Len(Order(e)) : parts[e] = PartsUpTo(e, k)
  PROVE  LET new == Steps(<<"undo">>, e, n) \o left IN
         /\ new \in Seq(ToDo) /\ ListOK(new) /\ Fits(new)
         /\ About(new) = About(left) \cup {e}
         /\ \A x : ToFree(new, x) <=> ToFree(left, x)
<1> DEFINE new == Steps(<<"undo">>, e, n) \o left
<1>1. CASE left = <<>>
  <2>1. /\ new \in Seq(ToDo) /\ Len(new) = 1 /\ DOMAIN new = {1}
        /\ new[1] = [do |-> "undo", on |-> e, node |-> n]
        /\ ListOK(new)
    BY <1>1, UndoingList
  <2> HIDE DEF new
  <2>2. new[1].do = "undo" /\ new[1].on = e /\ new[1].node = n
    BY <2>1
  <2>3. StepFits(new, 1)
    BY <2>2 DEF StepFits
  <2>4. About(new) = {e}
    BY <2>1, <2>2, ConcernsOf DEF About
  <2>5. \A x : ~ToFree(new, x)
    BY <2>1, <2>2 DEF ToFree
  <2> QED
    BY <1>1, <2>1, <2>3, <2>4, <2>5, NoSteps DEF Fits, new
<1>2. ASSUME NEW d \in Endpoints, NEW o \in Nodes,
             d # e, d \in registered, owner[d] = o, left = Destroying(d, o)
      PROVE  /\ new \in Seq(ToDo) /\ ListOK(new) /\ Fits(new)
             /\ About(new) = About(left) \cup {e}
             /\ \A x : ToFree(new, x) <=> ToFree(left, x)
  <2>1. /\ new \in Seq(ToDo) /\ Len(new) = 5 /\ DOMAIN new = 1 .. 5
        /\ new[1] = [do |-> "undo", on |-> e, node |-> n]
        /\ \A i \in 1 .. 4 : new[1 + i] = Destroying(d, o)[i]
        /\ ListOK(new)
    <3> DEFINE both == Steps(<<"undo">>, e, n) \o Destroying(d, o)
    <3>1. new = both
      BY <1>2
    <3>2. e # d
      BY <1>2
    <3>3. /\ both \in Seq(ToDo) /\ Len(both) = 5 /\ DOMAIN both = 1 .. 5
          /\ both[1] = [do |-> "undo", on |-> e, node |-> n]
          /\ \A i \in 1 .. 4 : both[1 + i] = Destroying(d, o)[i]
          /\ ListOK(both)
      BY <3>2, UndoingBoth
    <3> HIDE DEF new, both
    <3> QED
      BY <3>1, <3>3
  <2> HIDE DEF new
  <2>2. new[1].do = "undo" /\ new[1].on = e /\ new[1].node = n
    BY <2>1
  <2>3. /\ new[2] = [do |-> "detach", on |-> d, node |-> o]
        /\ new[3] = [do |-> "unlisten", on |-> d, node |-> o]
        /\ new[4] = [do |-> "delete", on |-> d, node |-> o]
        /\ new[5] = [do |-> "free", on |-> d, node |-> o]
    <3>1. /\ 1 \in 1 .. 4 /\ 2 \in 1 .. 4 /\ 3 \in 1 .. 4 /\ 4 \in 1 .. 4
          /\ 1 + 1 = 2 /\ 1 + 2 = 3 /\ 1 + 3 = 4 /\ 1 + 4 = 5
      OBVIOUS
    <3>2. /\ new[1 + 1] = Destroying(d, o)[1] /\ new[1 + 2] = Destroying(d, o)[2]
          /\ new[1 + 3] = Destroying(d, o)[3] /\ new[1 + 4] = Destroying(d, o)[4]
      BY <2>1, <3>1
    <3>3. /\ new[2] = Destroying(d, o)[1] /\ new[3] = Destroying(d, o)[2]
          /\ new[4] = Destroying(d, o)[3] /\ new[5] = Destroying(d, o)[4]
      BY <3>1, <3>2
    <3>4. /\ Destroying(d, o)[1] = [do |-> "detach", on |-> d, node |-> o]
          /\ Destroying(d, o)[2] = [do |-> "unlisten", on |-> d, node |-> o]
          /\ Destroying(d, o)[3] = [do |-> "delete", on |-> d, node |-> o]
          /\ Destroying(d, o)[4] = [do |-> "free", on |-> d, node |-> o]
      BY DestroyingList
    <3> QED
      BY <3>3, <3>4
  <2>4. \A i \in 1 .. 5 : i = 1 \/ i = 2 \/ i = 3 \/ i = 4 \/ i = 5
    OBVIOUS
  <2>5. StepFits(new, 1)
    BY <2>2 DEF StepFits
  <2>6. \A i \in {2, 3, 4, 5} : StepFits(new, i)
    BY <1>2, <2>3 DEF StepFits, CreatingSteps
  <2>7. About(new) = {e, d}
    BY <2>1, <2>2, <2>3, <2>4, ConcernsOf DEF About
  <2>8. \A x : ToFree(new, x) <=> x = d
    BY <2>1, <2>2, <2>3, <2>4 DEF ToFree
  <2>9. About(left) = {d} /\ \A x : ToFree(left, x) <=> x = d
    BY <1>2, DestroyingFits
  <2> QED
    BY <2>1, <2>4, <2>5, <2>6, <2>7, <2>8, <2>9 DEF Fits
<1> QED
  BY <1>1, <1>2

\* A creation ends with the announcement.
LEMMA AnnounceAhead ==
  ASSUME NEW list \in Seq(ToDo), list # <<>>, ListOK(list)
  PROVE  /\ list[1].do = "begin" =>
              3 \in 1 .. Len(list) /\ list[3].do = "announce" /\ \A i \in 1 .. 3 : list[i].on = list[1].on
         /\ list[1].do = "make" =>
              2 \in 1 .. Len(list) /\ list[2].do = "announce" /\ \A i \in 1 .. 2 : list[i].on = list[1].on
         /\ list[1].do = "announce" => 1 \in 1 .. Len(list) /\ \A i \in 1 .. 1 : list[i].on = list[1].on
<1>1. DOMAIN list = 1 .. Len(list) /\ 1 \in DOMAIN list
  BY TailSteps
<1>2. ASSUME NEW j \in DOMAIN list, After(list[j].do) # "none"
      PROVE  /\ j + 1 \in DOMAIN list /\ list[j + 1].do = After(list[j].do)
             /\ list[j + 1].on = list[j].on
  <2>1. j + 1 \in DOMAIN list /\ list[j + 1] = Following(list[j])
    BY <1>2 DEF ListOK, Carried
  <2> QED
    BY <2>1 DEF Following
<1>3. After(list[1].do) # "none" =>
        2 \in DOMAIN list /\ list[2].do = After(list[1].do) /\ list[2].on = list[1].on
  <2>1. 1 + 1 = 2
    OBVIOUS
  <2>2. After(list[1].do) # "none" =>
          /\ 1 + 1 \in DOMAIN list /\ list[1 + 1].do = After(list[1].do)
          /\ list[1 + 1].on = list[1].on
    BY <1>1, <1>2, Zenon
  <2> QED
    BY <2>1, <2>2
<1>4. 2 \in DOMAIN list /\ After(list[2].do) # "none" =>
        3 \in DOMAIN list /\ list[3].do = After(list[2].do) /\ list[3].on = list[2].on
  <2>1. 2 + 1 = 3
    OBVIOUS
  <2>2. 2 \in DOMAIN list /\ After(list[2].do) # "none" =>
          /\ 2 + 1 \in DOMAIN list /\ list[2 + 1].do = After(list[2].do)
          /\ list[2 + 1].on = list[2].on
    BY <1>2, Zenon
  <2> QED
    BY <2>1, <2>2
<1>5. /\ \A i \in 1 .. 3 : i = 1 \/ i = 2 \/ i = 3
      /\ \A i \in 1 .. 2 : i = 1 \/ i = 2
      /\ \A i \in 1 .. 1 : i = 1
  OBVIOUS
<1> QED
  BY <1>1, <1>3, <1>4, <1>5 DEF After

\* A creation that has begun fails k steps before the end of its own.
LEMMA FailKeeps ==
  ASSUME IInv, NEW t \in Threads, NEW e \in Endpoints, NEW name, At(t, name, e),
         NEW list \in Seq(ToDo), todo[t] = list, NEW k \in 1 .. Len(list),
         list[k].do = "announce", \A i \in 1 .. k : list[i].on = e,
         name \in CreatingSteps,
         e \notin registered, \E j \in 0 .. Len(Order(e)) : parts[e] = PartsUpTo(e, j),
         Fail(t, e, k),
         UNCHANGED <<up, nodes, parts, owner, listening, registered, active>>,
         shutdown' = shutdown, held' = held
  PROVE  IInv'
<1>1. /\ list # <<>> /\ ListOK(list) /\ Fits(list)
      /\ list[1].do = name /\ list[1].on = e
      /\ Next1(t) = list[1] /\ list[1].node \in Nodes
      /\ StepFits(list, 1) /\ up /\ e \in About(list) /\ About(list) \subseteq Endpoints
      /\ Alone(t, About(list))
  BY Going
<1> DEFINE left == AfterFailure(SubSeq(list, k + 1, Len(list)))
           n == list[1].node
           new == Steps(<<"undo">>, e, n) \o left
<1>2. todo' = [todo EXCEPT ![t] = new]
  BY <1>1 DEF Fail
<1>3. n \in nodes /\ n \in Nodes
  BY <1>1 DEF StepFits
<1>4. /\ About(left) \subseteq About(list) \ {e}
      /\ \A x \in About(list) : x = e \/ x \in About(left) \/ Fresh(x)
      /\ \A x \in Endpoints : x \in registered \/ (ToFree(left, x) <=> ToFree(list, x))
      /\ \/ left = <<>>
         \/ \E d \in Endpoints, o \in Nodes :
              d # e /\ d \in registered /\ owner[d] = o /\ left = Destroying(d, o)
  BY <1>1, FailureFits
<1> HIDE DEF n, left
<1>5. /\ new \in Seq(ToDo) /\ ListOK(new) /\ Fits(new)
      /\ About(new) = About(left) \cup {e}
      /\ \A x : ToFree(new, x) <=> ToFree(left, x)
  BY <1>3, <1>4, UndoingFits
<1> HIDE DEF new
<1>6. \A x : Same(x) /\ (Fresh(x) => Fresh(x)')
  BY DEF Same, Fresh
<1>7. HandsOver(t, new, About(list), held, {})
  BY <1>1, <1>4, <1>5, <1>6 DEF HandsOver, Alone
<1>8. \A x \in Endpoints : x \in registered \/ (ToFree(new, x) <=> ToFree(todo[t], x))
  BY <1>4, <1>5
<1> QED
  BY <1>1, <1>2, <1>5, <1>7, <1>8, ListReplaced

\* A creation begins on an endpoint nothing is left of, under the mutex; that of
\* a context that is shut down ends.
LEMMA BeginInv ==
  ASSUME IInv, NEW t \in Threads, NEW e \in Endpoints, Begin(t, e)
  PROVE  IInv'
<1>1. PICK list \in Seq(ToDo) : todo[t] = list
  BY DEF IInv, TypeOK
<1>2. At(t, "begin", e)
  BY DEF Begin
<1>3. /\ list # <<>> /\ ListOK(list) /\ Fits(list) /\ Tail(list) \in Seq(ToDo)
      /\ list[1].do = "begin" /\ list[1].on = e /\ 1 \in DOMAIN list
      /\ Next1(t) = list[1] /\ list[1].node \in Nodes
      /\ StepFits(list, 1) /\ up /\ e \in About(list) /\ About(list) \subseteq Endpoints
      /\ Alone(t, About(list))
  BY <1>1, <1>2, Going
<1>4. Fresh(e) /\ list[1].node \in nodes
  BY <1>3 DEF StepFits, CreatingSteps
<1>5. CASE shutdown
  <2> DEFINE left == AfterFailure(SubSeq(list, 4, Len(list)))
  <2>1. todo' = [todo EXCEPT ![t] = left]
    BY <1>1, <1>5 DEF Begin, Refuses
  <2>2. 3 \in 1 .. Len(list) /\ list[3].do = "announce" /\ \A i \in 1 .. 3 : list[i].on = e
    BY <1>3, AnnounceAhead
  <2>3. /\ left \in Seq(ToDo) /\ ListOK(left) /\ Fits(left)
        /\ About(left) \subseteq About(list) \ {e}
        /\ \A x \in About(list) : x = e \/ x \in About(left) \/ Fresh(x)
        /\ \A x \in Endpoints : x \in registered \/ (ToFree(left, x) <=> ToFree(list, x))
    <3> DEFINE same == AfterFailure(SubSeq(list, 3 + 1, Len(list)))
    <3>1. /\ same \in Seq(ToDo) /\ ListOK(same) /\ Fits(same)
          /\ About(same) \subseteq About(list) \ {e}
          /\ \A x \in About(list) : x = e \/ x \in About(same) \/ Fresh(x)
          /\ \A x \in Endpoints : x \in registered \/ (ToFree(same, x) <=> ToFree(list, x))
      BY <1>3, <2>2, FailureFits
    <3>2. same = left
      <4>1. 3 + 1 = 4
        OBVIOUS
      <4> QED
        BY <4>1
    <3> HIDE DEF same, left
    <3> QED
      BY <3>1, <3>2
  <2> HIDE DEF left
  <2>4. /\ UNCHANGED <<up, nodes, parts, owner, listening, registered, active>>
        /\ shutdown' = shutdown /\ held' = held
    BY <1>5 DEF Begin, Refuses, contextVars, graphVars
  <2>5. \A x : Same(x) /\ (Fresh(x) => Fresh(x)')
    BY <2>4 DEF Same, Fresh
  <2>6. HandsOver(t, left, About(list), held, {})
    BY <1>1, <1>3, <1>4, <2>3, <2>5 DEF HandsOver, Alone
  <2>7. \A x \in Endpoints : x \in registered \/ (ToFree(left, x) <=> ToFree(todo[t], x))
    BY <1>1, <2>3
  <2> QED
    BY <1>3, <2>1, <2>3, <2>4, <2>6, <2>7, ListReplaced
<1>6. CASE ~shutdown
  <2>1. /\ owner' = [owner EXCEPT ![e] = list[1].node]
        /\ todo' = [todo EXCEPT ![t] = Tail(list)]
    BY <1>1, <1>3, <1>6 DEF Begin, Refuses, Done
  <2>2. /\ UNCHANGED <<up, nodes, parts, listening, registered, active>>
        /\ shutdown' = shutdown /\ held' = held
    BY DEF Begin, contextVars, graphVars
  <2>3. owner'[e] = list[1].node /\ \A x \in Endpoints \ {e} : Same(x) /\ owner'[x] = owner[x]
    BY <2>1, <2>2 DEF Same, IInv, TypeOK
  <2>4. Tail(list)[1].do = "make" /\ Tail(list)[1].on = e /\ Tail(list)[1].node = list[1].node
    BY <1>3, NextOnEndpoint DEF After
  <2>5. StepFits(Tail(list), 1)'
    <3>1. parts[e] = PartsUpTo(e, 0) /\ 0 \in 0 .. Len(Order(e)) - 1
      <4>1. Len(Order(e)) \in {3, 6}
        BY OrderIs
      <4>2. PartsUpTo(e, 0) = {}
        BY DEF PartsUpTo
      <4>3. 0 \in 0 .. Len(Order(e)) - 1
        BY <4>1
      <4> QED
        BY <1>4, <4>2, <4>3 DEF Fresh
    <3>2. e \notin registered' /\ owner'[e] = list[1].node /\ list[1].node \in nodes'
      BY <1>4, <2>2, <2>3 DEF Fresh
    <3>3. \E k \in 0 .. Len(Order(e)) - 1 : parts'[e] = PartsUpTo(e, k)
      BY <2>2, <3>1
    <3>4. \A x, k : PartsUpTo(x, k)' = PartsUpTo(x, k) /\ Order(x)' = Order(x)
      BY DEF PartsUpTo, Order
    <3> QED
      BY <2>4, <3>2, <3>3, <3>4 DEF StepFits, CreatingSteps
  <2>6. /\ ListsOK' /\ StepsFit' /\ Exclusive' /\ HeldAreLive' /\ RestIsFresh'
        /\ todo' \in [Threads -> Seq(ToDo)]
    <3>1. After("begin") # "none"
      BY DEF After
    <3> QED
      BY <1>1, <1>2, <2>1, <2>2, <2>3, <2>5, <3>1, DoneKeeps
  <2>7. TypeOK'
    <3>1. owner' \in [Endpoints -> Nodes \cup {None}]
      BY <1>3, <2>1 DEF IInv, TypeOK
    <3> QED
      BY <2>2, <2>6, <3>1 DEF IInv, TypeOK
  <2>8. ListenersHaveImpl'
    BY <2>2 DEF IInv, ListenersHaveImpl
  <2>9. OwnersThere'
    <3>1. \A x \in registered' \cap Endpoints : owner'[x] \in nodes
      BY <1>4, <2>2, <2>3 DEF IInv, OwnersThere, Fresh
    <3> QED
      BY <1>3, <2>1, <2>2, <3>1, OwnersKept DEF IInv
  <2>10. CountIsExact'
    <3>1. \A x : ToFree(list, x) <=> ToFree(Tail(list), x)
      BY <1>3, RestToFree
    <3>2. ASSUME NEW x \in Endpoints
          PROVE  x \in Counted' <=> x \in Counted
      <4>1. (x \in registered' \/ ToFree(Tail(list), x)) <=> (x \in registered \/ ToFree(list, x))
        BY <2>2, <3>1
      <4> QED
        BY <1>1, <2>1, <4>1, CountedElsewhere DEF IInv
    <3> QED
      BY <2>2, <3>2, CountedKept DEF IInv
  <2> QED
    BY <2>6, <2>7, <2>8, <2>9, <2>10 DEF IInv
<1> QED
  BY <1>5, <1>6

\* A part is made in its turn, the listener with the reader; a creation that
\* fails leaves to be undone what it has made.
LEMMA MakeInv ==
  ASSUME IInv, NEW t \in Threads, NEW e \in Endpoints, Make(t, e)
  PROVE  IInv'
<1>1. PICK list \in Seq(ToDo) : todo[t] = list
  BY DEF IInv, TypeOK
<1>2. At(t, "make", e)
  BY DEF Make
<1>3. /\ list # <<>> /\ ListOK(list) /\ Fits(list) /\ Tail(list) \in Seq(ToDo)
      /\ list[1].do = "make" /\ list[1].on = e /\ 1 \in DOMAIN list
      /\ Next1(t) = list[1] /\ list[1].node \in Nodes
      /\ StepFits(list, 1) /\ up /\ e \in About(list) /\ About(list) \subseteq Endpoints
      /\ Alone(t, About(list))
  BY <1>1, <1>2, Going
<1>4. /\ e \notin registered /\ owner[e] = list[1].node /\ list[1].node \in nodes
      /\ \E j \in 0 .. Len(Order(e)) - 1 : parts[e] = PartsUpTo(e, j)
  BY <1>3 DEF StepFits, CreatingSteps
<1>5. PICK k \in 0 .. Len(Order(e)) - 1 : parts[e] = PartsUpTo(e, k)
  BY <1>4
<1>6. Len(Order(e)) \in Nat /\ k \in 0 .. Len(Order(e)) /\ k + 1 \in 0 .. Len(Order(e))
      /\ k + 1 \in DOMAIN Order(e)
  BY OrderIs
<1>7. /\ Cardinality(parts[e]) = k /\ Missing(e) = Order(e)[k + 1]
      /\ parts[e] \cup {Missing(e)} = PartsUpTo(e, k + 1)
  <2>1. Cardinality(parts[e]) = k /\ Missing(e) = Order(e)[k + 1]
    BY <1>5, <1>6, MissingIs
  <2>2. PartsUpTo(e, k + 1) = PartsUpTo(e, k) \cup {Order(e)[k + 1]}
    BY PartsGrow
  <2> QED
    BY <1>5, <2>1, <2>2
<1>8. /\ UNCHANGED <<up, shutdown, nodes, owner, registered, active>>
      /\ held' = held
  BY DEF Make, contextVars, graphVars
<1>9. CASE /\ parts' = [parts EXCEPT ![e] = parts[e] \cup {Missing(e)}]
           /\ listening' = IF e \in Subs /\ Missing(e) = "entity"
                           THEN listening \cup {e} ELSE listening
           /\ IF Cardinality(parts[e]) + 1 = Len(Order(e)) THEN Done(t) ELSE UNCHANGED todo
  <2>1. /\ parts'[e] = PartsUpTo(e, k + 1)
        /\ \A x \in Endpoints \ {e} : parts'[x] = parts[x] /\ Same(x)
    BY <1>7, <1>8, <1>9 DEF IInv, TypeOK, Same
  <2>2. \A x, j : PartsUpTo(x, j)' = PartsUpTo(x, j) /\ Order(x)' = Order(x)
    BY DEF PartsUpTo, Order
  <2>3. TypeOK' \/ todo' \notin [Threads -> Seq(ToDo)]
    <3>1. parts' \in [Endpoints -> SUBSET Parts]
      <4>1. PartsUpTo(e, k + 1) \in SUBSET Parts
        BY <1>6, PartsCount
      <4> QED
        BY <1>7, <1>9, <4>1 DEF IInv, TypeOK
    <3>2. listening' \in SUBSET Subs
      BY <1>9 DEF IInv, TypeOK
    <3> QED
      BY <1>8, <3>1, <3>2 DEF IInv, TypeOK
  <2>4. ListenersHaveImpl'
    <3>1. ASSUME e \in listening'
          PROVE  {"impl", "entity"} \subseteq parts'[e]
      <4>1. CASE e \in listening
        <5>1. {"impl", "entity"} \subseteq parts[e]
          BY <4>1 DEF IInv, ListenersHaveImpl
        <5> QED
          BY <1>7, <2>1, <5>1
      <4>2. CASE e \notin listening
        <5>1. e \in Subs /\ Order(e)[k + 1] = "entity"
          BY <1>7, <1>9, <3>1, <4>2
        <5>2. /\ \A i \in DOMAIN Order(e) : (Order(e)[i] = "impl" <=> i = 3) /\ (Order(e)[i] = "entity" <=> i = 4)
              /\ DOMAIN Order(e) = 1 .. Len(Order(e))
          BY <5>1, OrderIs
        <5>3. k + 1 = 4
          BY <1>6, <5>1, <5>2
        <5>4. 3 \in 1 .. k + 1 /\ 4 \in 1 .. k + 1 /\ Order(e)[3] = "impl" /\ Order(e)[4] = "entity"
          BY <1>6, <5>2, <5>3
        <5>5. {"impl", "entity"} \subseteq PartsUpTo(e, k + 1)
          BY <5>4 DEF PartsUpTo
        <5> QED
          BY <2>1, <5>5
      <4> QED
        BY <4>1, <4>2
    <3>2. \A x \in listening' : x \in Endpoints /\ (x # e => x \in listening)
      BY <1>9 DEF IInv, TypeOK, Endpoints
    <3> QED
      BY <2>1, <3>1, <3>2 DEF IInv, ListenersHaveImpl
  <2>6. CASE k + 1 = Len(Order(e))
    <3>1. todo' = [todo EXCEPT ![t] = Tail(list)]
      BY <1>1, <1>7, <1>9, <2>6 DEF Done
    <3>2. Tail(list)[1].do = "announce" /\ Tail(list)[1].on = e /\ Tail(list)[1].node = list[1].node
      BY <1>3, NextOnEndpoint DEF After
    <3>3. StepFits(Tail(list), 1)'
      <4>1. e \notin registered' /\ owner'[e] = list[1].node /\ list[1].node \in nodes'
        BY <1>4, <1>8
      <4>2. \E j \in 0 .. Len(Order(e)) : parts'[e] = PartsUpTo(e, j)
        BY <1>6, <2>1
      <4> QED
        BY <2>2, <3>2, <4>1, <4>2 DEF StepFits, CreatingSteps
    <3>4. /\ ListsOK' /\ StepsFit' /\ Exclusive' /\ HeldAreLive' /\ RestIsFresh'
          /\ todo' \in [Threads -> Seq(ToDo)]
      <4>1. After("make") # "none"
        BY DEF After
      <4> QED
        BY <1>1, <1>2, <1>8, <2>1, <3>1, <3>3, <4>1, DoneKeeps
    <3>5. OwnersThere'
      <4>1. \A x \in registered' \cap Endpoints : owner'[x] \in nodes
        BY <1>8 DEF IInv, OwnersThere
      <4> QED
        BY <1>3, <1>8, <3>1, <4>1, OwnersKept DEF IInv
    <3>6. CountIsExact'
      <4>1. \A x : ToFree(list, x) <=> ToFree(Tail(list), x)
        BY <1>3, RestToFree
      <4>2. ASSUME NEW x \in Endpoints
            PROVE  x \in Counted' <=> x \in Counted
        <5>1. (x \in registered' \/ ToFree(Tail(list), x)) <=> (x \in registered \/ ToFree(list, x))
          BY <1>8, <4>1
        <5> QED
          BY <1>1, <3>1, <5>1, CountedElsewhere DEF IInv
      <4> QED
        BY <1>8, <4>2, CountedKept DEF IInv
    <3> QED
      BY <2>3, <2>4, <3>4, <3>5, <3>6 DEF IInv
  <2>7. CASE k + 1 # Len(Order(e))
    <3>1. todo' = todo
      BY <1>7, <1>9, <2>7
    <3>2. StepFits(list, 1)'
      <4>1. e \notin registered' /\ owner'[e] = list[1].node /\ list[1].node \in nodes'
        BY <1>4, <1>8
      <4>2. \E j \in 0 .. Len(Order(e)) - 1 : parts'[e] = PartsUpTo(e, j)
        BY <1>6, <2>1, <2>7
      <4> QED
        BY <1>3, <2>2, <4>1, <4>2 DEF StepFits, CreatingSteps
    <3>3. /\ ListsOK' /\ StepsFit' /\ Exclusive' /\ HeldAreLive' /\ RestIsFresh'
      <4>1. Fits(list)'
        BY <1>3, <1>8, <2>1, <3>2, RestStaysFit
      <4>2. HandsOver(t, list, About(list), held, {})
        BY <1>1, <1>3, <2>1 DEF HandsOver, Alone
      <4>3. todo' = [todo EXCEPT ![t] = list] /\ held' = held \cup {} /\ held \subseteq held /\ nodes' = nodes
        BY <1>1, <1>8, <3>1 DEF IInv, TypeOK
      <4> QED
        BY <1>3, <4>1, <4>2, <4>3, OthersUndisturbed DEF IInv
    <3>4. OwnersThere'
      BY <1>8, <3>1 DEF IInv, OwnersThere
    <3>5. CountIsExact'
      BY <1>8, <3>1 DEF IInv, CountIsExact, Counted, ToFree
    <3>6. todo' \in [Threads -> Seq(ToDo)]
      BY <3>1 DEF IInv, TypeOK
    <3> QED
      BY <2>3, <2>4, <3>3, <3>4, <3>5, <3>6 DEF IInv
  <2> QED
    BY <2>6, <2>7
<1>10. CASE Fail(t, e, 2) /\ UNCHANGED <<parts, listening>>
  <2>1. 2 \in 1 .. Len(list) /\ list[2].do = "announce" /\ \A i \in 1 .. 2 : list[i].on = e
    BY <1>3, AnnounceAhead
  <2>2. "make" \in CreatingSteps
    BY DEF CreatingSteps
  <2>3. \E j \in 0 .. Len(Order(e)) : parts[e] = PartsUpTo(e, j)
    BY <1>5, <1>6
  <2>4. UNCHANGED <<up, nodes, parts, owner, listening, registered, active>>
    BY <1>8, <1>10
  <2> QED
    BY <1>1, <1>2, <1>4, <1>8, <1>10, <2>1, <2>2, <2>3, <2>4, FailKeeps
<1> QED
  BY <1>9, <1>10 DEF Make

\* The parts go in the reverse order, the reader with its listener before the
\* impl; then nothing is left.
LEMMA UndoInv ==
  ASSUME IInv, NEW t \in Threads, NEW e \in Endpoints, Undo(t, e)
  PROVE  IInv'
<1>1. PICK list \in Seq(ToDo) : todo[t] = list
  BY DEF IInv, TypeOK
<1>2. At(t, "undo", e)
  BY DEF Undo
<1>3. /\ list # <<>> /\ ListOK(list) /\ Fits(list) /\ Tail(list) \in Seq(ToDo)
      /\ list[1].do = "undo" /\ list[1].on = e /\ 1 \in DOMAIN list
      /\ StepFits(list, 1) /\ up /\ e \in About(list) /\ About(list) \subseteq Endpoints
      /\ Alone(t, About(list))
  BY <1>1, <1>2, Going
<1>4. /\ e \notin registered /\ list[1].node \in nodes
      /\ \E j \in 0 .. Len(Order(e)) : parts[e] = PartsUpTo(e, j)
  BY <1>3 DEF StepFits, CreatingSteps
<1>5. PICK k \in 0 .. Len(Order(e)) : parts[e] = PartsUpTo(e, k)
  BY <1>4
<1>6. Len(Order(e)) \in Nat /\ DOMAIN Order(e) = 1 .. Len(Order(e))
  BY OrderIs
<1>7. /\ UNCHANGED <<up, shutdown, nodes, registered, active>>
      /\ held' = held
  BY DEF Undo, contextVars, graphVars
<1>9. CASE parts[e] = {}
  <2>1. /\ owner' = [owner EXCEPT ![e] = None] /\ UNCHANGED <<parts, listening>>
        /\ todo' = [todo EXCEPT ![t] = Tail(list)]
    BY <1>1, <1>9 DEF Undo, Done
  <2>2. \A x \in Endpoints \ {e} : Same(x) /\ owner'[x] = owner[x]
    BY <1>7, <2>1 DEF Same, IInv, TypeOK
  <2>3. Fresh(e)'
    <3>1. e \notin listening
      BY <1>9 DEF IInv, ListenersHaveImpl
    <3>2. owner'[e] = None
      BY <2>1 DEF IInv, TypeOK
    <3> QED
      BY <1>4, <1>7, <1>9, <2>1, <3>1, <3>2 DEF Fresh
  <2>4. /\ ListsOK' /\ StepsFit' /\ Exclusive' /\ HeldAreLive' /\ RestIsFresh'
        /\ todo' \in [Threads -> Seq(ToDo)]
    BY <1>1, <1>2, <1>7, <2>1, <2>2, <2>3, DoneKeeps
  <2>5. TypeOK'
    <3>1. owner' \in [Endpoints -> Nodes \cup {None}]
      BY <2>1 DEF IInv, TypeOK
    <3> QED
      BY <1>7, <2>1, <2>4, <3>1 DEF IInv, TypeOK
  <2>6. ListenersHaveImpl'
    BY <2>1 DEF IInv, ListenersHaveImpl
  <2>7. OwnersThere'
    <3>1. \A x \in registered' \cap Endpoints : owner'[x] \in nodes
      BY <1>4, <1>7, <2>2 DEF IInv, OwnersThere
    <3> QED
      BY <1>3, <1>7, <2>1, <3>1, OwnersKept DEF IInv
  <2>8. CountIsExact'
    <3>1. \A x : ToFree(list, x) <=> ToFree(Tail(list), x)
      BY <1>3, RestToFree
    <3>2. ASSUME NEW x \in Endpoints
          PROVE  x \in Counted' <=> x \in Counted
      <4>1. (x \in registered' \/ ToFree(Tail(list), x)) <=> (x \in registered \/ ToFree(list, x))
        BY <1>7, <3>1
      <4> QED
        BY <1>1, <2>1, <4>1, CountedElsewhere DEF IInv
    <3> QED
      BY <1>7, <3>2, CountedKept DEF IInv
  <2> QED
    BY <2>4, <2>5, <2>6, <2>7, <2>8 DEF IInv
<1>10. CASE parts[e] # {}
  <2> DEFINE last == CHOOSE i \in DOMAIN Order(e) :
                       /\ Order(e)[i] \in parts[e]
                       /\ \A j \in DOMAIN Order(e) : Order(e)[j] \in parts[e] => j <= i
  <2>1. /\ parts' = [parts EXCEPT ![e] = parts[e] \ {Order(e)[last]}]
        /\ listening' = IF Order(e)[last] = "entity" THEN listening \ {e} ELSE listening
        /\ UNCHANGED <<owner, todo>>
    BY <1>10 DEF Undo, Undone
  <2>2. k > 0 /\ k \in Nat
    <3>1. k = 0 => parts[e] = {}
      BY <1>5, LastIs
    <3> QED
      BY <1>6, <1>10, <3>1
  <2>3. k = last /\ k \in DOMAIN Order(e) /\ parts[e] \ {Order(e)[k]} = PartsUpTo(e, k - 1)
    BY <1>5, <2>2, LastIs
  <2> HIDE DEF last
  <2>4. /\ parts' = [parts EXCEPT ![e] = PartsUpTo(e, k - 1)]
        /\ listening' = IF Order(e)[k] = "entity" THEN listening \ {e} ELSE listening
        /\ k - 1 \in 0 .. Len(Order(e))
    <3>1. parts' = [parts EXCEPT ![e] = parts[e] \ {Order(e)[k]}]
      BY <2>1, <2>3, Zenon
    <3>2. parts' = [parts EXCEPT ![e] = PartsUpTo(e, k - 1)]
      BY <2>3, <3>1, Zenon
    <3>3. listening' = IF Order(e)[k] = "entity" THEN listening \ {e} ELSE listening
      BY <2>1, <2>3, Zenon
    <3>4. k \in 1 .. Len(Order(e))
      BY <1>6, <2>3
    <3>5. k - 1 \in 0 .. Len(Order(e))
      BY <1>6, <2>2, <3>4
    <3> QED
      BY <3>2, <3>3, <3>5
  <2>5. parts'[e] = PartsUpTo(e, k - 1) /\ \A x \in Endpoints \ {e} : parts'[x] = parts[x] /\ Same(x)
    BY <1>7, <2>1, <2>4 DEF IInv, TypeOK, Same
  <2>6. TypeOK'
    <3>1. parts' \in [Endpoints -> SUBSET Parts]
      <4>1. PartsUpTo(e, k - 1) \in SUBSET Parts
        BY <2>4, PartsCount
      <4> QED
        BY <2>4, <4>1 DEF IInv, TypeOK
    <3>2. listening' \in SUBSET Subs
      BY <2>4 DEF IInv, TypeOK
    <3> QED
      BY <1>7, <2>1, <3>1, <3>2 DEF IInv, TypeOK
  <2>7. ListenersHaveImpl'
    <3>1. ASSUME e \in listening'
          PROVE  {"impl", "entity"} \subseteq parts'[e]
      <4>1. e \in listening /\ Order(e)[k] # "entity"
        BY <2>4, <3>1
      <4>2. {"impl", "entity"} \subseteq PartsUpTo(e, k) /\ e \in Subs
        BY <1>5, <4>1 DEF IInv, ListenersHaveImpl, TypeOK
      <4>3. /\ \A i \in DOMAIN Order(e) : (Order(e)[i] = "impl" <=> i = 3) /\ (Order(e)[i] = "entity" <=> i = 4)
        BY <4>2, OrderIs
      <4>4. PICK i \in 1 .. k : Order(e)[i] = "entity"
        BY <4>2 DEF PartsUpTo
      <4>5. i = 4 /\ k # 4
        BY <1>6, <2>2, <2>3, <4>1, <4>3, <4>4
      <4>6. Order(e)[k] # "impl"
        BY <2>2, <2>3, <4>3, <4>4, <4>5
      <4> QED
        BY <1>5, <2>3, <2>5, <4>1, <4>2, <4>6
    <3>2. \A x \in listening' : x \in Endpoints /\ x \in listening
      BY <2>4 DEF IInv, TypeOK, Endpoints
    <3> QED
      BY <2>5, <3>1, <3>2 DEF IInv, ListenersHaveImpl
  <2>8. StepFits(list, 1)'
    <3>1. e \notin registered' /\ list[1].node \in nodes'
      BY <1>4, <1>7
    <3>2. \E j \in 0 .. Len(Order(e)) : parts'[e] = PartsUpTo(e, j)
      BY <2>4, <2>5
    <3>3. \A x, j : PartsUpTo(x, j)' = PartsUpTo(x, j) /\ Order(x)' = Order(x)
      BY DEF PartsUpTo, Order
    <3> QED
      BY <1>3, <3>1, <3>2, <3>3 DEF StepFits, CreatingSteps
  <2>9. /\ ListsOK' /\ StepsFit' /\ Exclusive' /\ HeldAreLive' /\ RestIsFresh'
    <3>1. Fits(list)'
      BY <1>3, <1>7, <2>5, <2>8, RestStaysFit
    <3>2. HandsOver(t, list, About(list), held, {})
      BY <1>1, <1>3, <2>5 DEF HandsOver, Alone
    <3>3. todo' = [todo EXCEPT ![t] = list] /\ held' = held \cup {} /\ held \subseteq held /\ nodes' = nodes
      BY <1>1, <1>7, <2>1 DEF IInv, TypeOK
    <3> QED
      BY <1>3, <3>1, <3>2, <3>3, OthersUndisturbed DEF IInv
  <2>10. OwnersThere'
    BY <1>7, <2>1 DEF IInv, OwnersThere
  <2>11. CountIsExact'
    BY <1>7, <2>1 DEF IInv, CountIsExact, Counted, ToFree
  <2> QED
    BY <2>6, <2>7, <2>9, <2>10, <2>11 DEF IInv
<1> QED
  BY <1>9, <1>10

\* An endpoint that is announced is in the graph and counted; one whose
\* announcement is refused is undone.
LEMMA AnnounceInv ==
  ASSUME IInv, NEW t \in Threads, NEW e \in Endpoints, Announce(t, e)
  PROVE  IInv'
<1>1. PICK list \in Seq(ToDo) : todo[t] = list
  BY DEF IInv, TypeOK
<1>2. At(t, "announce", e)
  BY DEF Announce
<1>3. /\ list # <<>> /\ ListOK(list) /\ Fits(list) /\ Tail(list) \in Seq(ToDo)
      /\ list[1].do = "announce" /\ list[1].on = e /\ 1 \in DOMAIN list
      /\ Next1(t) = list[1] /\ list[1].node \in Nodes
      /\ StepFits(list, 1) /\ up /\ e \in About(list) /\ About(list) \subseteq Endpoints
      /\ Alone(t, About(list))
  BY <1>1, <1>2, Going
<1>4. /\ e \notin registered /\ owner[e] = list[1].node /\ list[1].node \in nodes
      /\ \E j \in 0 .. Len(Order(e)) : parts[e] = PartsUpTo(e, j)
  BY <1>3 DEF StepFits, CreatingSteps
<1>5. UNCHANGED <<up, shutdown, nodes, parts, owner, listening>>
  BY DEF Announce, contextVars, endpointVars
<1>6. CASE /\ registered' = registered \cup {e}
           /\ active' = active + 1
           /\ held' = IF Len(todo[t]) = 1 THEN held \cup {e} ELSE held
           /\ Done(t)
  <2>1. todo' = [todo EXCEPT ![t] = Tail(list)]
    BY <1>1, <1>6 DEF Done
  <2>2. \A x \in Endpoints \ {e} : Same(x)
    BY <1>5, <1>6 DEF Same
  <2>3. /\ Fits(Tail(list))' /\ About(Tail(list)) \subseteq About(list)
        /\ \A x \in About(list) : x \in About(Tail(list)) \/ x = e
    BY <1>3, <1>4, <1>5, <1>6, <2>2, RestFits
  <2>4. ListOK(Tail(list))
    BY <1>3, TailOK
  <2>5. Concerns(e) = {e}
    BY ConcernsOf
  <2>6. /\ ListsOK' /\ StepsFit' /\ Exclusive' /\ HeldAreLive' /\ RestIsFresh'
    <3>1. CASE Len(list) = 1
      <4>1. held' = held \cup {e} /\ held \subseteq held /\ nodes' = nodes
        BY <1>1, <1>5, <1>6, <3>1
      <4>2. About(Tail(list)) = {}
        <5>1. DOMAIN Tail(list) = 1 .. Len(list) - 1
          BY <1>3, TailSteps
        <5>2. DOMAIN Tail(list) = {}
          BY <3>1, <5>1
        <5> QED
          BY <5>2 DEF About
      <4>3. HandsOver(t, Tail(list), About(list), held, {e})
        BY <1>1, <1>3, <1>6, <2>2, <2>3, <2>5, <4>2 DEF HandsOver, Alone
      <4> QED
        BY <1>3, <2>1, <2>3, <2>4, <4>1, <4>3, OthersUndisturbed DEF IInv
    <3>2. CASE Len(list) # 1
      <4>1. held' = held \cup {} /\ held \subseteq held /\ nodes' = nodes
        BY <1>1, <1>5, <1>6, <3>2
      <4>2. e \in About(Tail(list))
        <5>1. /\ Len(list) \in Nat \ {0} /\ DOMAIN list = 1 .. Len(list)
              /\ DOMAIN Tail(list) = 1 .. Len(list) - 1
              /\ \A i \in DOMAIN Tail(list) : Tail(list)[i] = list[i + 1]
          BY <1>3, TailSteps
        <5> DEFINE m == Len(list)
                   rest == Tail(list)
        <5> HIDE DEF m, rest
        <5>2. /\ m \in DOMAIN list /\ 1 < m /\ m \in Nat /\ m - 1 \in DOMAIN rest /\ rest[m - 1] = list[m]
          BY <3>2, <5>1 DEF m, rest
        <5>3. list[m].do = "register"
          BY <1>3, <5>2 DEF ListOK, Registers, m
        <5>4. Precedes(list, 1, list[m])
          BY <1>3, <5>2, <5>3 DEF ListOK, Registers
        <5>5. e \in Concerns(rest[m - 1].on)
          BY <1>3, <5>2, <5>4 DEF Precedes
        <5>6. e \in About(rest)
          BY <5>2, <5>5 DEF About
        <5> QED
          BY <5>6 DEF rest
      <4>3. HandsOver(t, Tail(list), About(list), held, {})
        BY <1>1, <1>3, <2>2, <2>3, <4>2 DEF HandsOver, Alone
      <4> QED
        BY <1>3, <2>1, <2>3, <2>4, <4>1, <4>3, OthersUndisturbed DEF IInv
    <3> QED
      BY <3>1, <3>2
  <2>7. TypeOK'
    <3>1. todo' \in [Threads -> Seq(ToDo)]
      BY <1>3, <2>1 DEF IInv, TypeOK
    <3>2. held' \in SUBSET (Endpoints \cup Pairs)
      BY <1>6 DEF IInv, TypeOK
    <3> QED
      BY <1>5, <1>6, <3>1, <3>2 DEF IInv, TypeOK
  <2>8. ListenersHaveImpl'
    BY <1>5 DEF IInv, ListenersHaveImpl
  <2>10. OwnersThere'
    <3>1. \A x \in registered' \cap Endpoints : owner'[x] \in nodes
      BY <1>4, <1>5, <1>6 DEF IInv, OwnersThere
    <3> QED
      BY <1>3, <1>5, <2>1, <3>1, OwnersKept DEF IInv
  <2>11. CountIsExact'
    <3>1. \A x : ToFree(list, x) <=> ToFree(Tail(list), x)
      BY <1>3, RestToFree
    <3>2. ASSUME NEW x \in Endpoints, x # e
          PROVE  x \in Counted' <=> x \in Counted
      <4>1. (x \in registered' \/ ToFree(Tail(list), x)) <=> (x \in registered \/ ToFree(list, x))
        BY <1>6, <3>1, <3>2
      <4> QED
        BY <1>1, <2>1, <4>1, CountedElsewhere DEF IInv
    <3>3. e \notin Counted
      <4>1. ~ToFree(list, e)
        BY <1>3 DEF ToFree, ListOK, Carried
      <4> QED
        BY <1>1, <1>3, <1>4, <4>1, NotCounted DEF IInv
    <3>4. Counted' = Counted \cup {e}
      <4>1. e \in Counted'
        BY <1>6 DEF Counted
      <4> QED
        BY <3>2, <4>1 DEF Counted
    <3>5. Cardinality(Counted \cup {e}) = Cardinality(Counted) + 1
      BY <3>3, CountedIsFinite, FS_AddElement DEF IInv
    <3>6. Cardinality(nodes) \in Nat /\ Cardinality(Counted) \in Nat
      BY CountedIsFinite DEF IInv
    <3>7. active = Cardinality(nodes) + Cardinality(Counted) /\ nodes' = nodes
      BY <1>5 DEF IInv, CountIsExact
    <3> QED
      BY <1>6, <3>4, <3>5, <3>6, <3>7 DEF CountIsExact
  <2> QED
    BY <2>6, <2>7, <2>8, <2>10, <2>11 DEF IInv
<1>7. CASE Fail(t, e, 1) /\ UNCHANGED <<registered, active, held>>
  <2>1. 1 \in 1 .. Len(list) /\ list[1].do = "announce" /\ \A i \in 1 .. 1 : list[i].on = e
    BY <1>3, AnnounceAhead
  <2>2. "announce" \in CreatingSteps
    BY DEF CreatingSteps
  <2>3. UNCHANGED <<up, nodes, parts, owner, listening, registered, active>>
    BY <1>5, <1>7
  <2>4. shutdown' = shutdown /\ held' = held /\ Fail(t, e, 1)
    BY <1>5, <1>7
  <2> QED
    BY <1>1, <1>2, <1>4, <2>1, <2>2, <2>3, <2>4, FailKeeps
<1> QED
  BY <1>6, <1>7 DEF Announce

\* A thread gets another list of steps, and clients or services enter or leave
\* the context's sets.
LEMMA PairKeeps ==
  ASSUME IInv, NEW t \in Threads, NEW list \in Seq(ToDo), NEW X, NEW kept, NEW new,
         kept \subseteq held, new \subseteq Pairs,
         todo' = [todo EXCEPT ![t] = list], held' = kept \cup new,
         UNCHANGED <<up, shutdown, nodes, parts, owner, listening, active>>,
         registered' \subseteq Endpoints \cup Pairs,
         registered' \cap Endpoints = registered \cap Endpoints,
         ListOK(list), Fits(list)', HandsOver(t, list, X, kept, new),
         \A x \in Endpoints : x \in registered \/ (ToFree(list, x) <=> ToFree(todo[t], x)),
         \A i \in DOMAIN list : list[i].do # "release" => up
  PROVE  IInv'
<1>1. ListsOK' /\ StepsFit' /\ Exclusive' /\ HeldAreLive' /\ RestIsFresh'
  BY OthersUndisturbed DEF IInv
<1>2. TypeOK'
  BY DEF IInv, TypeOK
<1>3. ListenersHaveImpl'
  BY DEF IInv, ListenersHaveImpl
<1>5. OwnersThere'
  <2>1. \A e \in registered' \cap Endpoints : owner'[e] \in nodes /\ up
    BY DEF IInv, OwnersThere
  <2> QED
    BY <2>1, OwnersKept DEF IInv
<1>6. CountIsExact'
  <2>1. ASSUME NEW x \in Endpoints
        PROVE  x \in Counted' <=> x \in Counted
    <3>1. x \in registered' <=> x \in registered
      OBVIOUS
    <3>2. (x \in registered' \/ ToFree(list, x)) <=> (x \in registered \/ ToFree(todo[t], x))
      BY <3>1
    <3> QED
      BY <3>2, CountedElsewhere DEF IInv
  <2> QED
    BY <2>1, CountedKept DEF IInv
<1> QED
  BY <1>1, <1>2, <1>3, <1>5, <1>6 DEF IInv

\* A thread at a step of a client or service.
LEMMA GoingPair ==
  ASSUME IInv, NEW t \in Threads, NEW p \in Pairs, NEW name, At(t, name, p),
         NEW list \in Seq(ToDo), todo[t] = list
  PROVE  /\ list # <<>> /\ ListOK(list) /\ Fits(list) /\ Tail(list) \in Seq(ToDo)
         /\ 1 \in DOMAIN list /\ list[1].do = name /\ list[1].on = p
         /\ list[1].node \in Nodes /\ Next1(t) = list[1]
         /\ StepFits(list, 1)
         /\ Concerns(p) \subseteq About(list) /\ About(list) \subseteq Endpoints
         /\ Alone(t, About(list))
<1>1. TypeOK /\ ListsOK /\ StepsFit /\ Exclusive
  BY DEF IInv
<1>2. /\ list # <<>> /\ ListOK(list) /\ Fits(list)
      /\ 1 \in DOMAIN list /\ list[1].do = name /\ list[1].on = p
      /\ list[1].node \in Nodes /\ Next1(t) = list[1]
      /\ StepFits(list, 1)
  BY <1>1, AtHead
<1>3. Tail(list) \in Seq(ToDo)
  BY <1>2, TailSteps
<1>4. Concerns(p) \subseteq About(list) /\ About(list) \subseteq Endpoints
  BY <1>2, AboutList
<1>5. Alone(t, About(list))
  BY <1>1 DEF Exclusive, Alone
<1> QED
  BY <1>2, <1>3, <1>4, <1>5

\* The one step of a list.
LEMMA OnlyStep ==
  ASSUME NEW list \in Seq(ToDo), list # <<>>, ListOK(list), list[1].do \in {"register", "release"}
  PROVE  /\ DOMAIN list = {1} /\ Tail(list) = <<>>
         /\ About(list) = Concerns(list[1].on) /\ \A x : ~ToFree(list, x)
<1>1. Len(list) \in Nat \ {0} /\ DOMAIN list = 1 .. Len(list) /\ 1 \in DOMAIN list
  BY TailSteps
<1>2. 1 = Len(list)
  BY <1>1 DEF ListOK, Registers
<1>3. DOMAIN list = {1}
  <2>1. DOMAIN list = 1 .. 1
    BY <1>1, <1>2, Zenon
  <2> QED
    BY <2>1
<1>4. Tail(list) \in Seq(ToDo) /\ Len(Tail(list)) = 0
  BY <1>2, TailSteps
<1>5. Tail(list) = <<>>
  BY <1>4, EmptySeq
<1> QED
  BY <1>3, <1>5 DEF About, ToFree

\* A client or service is registered with both its ends there, or they are
\* destroyed again (rmw_service.cpp, rmw_create_client and rmw_create_service).
LEMMA RegisterInv ==
  ASSUME IInv, NEW t \in Threads, NEW p \in Pairs, Register(t, p)
  PROVE  IInv'
<1>1. PICK list \in Seq(ToDo) : todo[t] = list
  BY DEF IInv, TypeOK
<1>2. At(t, "register", p)
  BY DEF Register
<1>3. /\ list # <<>> /\ ListOK(list) /\ list[1].do = "register" /\ list[1].on = p
      /\ list[1].node \in Nodes /\ Next1(t) = list[1] /\ StepFits(list, 1)
      /\ 1 \in DOMAIN list /\ Alone(t, About(list))
  BY <1>1, <1>2, GoingPair
<1>4. /\ DOMAIN list = {1} /\ Tail(list) = <<>>
      /\ About(list) = Concerns(p) /\ \A x : ~ToFree(list, x)
  BY <1>3, OnlyStep
<1>5. /\ First[p] \in Endpoints /\ Second[p] \in Endpoints /\ First[p] # Second[p]
      /\ Concerns(p) = {First[p], Second[p]} /\ p \notin Endpoints
  BY PairEnds, EndpointConstants
<1>n. PICK n \in Nodes : n = list[1].node /\ n = Next1(t).node
  BY <1>3
<1>6. \A x \in Concerns(p) : x \in registered /\ owner[x] = n
  <2>1. \A x \in Concerns(p) : x # p /\ ~Mentions(list, x)
    BY <1>3, <1>4, <1>5 DEF Mentions
  <2> QED
    BY <1>3, <1>n, <2>1 DEF StepFits
<1>7. up
  BY <1>1, <1>3 DEF IInv, OwnersThere
<1>8. UNCHANGED <<up, shutdown, nodes, parts, owner, listening, active>>
  BY DEF Register, contextVars, endpointVars
<1>9. CASE registered' = registered \cup {p} /\ held' = held \cup {p} /\ Done(t)
  <2>1. todo' = [todo EXCEPT ![t] = <<>>]
    BY <1>1, <1>4, <1>9 DEF Done
  <2>2. /\ registered' \subseteq Endpoints \cup Pairs
        /\ registered' \cap Endpoints = registered \cap Endpoints
    BY <1>5, <1>9 DEF IInv, TypeOK
  <2>3. HandsOver(t, <<>>, About(list), held, {p})
    <3>1. \A x \in Endpoints : Same(x)
      BY <1>8, <2>2 DEF Same
    <3>2. Concerns(p) \subseteq registered' /\ \A x, y \in Concerns(p) : owner'[x] = owner'[y]
      BY <1>6, <1>8, <1>9
    <3> QED
      BY <1>1, <1>3, <1>4, <3>1, <3>2, NoSteps DEF HandsOver, Alone
  <2>4. /\ <<>> \in Seq(ToDo) /\ ListOK(<<>>) /\ Fits(<<>>)' /\ DOMAIN <<>> = {}
        /\ \A x \in Endpoints : ToFree(<<>>, x) <=> ToFree(todo[t], x)
    BY <1>1, <1>4, NoSteps
  <2>5. \A i \in DOMAIN <<>> : <<>>[i].do # "release" => up
    BY <1>7
  <2>6. {p} \subseteq Pairs /\ held \subseteq held
    OBVIOUS
  <2> QED
    BY <1>8, <1>9, <2>1, <2>2, <2>3, <2>4, <2>5, <2>6, PairKeeps
<1>10. CASE /\ todo' = [todo EXCEPT ![t] = DestroyingEnds(p, n)]
            /\ UNCHANGED <<registered, held>>
  <2> DEFINE ends == DestroyingEnds(p, n)
  <2>1. /\ ends \in Seq(ToDo) /\ DOMAIN ends = 1 .. 8 /\ ListOK(ends)
        /\ \A i \in 1 .. 4 : ends[i] = Destroying(Second[p], n)[i]
        /\ \A i \in 1 .. 4 : ends[4 + i] = Destroying(First[p], n)[i]
    BY DestroyingBothOK
  <2>2. /\ Fits(Destroying(Second[p], n)) /\ About(Destroying(Second[p], n)) = {Second[p]}
        /\ Fits(Destroying(First[p], n)) /\ About(Destroying(First[p], n)) = {First[p]}
    BY <1>5, <1>6, DestroyingFits
  <2>3. /\ \A i \in 1 .. 4 : Destroying(Second[p], n)[i].on = Second[p]
        /\ \A i \in 1 .. 4 : Destroying(First[p], n)[i].on = First[p]
    <3>1. ASSUME NEW x \in Endpoints
          PROVE  \A i \in 1 .. 4 : Destroying(x, n)[i].on = x
      <4>1. \A i \in 1 .. 4 : i = 1 \/ i = 2 \/ i = 3 \/ i = 4
        OBVIOUS
      <4> DEFINE l == Destroying(x, n)
      <4>2. /\ l[1] = [do |-> "detach", on |-> x, node |-> n]
            /\ l[2] = [do |-> "unlisten", on |-> x, node |-> n]
            /\ l[3] = [do |-> "delete", on |-> x, node |-> n]
            /\ l[4] = [do |-> "free", on |-> x, node |-> n]
        BY DestroyingList
      <4> HIDE DEF l
      <4>3. \A i \in 1 .. 4 : l[i].on = x
        BY <4>1, <4>2
      <4> QED
        BY <4>3 DEF l
    <3> QED
      BY <1>5, <3>1
  <2> HIDE DEF ends
  <2>4. \A i \in 1 .. 8 : \/ i \in 1 .. 4
                          \/ \E j \in 1 .. 4 : i = 4 + j
    <3>1. \A i \in 1 .. 8 : i \in 1 .. 4 \/ (i - 4 \in 1 .. 4 /\ i = 4 + (i - 4))
      OBVIOUS
    <3> QED
      BY <3>1
  <2>5. Fits(ends)
    <3>0. /\ \A x \in Endpoints :
               /\ Destroying(x, n)[1] = [do |-> "detach", on |-> x, node |-> n]
               /\ Destroying(x, n)[2] = [do |-> "unlisten", on |-> x, node |-> n]
               /\ Destroying(x, n)[3] = [do |-> "delete", on |-> x, node |-> n]
               /\ Destroying(x, n)[4] = [do |-> "free", on |-> x, node |-> n]
          /\ 1 \in 1 .. 4 /\ 2 \in 1 .. 4 /\ 3 \in 1 .. 4 /\ 4 \in 1 .. 4
      BY DestroyingList
    <3>1. /\ ends[1] = [do |-> "detach", on |-> Second[p], node |-> n]
          /\ ends[2] = [do |-> "unlisten", on |-> Second[p], node |-> n]
          /\ ends[3] = [do |-> "delete", on |-> Second[p], node |-> n]
          /\ ends[4] = [do |-> "free", on |-> Second[p], node |-> n]
      BY <1>5, <2>1, <3>0, Zenon
    <3>2. /\ ends[4 + 1] = [do |-> "detach", on |-> First[p], node |-> n]
          /\ ends[4 + 2] = [do |-> "unlisten", on |-> First[p], node |-> n]
          /\ ends[4 + 3] = [do |-> "delete", on |-> First[p], node |-> n]
          /\ ends[4 + 4] = [do |-> "free", on |-> First[p], node |-> n]
      BY <1>5, <2>1, <3>0, Zenon
    <3>3. \A i \in 1 .. 8 : i = 1 \/ i = 2 \/ i = 3 \/ i = 4
                            \/ i = 4 + 1 \/ i = 4 + 2 \/ i = 4 + 3 \/ i = 4 + 4
      OBVIOUS
    <3>4. \A i \in 1 .. 8 : StepFits(ends, i)
      BY <1>5, <1>6, <3>1, <3>2, <3>3 DEF StepFits, CreatingSteps
    <3> QED
      BY <2>1, <3>4 DEF Fits
  <2>6. About(ends) = Concerns(p)
    <3>1. \A i \in 1 .. 8 : Concerns(ends[i].on) \subseteq Concerns(p)
      BY <1>5, <2>1, <2>3, <2>4, ConcernsOf
    <3>2. 1 \in 1 .. 8 /\ 4 + 1 \in 1 .. 8 /\ 1 \in 1 .. 4
      OBVIOUS
    <3>3. Second[p] \in Concerns(ends[1].on) /\ First[p] \in Concerns(ends[4 + 1].on)
      BY <1>5, <2>1, <2>3, <3>2, ConcernsOf
    <3>4. Second[p] \in About(ends) /\ First[p] \in About(ends)
      BY <2>1, <3>2, <3>3 DEF About
    <3>5. About(ends) \subseteq Concerns(p)
      BY <2>1, <3>1 DEF About
    <3> QED
      BY <1>5, <3>4, <3>5
  <2>7. \A x \in Endpoints : x \in registered \/ (ToFree(ends, x) <=> ToFree(todo[t], x))
    <3>1. ASSUME NEW x \in Endpoints, x \notin registered
          PROVE  ~ToFree(ends, x)
      <4>1. ToFree(ends, x) => x \in About(ends)
        BY <2>1, <3>1, AboutList DEF ToFree
      <4> QED
        BY <1>6, <2>6, <3>1, <4>1
    <3> QED
      BY <1>1, <1>4, <3>1
  <2>8. HandsOver(t, ends, About(list), held, {})
    <3>1. \A x : Same(x)
      BY <1>8, <1>10 DEF Same
    <3> QED
      BY <1>1, <1>3, <1>4, <2>6, <3>1 DEF HandsOver, Alone
  <2>9. todo' = [todo EXCEPT ![t] = ends]
    BY <1>10 DEF ends
  <2>10. /\ UNCHANGED <<up, nodes, parts, owner, listening, registered, active>>
         /\ shutdown' = shutdown /\ held' = held /\ held \subseteq held
    BY <1>8, <1>10
  <2> QED
    BY <1>7, <2>1, <2>5, <2>7, <2>8, <2>9, <2>10, ListReplaced
<1> QED
  BY <1>n, <1>9, <1>10 DEF Register, DestroyingEnds

\* A client or service leaves the context's sets before its ends do
\* (rmw_service.cpp, rmw_destroy_client and rmw_destroy_service).
LEMMA UnregisterInv ==
  ASSUME IInv, NEW t \in Threads, NEW p \in Pairs, Unregister(t, p)
  PROVE  IInv'
<1>1. PICK list \in Seq(ToDo) : todo[t] = list
  BY DEF IInv, TypeOK
<1>2. At(t, "unregister", p)
  BY DEF Unregister
<1>3. /\ list # <<>> /\ ListOK(list) /\ Fits(list) /\ Tail(list) \in Seq(ToDo)
      /\ list[1].do = "unregister" /\ list[1].on = p /\ 1 \in DOMAIN list
      /\ Alone(t, About(list))
  BY <1>1, <1>2, GoingPair
<1>4. /\ registered' = registered \ {p} /\ held' = held
      /\ UNCHANGED <<up, shutdown, nodes, parts, owner, listening, active>>
      /\ todo' = [todo EXCEPT ![t] = Tail(list)]
  BY <1>1 DEF Unregister, Done, contextVars, endpointVars
<1>5. up
  BY <1>1, <1>3 DEF IInv, OwnersThere
<1>6. p \notin Endpoints
  BY ConcernsOf
<1>7. \A x \in Endpoints : Same(x)
  BY <1>4, <1>6 DEF Same
<1>r. PICK rest \in Seq(ToDo) : rest = Tail(list)
  BY <1>3
<1> DEFINE m == Len(list)
<1>8. /\ m \in Nat \ {0} /\ DOMAIN list = 1 .. m /\ DOMAIN rest = 1 .. m - 1
      /\ \A i \in DOMAIN rest : i + 1 \in DOMAIN list /\ rest[i] = list[i + 1]
  BY <1>3, <1>r, TailSteps
<1>9. 2 \in DOMAIN list /\ list[2].do = "detach" /\ list[m].do = "release" /\ list[m].on = p
  BY <1>3 DEF ListOK, Registers
<1>10. rest \in Seq(ToDo) /\ ListOK(rest)
  BY <1>3, <1>r, TailOK
<1>11. \A x : ToFree(list, x) <=> ToFree(rest, x)
  BY <1>3, <1>r, RestToFree
<1> HIDE DEF m
<1>12. ASSUME NEW x \in Endpoints, Mentions(list, x)
       PROVE  Mentions(rest, x)
  <2>1. PICK j \in DOMAIN list : list[j].on = x
    BY <1>12 DEF Mentions
  <2>2. j # 1
    BY <1>3, <1>6, <1>12, <2>1
  <2>3. j - 1 \in DOMAIN rest /\ (j - 1) + 1 = j
    BY <1>8, <2>1, <2>2
  <2>4. rest[j - 1] = list[j]
    BY <1>8, <2>3
  <2> QED
    BY <2>1, <2>3, <2>4 DEF Mentions
<1>13. ASSUME NEW i \in DOMAIN rest
       PROVE  StepFits(rest, i)
  <2>1. i + 1 \in DOMAIN list /\ rest[i] = list[i + 1] /\ i \in Nat
    BY <1>8
  <2>2. StepFits(list, i + 1) /\ list[i + 1] \in ToDo
    BY <1>3, <2>1, AboutList DEF Fits
  <2>3. i = 1 => rest[i].do = "detach"
    <3>1. i = 1 => i + 1 = 2
      OBVIOUS
    <3> QED
      BY <1>9, <2>1, <3>1, Zenon
  <2>4. Concerns(list[i + 1].on) \subseteq Endpoints
    BY <2>2, ConcernsOf
  <2>5. \A x \in Concerns(list[i + 1].on) : Mentions(list, x) => Mentions(rest, x)
    BY <1>12, <2>4
  <2> HIDE DEF StepFits
  <2> DEFINE step == list[i + 1]
  <2>6. step = list[i + 1] /\ rest[i] = step
    BY <2>1
  <2> HIDE DEF step
  <2>7. /\ step.do \in CreatingSteps => step.node \in nodes
        /\ step.do = "begin" => Fresh(step.on)
        /\ step.do = "undo" =>
             /\ step.on \notin registered
             /\ \E k \in 0 .. Len(Order(step.on)) : parts[step.on] = PartsUpTo(step.on, k)
        /\ step.do = "detach" => step.on \in registered /\ owner[step.on] = step.node
        /\ step.do = "register" =>
             \A x \in Concerns(step.on) : Mentions(rest, x) \/ (x \in registered /\ owner[x] = step.node)
        /\ step.do = "release" =>
             \A x \in Concerns(step.on) : Mentions(rest, x) \/ Fresh(x)
    BY <2>2, <2>5, <2>6 DEF StepFits
  <2>8. i = 1 => step.do = "detach"
    BY <2>3, <2>6
  <2> QED
    BY <2>6, <2>7, <2>8 DEF StepFits
<1>14. Fits(rest)'
  <2>1. \A x \in About(rest) : Same(x)
    BY <1>7, <1>10, AboutList
  <2>2. Fits(rest)
    BY <1>13 DEF Fits
  <2>3. nodes' = nodes
    BY <1>4
  <2> QED
    BY <1>10, <2>1, <2>2, <2>3, ListStillFits
<1>15. About(rest) = About(list)
  <2>1. \A i \in DOMAIN rest : Concerns(rest[i].on) \subseteq About(list)
    BY <1>8, AboutList
  <2>2. About(rest) \subseteq About(list)
    BY <2>1 DEF About
  <2>3. m - 1 \in DOMAIN rest /\ (m - 1) + 1 = m
    BY <1>8, <1>9
  <2>4. rest[m - 1].on = p
    BY <1>8, <1>9, <2>3, Zenon
  <2>5. Concerns(p) \subseteq About(rest)
    BY <1>10, <2>3, <2>4, AboutList
  <2>6. ASSUME NEW j \in DOMAIN list
        PROVE  Concerns(list[j].on) \subseteq About(rest)
    <3>1. CASE j = 1
      BY <1>3, <2>5, <3>1
    <3>2. CASE j # 1
      <4>1. j - 1 \in DOMAIN rest /\ (j - 1) + 1 = j
        BY <1>8, <3>2
      <4>2. rest[j - 1] = list[j]
        BY <1>8, <4>1
      <4> QED
        BY <1>10, <4>1, <4>2, AboutList
    <3> QED
      BY <3>1, <3>2
  <2>7. About(list) \subseteq About(rest)
    BY <2>6 DEF About
  <2> QED
    BY <2>2, <2>7
<1>16. HandsOver(t, rest, About(list), held, {})
  BY <1>1, <1>3, <1>7, <1>15 DEF HandsOver, Alone
<1>17. /\ registered' \subseteq Endpoints \cup Pairs
       /\ registered' \cap Endpoints = registered \cap Endpoints
       /\ held' = held \cup {} /\ held \subseteq held /\ {} \subseteq Pairs
  BY <1>4, <1>6 DEF IInv, TypeOK
<1>18. /\ todo' = [todo EXCEPT ![t] = rest]
       /\ \A x \in Endpoints : ToFree(rest, x) <=> ToFree(todo[t], x)
  BY <1>1, <1>4, <1>11, <1>r
<1>19. \A i \in DOMAIN rest : rest[i].do # "release" => up
  BY <1>5
<1>20. UNCHANGED <<up, shutdown, nodes, parts, owner, listening, active>>
  BY <1>4
<1>21. \A x \in Endpoints : x \in registered \/ (ToFree(rest, x) <=> ToFree(todo[t], x))
  BY <1>18
<1> QED
  <2>1. PICK new \in SUBSET Pairs : new = {}
    OBVIOUS
  <2>2. HandsOver(t, rest, About(list), held, new) /\ held' = held \cup new
    BY <1>16, <1>17, <2>1
  <2>3. rest \in Seq(ToDo) /\ ListOK(rest) /\ new \subseteq Pairs /\ held \subseteq held
    BY <1>10
  <2> QED
    BY <1>14, <1>17, <1>18, <1>19, <1>20, <1>21, <2>2, <2>3, PairKeeps

\* The memory of a client or service is the last of it
\* (rmw_service.cpp, rmw_destroy_client and rmw_destroy_service).
LEMMA ReleaseInv ==
  ASSUME IInv, NEW t \in Threads, NEW p \in Pairs, Release(t, p)
  PROVE  IInv'
<1>1. PICK list \in Seq(ToDo) : todo[t] = list
  BY DEF IInv, TypeOK
<1>2. At(t, "release", p)
  BY DEF Release
<1>3. /\ list # <<>> /\ ListOK(list) /\ list[1].do = "release" /\ list[1].on = p
      /\ StepFits(list, 1) /\ Alone(t, About(list))
  BY <1>1, <1>2, GoingPair
<1>4. /\ DOMAIN list = {1} /\ Tail(list) = <<>>
      /\ About(list) = Concerns(p) /\ \A x : ~ToFree(list, x)
  BY <1>3, OnlyStep
<1>5. Concerns(p) \subseteq Endpoints /\ p \notin Endpoints
  BY ConcernsOf
<1>6. \A x \in Concerns(p) : Fresh(x)
  <2>1. \A x \in Concerns(p) : ~Mentions(list, x)
    BY <1>3, <1>4, <1>5 DEF Mentions
  <2> QED
    BY <1>3, <2>1 DEF StepFits
<1>7. /\ UNCHANGED <<up, nodes, parts, owner, listening, registered, active>>
      /\ shutdown' = shutdown /\ held' = held /\ held \subseteq held
      /\ todo' = [todo EXCEPT ![t] = <<>>]
  BY <1>1, <1>4 DEF Release, Done, contextVars, endpointVars, graphVars
<1>8. HandsOver(t, <<>>, About(list), held, {})
  <2>1. \A x : Same(x)
    BY <1>7 DEF Same
  <2>2. \A x \in Concerns(p) : Fresh(x)'
    BY <1>6, <1>7 DEF Fresh
  <2> QED
    BY <1>1, <1>3, <1>4, <2>1, <2>2, NoSteps DEF HandsOver, Alone
<1>9. /\ <<>> \in Seq(ToDo) /\ ListOK(<<>>) /\ Fits(<<>>)
      /\ \A x \in Endpoints : ToFree(<<>>, x) <=> ToFree(todo[t], x)
      /\ \A i \in DOMAIN <<>> : <<>>[i].do # "release" => up
  BY <1>1, <1>4, NoSteps
<1> QED
  BY <1>7, <1>8, <1>9, ListReplaced

\* What no call works on and the application has not been given is not there.
LEMMA NobodysIsFresh ==
  ASSUME TypeOK, RestIsFresh, NEW e \in Endpoints, e \notin Busy \cup Given
  PROVE  /\ Fresh(e)
         /\ \A u \in Threads : e \notin About(todo[u])
         /\ \A h \in held : e \notin Concerns(h)
<1>1. \A u \in Threads : e \notin About(todo[u])
  BY DEF Busy, About
<1>2. \A h \in held : e \notin Concerns(h)
  BY DEF Given
<1> QED
  BY <1>1, <1>2 DEF RestIsFresh

\* A call takes the endpoints of its list: from the application, but for what
\* this keeps, or from nobody.
Takes(t, list, kept) ==
  /\ \A u \in Threads \ {t}, x \in About(list) : x \notin About(todo[u])
  /\ \A h \in kept, x \in About(list) : x \notin Concerns(h)
  /\ \A h \in held \ kept : Concerns(h) \subseteq About(list)
  /\ \A x \in Endpoints : x \in registered \/ ~ToFree(list, x)

\* A thread that is idle makes a call.
LEMMA CallKeeps ==
  ASSUME IInv, NEW t \in Threads, NEW list \in Seq(ToDo), NEW kept, kept \subseteq held, up,
         ListOK(list), Fits(list), Takes(t, list, kept), Call(t, list), held' = kept
  PROVE  IInv'
<1>1. todo[t] = <<>> /\ todo' = [todo EXCEPT ![t] = list]
  BY DEF Call, Idle
<1>2. /\ UNCHANGED <<up, nodes, parts, owner, listening, registered, active>>
      /\ shutdown' = shutdown
  BY DEF Call, contextVars, endpointVars, graphVars
<1>3. About(todo[t]) = {} /\ \A x : ~ToFree(todo[t], x)
  BY <1>1, NoSteps
<1>4. HandsOver(t, list, About(list), kept, {})
  <2>1. \A x : Same(x)
    BY <1>2 DEF Same
  <2> QED
    BY <1>3, <2>1 DEF HandsOver, Takes
<1>5. \A x \in Endpoints : x \in registered \/ (ToFree(list, x) <=> ToFree(todo[t], x))
  BY <1>3 DEF Takes
<1> QED
  BY <1>1, <1>2, <1>4, <1>5, ListReplaced

\* A creation begins with nothing there (rmw_data_plane.cpp,
\* rmw_create_publisher and rmw_create_subscription).
LEMMA CreateEndpointInv ==
  ASSUME IInv, NEW t \in Threads, NEW e \in Endpoints, NEW n \in Nodes, CreateEndpoint(t, e, n)
  PROVE  IInv'
<1>1. n \in nodes /\ Call(t, Creating(e, n)) /\ held' = held /\ e \notin Busy \cup Given
  BY DEF CreateEndpoint
<1>2. /\ Fresh(e) /\ \A u \in Threads : e \notin About(todo[u])
      /\ \A h \in held : e \notin Concerns(h)
  BY <1>1, NobodysIsFresh DEF IInv
<1>3. up
  BY <1>1 DEF IInv, OwnersThere
<1>4. PICK list \in Seq(ToDo) : list = Creating(e, n)
  BY CreatingList
<1>5. /\ Len(list) = 3
      /\ list[1] = [do |-> "begin", on |-> e, node |-> n]
      /\ list[2] = [do |-> "make", on |-> e, node |-> n]
      /\ list[3] = [do |-> "announce", on |-> e, node |-> n]
  BY <1>4, CreatingList
<1>6. DOMAIN list = 1 .. 3 /\ \A i \in 1 .. 3 : i = 1 \/ i = 2 \/ i = 3
  BY <1>5, LenProperties
<1>7. ListOK(list)
  BY <1>4, CreatingOK
<1>8. Fits(list)
  <2>1. \A i \in 1 .. 3 : StepFits(list, i)
    BY <1>1, <1>2, <1>5, <1>6 DEF StepFits, CreatingSteps
  <2> QED
    BY <1>6, <2>1 DEF Fits
<1>9. About(list) = {e}
  BY <1>5, <1>6, ConcernsOf DEF About
<1>10. \A x : ~ToFree(list, x)
  BY <1>5, <1>6 DEF ToFree
<1>11. Takes(t, list, held)
  BY <1>2, <1>9, <1>10 DEF Takes
<1> QED
  BY <1>1, <1>3, <1>4, <1>7, <1>8, <1>11, CallKeeps

\* So do those of both ends (rmw_service.cpp, rmw_create_client and
\* rmw_create_service).
LEMMA CreatePairInv ==
  ASSUME IInv, NEW t \in Threads, NEW p \in Pairs, NEW n \in Nodes, CreatePair(t, p, n)
  PROVE  IInv'
<1>1. /\ n \in nodes /\ Call(t, CreatingEnds(p, n)) /\ held' = held
      /\ Concerns(p) \cap (Busy \cup Given) = {}
  BY DEF CreatePair, CreatingEnds
<1>2. /\ First[p] \in Endpoints /\ Second[p] \in Endpoints /\ First[p] # Second[p]
      /\ Concerns(p) = {First[p], Second[p]} /\ p \notin Endpoints
  BY PairEnds, EndpointConstants
<1>3. \A x \in Concerns(p) :
        /\ Fresh(x) /\ \A u \in Threads : x \notin About(todo[u])
        /\ \A h \in held : x \notin Concerns(h)
  BY <1>1, <1>2, NobodysIsFresh DEF IInv
<1>4. up
  BY <1>1 DEF IInv, OwnersThere
<1>5. PICK list \in Seq(ToDo) : list = CreatingEnds(p, n)
  BY CreatingBoth
<1>6. /\ DOMAIN list = 1 .. 7
      /\ list[1] = [do |-> "begin", on |-> First[p], node |-> n]
      /\ list[2] = [do |-> "make", on |-> First[p], node |-> n]
      /\ list[3] = [do |-> "announce", on |-> First[p], node |-> n]
      /\ list[4] = [do |-> "begin", on |-> Second[p], node |-> n]
      /\ list[5] = [do |-> "make", on |-> Second[p], node |-> n]
      /\ list[6] = [do |-> "announce", on |-> Second[p], node |-> n]
      /\ list[7] = [do |-> "register", on |-> p, node |-> n]
  BY <1>5, CreatingBoth
<1>7. /\ \A i \in 1 .. 7 : i = 1 \/ i = 2 \/ i = 3 \/ i = 4 \/ i = 5 \/ i = 6 \/ i = 7
      /\ 1 \in 1 .. 7 /\ 4 \in 1 .. 7 /\ 7 \in 1 .. 7
  OBVIOUS
<1>8. ListOK(list)
  BY <1>5, CreatingBothOK
<1>9. Fits(list)
  <2>1. Mentions(list, First[p]) /\ Mentions(list, Second[p])
    BY <1>6, <1>7 DEF Mentions
  <2>2. StepFits(list, 1) /\ StepFits(list, 4)
    BY <1>1, <1>2, <1>3, <1>6 DEF StepFits, CreatingSteps
  <2>3. StepFits(list, 2) /\ StepFits(list, 3) /\ StepFits(list, 5) /\ StepFits(list, 6)
    BY <1>1, <1>6 DEF StepFits, CreatingSteps
  <2>4. StepFits(list, 7)
    BY <1>1, <1>2, <1>6, <2>1 DEF StepFits, CreatingSteps
  <2> QED
    BY <1>6, <1>7, <2>2, <2>3, <2>4, Zenon DEF Fits
<1>10. About(list) = Concerns(p)
  <2>1. \A i \in 1 .. 7 : Concerns(list[i].on) \subseteq Concerns(p)
    BY <1>2, <1>6, <1>7, ConcernsOf
  <2>2. Concerns(list[7].on) = Concerns(p)
    BY <1>6
  <2> QED
    BY <1>6, <1>7, <2>1, <2>2 DEF About
<1>11. \A x : ~ToFree(list, x)
  BY <1>6, <1>7 DEF ToFree
<1>12. Takes(t, list, held)
  BY <1>3, <1>10, <1>11 DEF Takes
<1> QED
  BY <1>1, <1>4, <1>5, <1>8, <1>9, <1>12, CallKeeps

\* A destruction begins with an endpoint that is registered (rmw_data_plane.cpp,
\* rmw_destroy_publisher and rmw_destroy_subscription).
LEMMA DestroyEndpointInv ==
  ASSUME IInv, NEW t \in Threads, NEW e \in Endpoints, DestroyEndpoint(t, e)
  PROVE  IInv'
<1>1. e \in held /\ Call(t, Destroying(e, owner[e])) /\ held' = held \ {e}
  BY DEF DestroyEndpoint
<1>2. Concerns(e) = {e}
  BY ConcernsOf
<1>3. e \in registered
  BY <1>1, <1>2 DEF IInv, HeldAreLive
<1>4. PICK n \in Nodes : owner[e] = n /\ up
  BY <1>3 DEF IInv, OwnersThere, TypeOK
<1>5. PICK list \in Seq(ToDo) : list = Destroying(e, n)
  BY DestroyingList
<1>6. /\ ListOK(list) /\ Fits(list) /\ About(list) = {e}
      /\ \A x : ToFree(list, x) <=> x = e
  BY <1>3, <1>4, <1>5, DestroyingOK, DestroyingFits
<1>7. Takes(t, list, held \ {e})
  <2>1. \A u \in Threads : e \notin About(todo[u])
    BY <1>1, <1>2 DEF IInv, Exclusive
  <2>2. \A h \in held \ {e} : e \notin Concerns(h)
    BY <1>1, <1>2 DEF IInv, Exclusive
  <2>3. \A h \in held \ (held \ {e}) : h = e
    OBVIOUS
  <2> QED
    BY <1>2, <1>3, <1>6, <2>1, <2>2, <2>3 DEF Takes
<1>8. held \ {e} \subseteq held /\ Call(t, list)
  BY <1>1, <1>4, <1>5
<1> QED
  BY <1>1, <1>4, <1>6, <1>7, <1>8, CallKeeps

\* Or with a client or service whose ends both are (rmw_service.cpp,
\* rmw_destroy_client and rmw_destroy_service).
LEMMA DestroyPairInv ==
  ASSUME IInv, NEW t \in Threads, NEW p \in Pairs, DestroyPair(t, p)
  PROVE  IInv'
<1>1. p \in held /\ Call(t, DestroyingAll(p, owner[First[p]])) /\ held' = held \ {p}
  BY DEF DestroyPair, DestroyingAll
<1>2. /\ First[p] \in Endpoints /\ Second[p] \in Endpoints /\ First[p] # Second[p]
      /\ Concerns(p) = {First[p], Second[p]} /\ p \notin Endpoints
  BY PairEnds, EndpointConstants
<1>3. /\ First[p] \in registered /\ Second[p] \in registered
      /\ owner[First[p]] = owner[Second[p]]
  BY <1>1, <1>2 DEF IInv, HeldAreLive
<1>4. PICK n \in Nodes : owner[First[p]] = n /\ up
  BY <1>2, <1>3 DEF IInv, OwnersThere, TypeOK
<1>5. PICK list \in Seq(ToDo) : list = DestroyingAll(p, n)
  BY DestroyingWhole
<1>6. /\ DOMAIN list = 1 .. 10
      /\ list[1] = [do |-> "unregister", on |-> p, node |-> n]
      /\ list[2] = [do |-> "detach", on |-> Second[p], node |-> n]
      /\ list[3] = [do |-> "unlisten", on |-> Second[p], node |-> n]
      /\ list[4] = [do |-> "delete", on |-> Second[p], node |-> n]
      /\ list[5] = [do |-> "free", on |-> Second[p], node |-> n]
      /\ list[6] = [do |-> "detach", on |-> First[p], node |-> n]
      /\ list[7] = [do |-> "unlisten", on |-> First[p], node |-> n]
      /\ list[8] = [do |-> "delete", on |-> First[p], node |-> n]
      /\ list[9] = [do |-> "free", on |-> First[p], node |-> n]
      /\ list[10] = [do |-> "release", on |-> p, node |-> n]
  BY <1>5, DestroyingWhole
<1>7. /\ \A i \in 1 .. 10 : \/ i = 1 \/ i = 2 \/ i = 3 \/ i = 4 \/ i = 5
                            \/ i = 6 \/ i = 7 \/ i = 8 \/ i = 9 \/ i = 10
      /\ 1 \in 1 .. 10 /\ 2 \in 1 .. 10 /\ 6 \in 1 .. 10
  OBVIOUS
<1>8. ListOK(list)
  BY <1>5, DestroyingWholeOK
<1>9. Fits(list)
  <2>1. Mentions(list, First[p]) /\ Mentions(list, Second[p])
    BY <1>6, <1>7 DEF Mentions
  <2>2. StepFits(list, 1) /\ StepFits(list, 2) /\ StepFits(list, 6)
    <3>1. StepFits(list, 1)
      BY <1>6 DEF StepFits, CreatingSteps
    <3>2. Second[p] \in registered /\ owner[Second[p]] = n
      BY <1>3, <1>4
    <3>3. StepFits(list, 2)
      BY <1>6, <3>2 DEF StepFits, CreatingSteps
    <3>4. StepFits(list, 6)
      BY <1>3, <1>4, <1>6 DEF StepFits, CreatingSteps
    <3> QED
      BY <3>1, <3>3, <3>4
  <2>3. StepFits(list, 3) /\ StepFits(list, 4) /\ StepFits(list, 5)
    BY <1>6 DEF StepFits, CreatingSteps
  <2>4. StepFits(list, 7) /\ StepFits(list, 8) /\ StepFits(list, 9)
    BY <1>6 DEF StepFits, CreatingSteps
  <2>5. StepFits(list, 10)
    BY <1>2, <1>6, <2>1 DEF StepFits, CreatingSteps
  <2> QED
    BY <1>6, <1>7, <2>2, <2>3, <2>4, <2>5, Zenon DEF Fits
<1>10. About(list) = Concerns(p)
  <2>1. \A i \in 1 .. 10 : Concerns(list[i].on) \subseteq Concerns(p)
    BY <1>2, <1>6, <1>7, ConcernsOf
  <2>2. Concerns(list[1].on) = Concerns(p)
    BY <1>6
  <2> QED
    BY <1>6, <1>7, <2>1, <2>2 DEF About
<1>11. \A x \in Endpoints : x \in registered \/ ~ToFree(list, x)
  <2>1. \A i \in 1 .. 10 : list[i].do = "free" => list[i].on \in registered
    BY <1>3, <1>6, <1>7
  <2> QED
    BY <1>6, <2>1 DEF ToFree
<1>12. Takes(t, list, held \ {p})
  <2>1. \A u \in Threads, x \in Concerns(p) : x \notin About(todo[u])
    BY <1>1 DEF IInv, Exclusive
  <2>2. \A h \in held \ {p}, x \in Concerns(p) : x \notin Concerns(h)
    BY <1>1 DEF IInv, Exclusive
  <2>3. \A h \in held \ (held \ {p}) : h = p
    OBVIOUS
  <2> QED
    BY <1>10, <1>11, <2>1, <2>2, <2>3 DEF Takes
<1>13. held \ {p} \subseteq held /\ Call(t, list)
  BY <1>1, <1>4, <1>5
<1> QED
  BY <1>1, <1>4, <1>8, <1>9, <1>12, <1>13, CallKeeps

\* A node goes only when nothing is created on it and it owns nothing
\* (rmw_init.cpp, node_owns_entities).
LEMMA DestroyNodeInv ==
  ASSUME IInv, NEW t \in Threads, NEW n \in Nodes, DestroyNode(t, n)
  PROVE  IInv'
<1>1. /\ n \in nodes /\ nodes' = nodes \ {n} /\ active' = active - 1
      /\ ~CreatingOn(n) /\ ~NodeOwnsEntities(n)
      /\ UNCHANGED <<up, shutdown, parts, owner, listening, registered, held, todo>>
  BY DEF DestroyNode, endpointVars, graphVars
<1>2. TypeOK'
  BY <1>1 DEF IInv, TypeOK
<1>3. \A l : ListOK(l)' = ListOK(l) /\ About(l)' = About(l)
  BY DEF ListOK, Carried, Entered, Registers, Precedes, About, Concerns
<1>4. ListsOK'
  BY <1>1, <1>3 DEF IInv, ListsOK
<1>5. Exclusive'
  <2>1. \A x : Concerns(x)' = Concerns(x)
    BY DEF Concerns
  <2> QED
    BY <1>1, <1>3, <2>1 DEF IInv, Exclusive
<1>6. HeldAreLive' /\ RestIsFresh' /\ ListenersHaveImpl'
  BY <1>1, <1>3 DEF IInv, HeldAreLive, RestIsFresh, ListenersHaveImpl, Fresh, Concerns
<1>7. StepsFit'
  <2> SUFFICES ASSUME NEW u \in Threads
               PROVE  Fits(todo[u])'
    BY DEF StepsFit
  <2>1. PICK l \in Seq(ToDo) : todo[u] = l
    BY DEF IInv, TypeOK
  <2>2. ASSUME NEW i \in DOMAIN l
        PROVE  StepFits(l, i)'
    <3>1. StepFits(l, i)
      BY <2>1 DEF IInv, StepsFit, Fits
    <3>2. l[i].do \in CreatingSteps => l[i].node # n
      BY <1>1, <2>1 DEF CreatingOn, CreatingSteps
    <3>3. l[i].do \in CreatingSteps => l[i].node \in nodes'
      BY <1>1, <3>1, <3>2 DEF StepFits
    <3>4. \A x, k : PartsUpTo(x, k)' = PartsUpTo(x, k) /\ Order(x)' = Order(x)
      BY DEF PartsUpTo, Order
    <3>5. \A x : Fresh(x)' = Fresh(x) /\ Mentions(l, x)' = Mentions(l, x) /\ Concerns(x)' = Concerns(x)
      BY <1>1 DEF Fresh, Mentions, Concerns
    <3> QED
      BY <1>1, <3>1, <3>3, <3>4, <3>5 DEF StepFits
  <2>3. Fits(l)'
    BY <2>2 DEF Fits
  <2>4. todo'[u] = l
    BY <1>1, <2>1
  <2> QED
    BY <2>3, <2>4
<1>8. OwnersThere'
  <2>1. \A x \in registered \cap Endpoints : owner[x] \in nodes \ {n}
    BY <1>1, ConcernsOf DEF IInv, OwnersThere, NodeOwnsEntities
  <2> QED
    BY <1>1, <2>1 DEF IInv, OwnersThere
<1>9. CountIsExact'
  <2>1. Cardinality(nodes \ {n}) = Cardinality(nodes) - 1
    BY <1>1, CountedIsFinite, FS_RemoveElement DEF IInv
  <2>2. Counted' = Counted
    BY <1>1 DEF Counted, ToFree
  <2>3. Cardinality(nodes) \in Nat /\ Cardinality(Counted) \in Nat
    BY CountedIsFinite DEF IInv
  <2>4. active = Cardinality(nodes) + Cardinality(Counted)
    BY DEF IInv, CountIsExact
  <2> QED
    BY <1>1, <2>1, <2>2, <2>3, <2>4 DEF CountIsExact
<1> QED
  BY <1>2, <1>4, <1>5, <1>6, <1>7, <1>8, <1>9 DEF IInv

\* The context goes only when nothing is left of it (rmw_init.cpp,
\* rmw_context_fini).
LEMMA FinishedInv ==
  ASSUME IInv, active = 0, up' = FALSE,
         UNCHANGED <<shutdown, nodes, parts, owner, listening, registered, active, held, todo>>
  PROVE  IInv'
<1>1. /\ active = 0 /\ up' = FALSE
      /\ UNCHANGED <<shutdown, nodes, parts, owner, listening, registered, active, held, todo>>
  OBVIOUS
<1>2. nodes = {} /\ Counted = {}
  <2>1. /\ IsFiniteSet(nodes) /\ IsFiniteSet(Counted)
        /\ Cardinality(nodes) \in Nat /\ Cardinality(Counted) \in Nat
    BY CountedIsFinite DEF IInv
  <2>2. active = Cardinality(nodes) + Cardinality(Counted)
    BY DEF IInv, CountIsExact
  <2>3. Cardinality(nodes) = 0 /\ Cardinality(Counted) = 0
    BY <1>1, <2>1, <2>2
  <2> QED
    BY <2>1, <2>3, FS_EmptySet
<1>3. registered \cap Endpoints = {}
  BY <1>2 DEF Counted
<1>4. ASSUME NEW u \in Threads, NEW i \in DOMAIN todo[u]
      PROVE  todo[u][i].do = "release"
  <2>1. PICK l \in Seq(ToDo) : todo[u] = l
    BY DEF IInv, TypeOK
  <2>2. i \in DOMAIN l /\ l[i] \in ToDo /\ ListOK(l) /\ StepFits(l, i)
    BY <1>4, <2>1, AboutList DEF IInv, ListsOK, StepsFit, Fits
  <2>3. ASSUME NEW j \in DOMAIN l
        PROVE  l[j].do \notin {"detach", "unlisten", "delete", "free"}
    <3>1. SUFFICES ASSUME l[j].do \in {"detach", "unlisten", "delete", "free"}
                   PROVE  FALSE
      OBVIOUS
    <3>2. ToFree(l, l[j].on)
      BY <2>2, <3>1, LeadsToFree
    <3>3. l[j].on \in Endpoints
      BY <3>1, AboutList DEF ToDo, PairSteps
    <3> QED
      BY <1>2, <2>1, <3>2, <3>3 DEF Counted
  <2>4. l[i].do \notin CreatingSteps
    BY <1>2, <2>2 DEF StepFits
  <2>5. l[i].do # "unregister"
    BY <2>2, <2>3 DEF ListOK, Registers
  <2>6. l[i].do \in EndpointSteps \cup PairSteps
    BY <2>2 DEF ToDo
  <2> QED
    BY <2>1, <2>2, <2>3, <2>4, <2>5, <2>6 DEF EndpointSteps, PairSteps, CreatingSteps
<1>5. OwnersThere'
  BY <1>1, <1>2, <1>3, <1>4 DEF OwnersThere
<1>6. TypeOK'
  BY <1>1 DEF IInv, TypeOK
<1>7. \A l : /\ ListOK(l)' = ListOK(l) /\ About(l)' = About(l)
  BY DEF ListOK, Carried, Entered, Registers, Precedes, About, Concerns
<1>8. ListsOK' /\ Exclusive' /\ HeldAreLive' /\ RestIsFresh'
  <2>1. ListsOK' /\ Exclusive'
    BY <1>1, <1>7 DEF IInv, ListsOK, Exclusive, Concerns
  <2>2. HeldAreLive' /\ RestIsFresh'
    BY <1>1, <1>7 DEF IInv, HeldAreLive, RestIsFresh, Fresh, Concerns
  <2> QED
    BY <2>1, <2>2
<1>9. StepsFit'
  <2> SUFFICES ASSUME NEW u \in Threads
               PROVE  Fits(todo[u])'
    BY DEF StepsFit
  <2>1. PICK l \in Seq(ToDo) : todo[u] = l /\ todo'[u] = l
    BY <1>1 DEF IInv, TypeOK
  <2>2. \A x : Same(x)
    BY <1>1 DEF Same
  <2>3. Fits(l)'
    BY <1>1, <2>1, <2>2, ListStillFits DEF IInv, StepsFit
  <2> QED
    BY <2>1, <2>3
<1>10. ListenersHaveImpl' /\ CountIsExact'
  BY <1>1 DEF IInv, ListenersHaveImpl, CountIsExact, Counted, ToFree
<1> QED
  BY <1>5, <1>6, <1>8, <1>9, <1>10 DEF IInv

\* Nothing that the invariant is about changes.
LEMMA NothingChanges ==
  ASSUME IInv, UNCHANGED <<up, nodes, parts, owner, listening, registered,
                           active, held, todo>>,
         shutdown' \in BOOLEAN
  PROVE  IInv'
<1>1. TypeOK'
  BY DEF IInv, TypeOK
<1>2. \A l : ListOK(l)' = ListOK(l) /\ About(l)' = About(l)
  BY DEF ListOK, Carried, Entered, Registers, Precedes, About, Concerns
<1>3. ListsOK' /\ Exclusive' /\ HeldAreLive' /\ RestIsFresh'
  BY <1>2 DEF IInv, ListsOK, Exclusive, HeldAreLive, RestIsFresh, Fresh, Concerns
<1>4. StepsFit'
  <2> SUFFICES ASSUME NEW u \in Threads
               PROVE  Fits(todo[u])'
    BY DEF StepsFit
  <2>1. PICK l \in Seq(ToDo) : todo[u] = l /\ todo'[u] = l
    BY DEF IInv, TypeOK
  <2>2. \A x : Same(x)
    BY DEF Same
  <2>3. Fits(l)'
    BY <2>1, <2>2, ListStillFits DEF IInv, StepsFit
  <2> QED
    BY <2>1, <2>3
<1>5. ListenersHaveImpl' /\ OwnersThere' /\ CountIsExact'
  BY DEF IInv, ListenersHaveImpl, OwnersThere, CountIsExact, Counted, ToFree
<1> QED
  BY <1>1, <1>3, <1>4, <1>5 DEF IInv

\* rmw_context_fini past the suppression of graph updates.
LEMMA FiniStepInv ==
  ASSUME IInv, NEW t \in Threads, EndSuppression(t) \/ FiniCheck(t)
  PROVE  IInv'
<1>1. UNCHANGED <<shutdown, nodes, parts, owner, listening, registered, active, held, todo>>
  BY DEF EndSuppression, FiniCheck, endpointVars, graphVars
<1>2. CASE FiniCheck(t) /\ shutdown /\ active = 0
  <2>1. active = 0 /\ up' = FALSE
    BY <1>2 DEF FiniCheck
  <2> QED
    BY <1>1, <2>1, FinishedInv
<1>3. CASE EndSuppression(t) \/ (FiniCheck(t) /\ ~(shutdown /\ active = 0))
  <2>1. up' = up
    BY <1>3 DEF EndSuppression, FiniCheck
  <2> QED
    BY <1>1, <2>1, NothingChanges DEF IInv, TypeOK
<1> QED
  BY <1>2, <1>3

-----------------------------------------------------------------------------
(* The graph.                                                              *)

MakingSteps == {"make", "announce", "undo"}

\* A creation is under way.
Making(list) == 1 \in DOMAIN list /\ list[1].do \in MakingSteps

\* A creation holds the mutex, which keeps rmw_shutdown out, to its end.
CreationsHoldMutex == \A t \in Threads : Making(todo[t]) => mutex = t /\ ~shutdown

\* Graph updates are suppressed by rmw_context_fini alone.
OnlyFiniSuppresses ==
  /\ suppress => ~publishes
  /\ publishes \/ EarlyFini \/ shutdown

\* The graph's own invariant, beside IInv.
GInv == GraphIsExact /\ CreationsHoldMutex /\ OnlyFiniSuppresses

\* Only what a beginning or a part made leads to is part of a creation.
LEMMA RestMakes ==
  ASSUME NEW list \in Seq(ToDo), list # <<>>, ListOK(list), Making(Tail(list))
  PROVE  list[1].do \in {"begin", "make"}
<1>1. 2 \in DOMAIN list /\ list[2].do \in MakingSteps
  BY TailSteps DEF Making
<1>2. 2 > 1 /\ list[2].do \notin {"begin", "detach", "register", "release"}
  BY <1>1 DEF MakingSteps
<1>3. After(list[2 - 1].do) = list[2].do
  BY <1>1, <1>2 DEF ListOK, Entered
<1> QED
  BY <1>1, <1>3 DEF After, MakingSteps

\* What is left to do after a failure is no creation.
LEMMA FailureMakesNothing ==
  /\ ~Making(<<>>)
  /\ \A e, n : ~Making(Destroying(e, n))
  /\ \A rest : ~Making(AfterFailure(rest))
<1>1. ~Making(<<>>)
  BY DEF Making
<1>2. ASSUME NEW e, NEW n
      PROVE  ~Making(Destroying(e, n))
  <2>1. Destroying(e, n)
          = [i \in 1 .. 4 |-> [do |-> <<"detach", "unlisten", "delete", "free">>[i], on |-> e, node |-> n]]
    BY DEF Destroying, Steps
  <2>2. Destroying(e, n)[1].do = "detach"
    BY <2>1
  <2> QED
    BY <2>2 DEF Making, MakingSteps
<1>3. \A rest : ~Making(AfterFailure(rest))
  BY <1>1, <1>2 DEF AfterFailure
<1> QED
  BY <1>1, <1>2, <1>3

\* A thread goes on, and takes and gives back the mutex only as its own.
LEMMA MutexKept ==
  ASSUME IInv, CreationsHoldMutex, NEW t \in Threads, NEW new,
         todo' = [todo EXCEPT ![t] = new], shutdown' = shutdown,
         mutex' = mutex \/ mutex \in {None, t},
         Making(new) => mutex' = t /\ ~shutdown
  PROVE  CreationsHoldMutex'
<1> SUFFICES ASSUME NEW u \in Threads, Making(todo'[u])
             PROVE  mutex' = u /\ ~shutdown'
  BY DEF CreationsHoldMutex, Making
<1>1. CASE u = t
  BY <1>1 DEF IInv, TypeOK
<1>2. CASE u # t
  <2>1. todo'[u] = todo[u]
    BY <1>2 DEF IInv, TypeOK
  <2>2. mutex = u /\ ~shutdown
    BY <2>1 DEF CreationsHoldMutex
  <2>3. u # None
    BY EndpointConstants
  <2> QED
    BY <1>2, <2>2, <2>3
<1> QED
  BY <1>1, <1>2

\* A thread that is at a step of a creation holds the mutex.
LEMMA HoldsMutex ==
  ASSUME IInv, CreationsHoldMutex, NEW t \in Threads, NEW e \in Endpoints,
         NEW name \in MakingSteps, At(t, name, e)
  PROVE  mutex = t /\ ~shutdown
<1>1. PICK list \in Seq(ToDo) : todo[t] = list
  BY DEF IInv, TypeOK
<1>2. 1 \in DOMAIN list /\ list[1].do = name
  BY <1>1, Going
<1> QED
  BY <1>1, <1>2 DEF CreationsHoldMutex, Making

\* The steps of a creation (rmw_data_plane.cpp 557-660, 949-1087): what shutdown
\* has not refused holds the mutex, and so enters the graph unless a context that
\* is not shut down is being finalized.
LEMMA CreationGraph ==
  ASSUME IInv, GInv, NEW t \in Threads, NEW e \in Endpoints,
         Begin(t, e) \/ Make(t, e) \/ Announce(t, e) \/ Undo(t, e)
  PROVE  GInv'
<1>1. PICK list \in Seq(ToDo) : todo[t] = list
  BY DEF IInv, TypeOK
<1>2. /\ UNCHANGED <<shutdown, finiVars>>
      /\ OnlyFiniSuppresses'
  BY DEF Begin, Make, Announce, Undo, contextVars, finiVars, GInv, OnlyFiniSuppresses
<1>3. CASE Begin(t, e)
  <2>1. list # <<>> /\ ListOK(list) /\ list[1].do = "begin" /\ At(t, "begin", e)
    BY <1>1, <1>3, Going DEF Begin
  <2>2. GraphIsExact'
    BY <1>2, <1>3 DEF Begin, graphVars, finiVars, GInv, GraphIsExact
  <2>3. CASE shutdown
    <3>1. todo' = [todo EXCEPT ![t] = AfterFailure(SubSeq(list, 4, Len(list)))] /\ mutex' = mutex
      BY <1>1, <1>3, <2>3 DEF Begin, Refuses
    <3> QED
      BY <1>2, <2>2, <3>1, FailureMakesNothing, MutexKept DEF GInv
  <2>4. CASE ~shutdown
    <3>1. todo' = [todo EXCEPT ![t] = Tail(list)] /\ mutex = None /\ mutex' = t
      BY <1>1, <1>3, <2>4 DEF Begin, Refuses, Done
    <3> QED
      BY <1>2, <2>2, <2>4, <3>1, MutexKept DEF GInv
  <2> QED
    BY <2>3, <2>4
<1>4. CASE Make(t, e)
  <2>1. mutex = t /\ ~shutdown
    BY <1>4, HoldsMutex DEF Make, MakingSteps, GInv
  <2>2. mutex' = mutex /\ GraphIsExact'
    BY <1>2, <1>4 DEF Make, graphVars, finiVars, GInv, GraphIsExact
  <2>3. \E new : todo' = [todo EXCEPT ![t] = new]
    <3>1. UNCHANGED todo => todo' = [todo EXCEPT ![t] = todo[t]]
      BY DEF IInv, TypeOK
    <3>2. Done(t) \/ Fail(t, e, 2) \/ UNCHANGED todo
      BY <1>4 DEF Make
    <3> QED
      BY <3>1, <3>2 DEF Done, Fail
  <2> QED
    BY <1>2, <2>1, <2>2, <2>3, MutexKept DEF GInv
<1>5. CASE Announce(t, e)
  <2>1. mutex = t /\ ~shutdown
    BY <1>5, HoldsMutex DEF Announce, MakingSteps, GInv
  <2>2. list # <<>> /\ ListOK(list) /\ list[1].do = "announce"
    BY <1>1, <1>5, Going DEF Announce
  <2>3. publishes \/ ~EarlyFini => ~suppress
    BY <2>1 DEF GInv, OnlyFiniSuppresses
  <2>4. CASE /\ registered' = registered \cup {e}
             /\ localGuids' = localGuids \cup ({e} \cap Pubs)
             /\ cache' = cache \cup Entry(e)
             /\ mutex' = None
             /\ Done(t)
    <3>1. todo' = [todo EXCEPT ![t] = Tail(list)] /\ ~Making(Tail(list))
      BY <1>1, <2>2, <2>4, RestMakes DEF Done
    <3>2. CreationsHoldMutex'
      BY <1>2, <2>1, <2>4, <3>1, MutexKept DEF GInv
    <3>3. leftover' = leftover /\ publishes' = publishes
      BY <1>2, <1>5 DEF Announce, finiVars
    <3>4. /\ localGuids' = registered' \cap Pubs
          /\ cache' \subseteq registered' \cap Endpoints
          /\ publishes' \/ ~EarlyFini => cache' = registered' \cap Endpoints
      BY <2>3, <2>4, <3>3 DEF GInv, GraphIsExact, Entry
    <3>5. GraphIsExact'
      BY <3>3, <3>4 DEF GInv, GraphIsExact, MayStay
    <3> QED
      BY <1>2, <3>2, <3>5 DEF GInv
  <2>5. CASE /\ cache' = cache \cup (Entry(e) \cap LeftInCache(e))
             /\ Fail(t, e, 1)
             /\ UNCHANGED <<registered, localGuids, mutex>>
    <3>1. \E new : todo' = [todo EXCEPT ![t] = new]
      BY <2>5 DEF Fail
    <3>2. CreationsHoldMutex'
      BY <1>2, <2>1, <2>5, <3>1, MutexKept DEF GInv
    <3>3. leftover' = leftover /\ publishes' = publishes /\ cache' = cache
      BY <1>2, <1>5, <2>5 DEF Announce, finiVars, LeftInCache
    <3>4. GraphIsExact'
      BY <2>5, <3>3 DEF GInv, GraphIsExact, MayStay
    <3> QED
      BY <1>2, <3>2, <3>4 DEF GInv
  <2> QED
    BY <1>5, <2>4, <2>5 DEF Announce
<1>6. CASE Undo(t, e)
  <2>1. mutex = t /\ ~shutdown
    BY <1>6, HoldsMutex DEF Undo, MakingSteps, GInv
  <2>2. list # <<>> /\ ListOK(list) /\ list[1].do = "undo"
    BY <1>1, <1>6, Going DEF Undo
  <2>3. GraphIsExact'
    BY <1>2, <1>6 DEF Undo, graphVars, finiVars, GInv, GraphIsExact
  <2>4. CASE mutex' = None /\ Done(t)
    <3>1. todo' = [todo EXCEPT ![t] = Tail(list)] /\ ~Making(Tail(list))
      BY <1>1, <2>2, <2>4, RestMakes DEF Done
    <3> QED
      BY <1>2, <2>1, <2>3, <2>4, <3>1, MutexKept DEF GInv
  <2>5. CASE mutex' = mutex /\ todo' = todo
    <3>1. todo' = [todo EXCEPT ![t] = todo[t]]
      BY <2>5 DEF IInv, TypeOK
    <3> QED
      BY <1>2, <2>1, <2>3, <2>5, <3>1, MutexKept DEF GInv
  <2> QED
    BY <1>6, <2>4, <2>5 DEF Undo
<1> QED
  BY <1>3, <1>4, <1>5, <1>6

\* The steps of a destruction (rmw_data_plane.cpp 663-724, 1090-1145).
LEMMA DestructionGraph ==
  ASSUME IInv, GInv, NEW t \in Threads, NEW e \in Endpoints,
         Detach(t, e) \/ Unlisten(t, e) \/ Delete(t, e) \/ Free(t, e)
  PROVE  GInv'
<1>1. PICK list \in Seq(ToDo) : todo[t] = list
  BY DEF IInv, TypeOK
<1>2. /\ UNCHANGED <<shutdown, mutex, finiVars>>
      /\ OnlyFiniSuppresses'
      /\ todo' = [todo EXCEPT ![t] = Tail(list)]
  BY <1>1 DEF Detach, Unlisten, Delete, Free, Done, contextVars, finiVars, GInv, OnlyFiniSuppresses
<1>3. ~Making(Tail(list))
  <2>1. PICK name \in {"detach", "unlisten", "delete", "free"} : At(t, name, e)
    BY DEF Detach, Unlisten, Delete, Free
  <2>2. list # <<>> /\ ListOK(list) /\ list[1].do = name
    BY <1>1, <2>1, Going
  <2> QED
    BY <2>2, RestMakes
<1>4. CreationsHoldMutex'
  BY <1>2, <1>3, MutexKept DEF GInv
<1>5. GraphIsExact'
  <2>1. CASE Detach(t, e)
    <3>1. /\ registered' = registered \ {e} /\ localGuids' = localGuids \ {e}
          /\ cache' = cache \ {e} /\ publishes' = publishes
      BY <1>2, <2>1 DEF Detach, finiVars
    <3>2. publishes => leftover' \subseteq MayStay
      <4>1. PICK known \in GuidKnown(e) :
              leftover' = IF known /\ ~suppress THEN leftover ELSE leftover \cup ({e} \cap cache)
        BY <2>1 DEF Detach
      <4>2. publishes => leftover \subseteq MayStay /\ ~suppress
        BY DEF GInv, GraphIsExact, OnlyFiniSuppresses
      <4>3. ~known => e \in MayStay
        BY <4>1 DEF GuidKnown, Outcomes, MayStay
      <4> QED
        BY <4>1, <4>2, <4>3
    <3> QED
      BY <3>1, <3>2 DEF GInv, GraphIsExact, MayStay
  <2>2. CASE Unlisten(t, e) \/ Delete(t, e) \/ Free(t, e)
    BY <1>2, <2>2 DEF Unlisten, Delete, Free, graphVars, finiVars, GInv, GraphIsExact, MayStay
  <2> QED
    BY <2>1, <2>2
<1> QED
  BY <1>2, <1>4, <1>5 DEF GInv

\* The steps of clients and services (rmw_service.cpp).
LEMMA PairGraph ==
  ASSUME IInv, GInv, NEW t \in Threads, NEW p \in Pairs, PairStep(t, p)
  PROVE  GInv'
<1>1. PICK list \in Seq(ToDo) : todo[t] = list
  BY DEF IInv, TypeOK
<1>2. /\ UNCHANGED <<shutdown, finiVars, localGuids, cache, leftover>>
      /\ registered' \in {registered, registered \cup {p}, registered \ {p}}
      /\ OnlyFiniSuppresses'
  BY DEF PairStep, Register, Unregister, Release, contextVars, graphVars, finiVars, GInv,
         OnlyFiniSuppresses
<1>3. registered' \cap Endpoints = registered \cap Endpoints
  BY <1>2, EndpointConstants
<1>4. registered' \cap Pubs = registered \cap Pubs
  BY <1>3 DEF Endpoints
<1>5. GraphIsExact'
  BY <1>2, <1>3, <1>4 DEF GInv, GraphIsExact, MayStay, finiVars
<1>6. \E new : /\ todo' = [todo EXCEPT ![t] = new] /\ ~Making(new)
               /\ mutex' = mutex \/ (mutex = None /\ mutex' = None)
  <2>1. CASE Done(t) /\ mutex' = mutex
    <3>1. PICK name \in {"register", "unregister", "release"} : At(t, name, p)
      BY DEF PairStep, Register, Unregister, Release
    <3>2. list # <<>> /\ ListOK(list) /\ list[1].do = name
      BY <1>1, <3>1, GoingPair
    <3>3. ~Making(Tail(list))
      BY <3>2, RestMakes
    <3> QED
      BY <1>1, <2>1, <3>3 DEF Done
  <2>2. CASE /\ At(t, "register", p) /\ mutex = None /\ mutex' = MutexAfterThrow(t)
             /\ todo' = [todo EXCEPT ![t] = DestroyingEnds(p, Next1(t).node)]
    <3>1. Next1(t).node \in Nodes
      BY <1>1, <2>2, GoingPair
    <3>2. DestroyingEnds(p, Next1(t).node)[1] = Destroying(Second[p], Next1(t).node)[1]
      BY <3>1, DestroyingBothOK
    <3>3. Destroying(Second[p], Next1(t).node)[1]
            = [do |-> "detach", on |-> Second[p], node |-> Next1(t).node]
      BY <3>1, PairEnds, DestroyingList
    <3>4. ~Making(DestroyingEnds(p, Next1(t).node))
      BY <3>2, <3>3 DEF Making, MakingSteps
    <3> QED
      BY <2>2, <3>4 DEF MutexAfterThrow
  <2> QED
    BY <2>1, <2>2 DEF PairStep, Register, Unregister, Release, DestroyingEnds
<1>7. CreationsHoldMutex'
  BY <1>2, <1>6, MutexKept DEF GInv
<1> QED
  BY <1>2, <1>5, <1>7 DEF GInv

\* The application's calls, to the first step of what they do; rmw_shutdown waits
\* for the mutex.
LEMMA CallGraph ==
  ASSUME IInv, GInv, NEW t \in Threads, AppCall(t)
  PROVE  GInv'
<1>1. ASSUME NEW steps, Call(t, steps), ~Making(steps)
      PROVE  GInv'
  <2>1. todo' = [todo EXCEPT ![t] = steps] /\ UNCHANGED <<shutdown, mutex>>
    BY <1>1 DEF Call, contextVars
  <2>2. CreationsHoldMutex'
    BY <1>1, <2>1, MutexKept DEF GInv
  <2>3. GraphIsExact' /\ OnlyFiniSuppresses'
    BY <1>1 DEF Call, contextVars, graphVars, finiVars, GInv, GraphIsExact, OnlyFiniSuppresses, MayStay
  <2> QED
    BY <2>2, <2>3 DEF GInv
<1>2. CASE \E e \in Endpoints, n \in Nodes : CreateEndpoint(t, e, n)
  <2>1. PICK e \in Endpoints, n \in Nodes : CreateEndpoint(t, e, n)
    BY <1>2
  <2>2. Creating(e, n)[1] = [do |-> "begin", on |-> e, node |-> n]
    BY CreatingList
  <2> QED
    BY <1>1, <2>1, <2>2 DEF CreateEndpoint, Making, MakingSteps
<1>3. CASE \E p \in Pairs, n \in Nodes : CreatePair(t, p, n)
  <2>1. PICK p \in Pairs, n \in Nodes : CreatePair(t, p, n)
    BY <1>3
  <2>2. Call(t, CreatingEnds(p, n))
    BY <2>1 DEF CreatePair, CreatingEnds
  <2>3. CreatingEnds(p, n)[1] = [do |-> "begin", on |-> First[p], node |-> n]
    BY CreatingBoth
  <2> QED
    BY <1>1, <2>2, <2>3 DEF Making, MakingSteps
<1>4. CASE \E e \in Endpoints : DestroyEndpoint(t, e)
  <2>1. PICK e \in Endpoints : DestroyEndpoint(t, e)
    BY <1>4
  <2> QED
    BY <1>1, <2>1, FailureMakesNothing DEF DestroyEndpoint
<1>5. CASE \E p \in Pairs : DestroyPair(t, p)
  <2>1. PICK p \in Pairs : DestroyPair(t, p)
    BY <1>5
  <2>2. Call(t, DestroyingAll(p, owner[First[p]])) /\ owner[First[p]] \in Nodes
    <3>1. Concerns(p) \subseteq registered
      BY <2>1 DEF DestroyPair, IInv, HeldAreLive
    <3>2. First[p] \in registered \cap Endpoints
      BY <3>1, PairEnds
    <3>3. owner[First[p]] \in Nodes
      BY <3>2 DEF IInv, OwnersThere, TypeOK
    <3> QED
      BY <2>1, <3>3 DEF DestroyPair, DestroyingAll
  <2>3. DestroyingAll(p, owner[First[p]])[1]
          = [do |-> "unregister", on |-> p, node |-> owner[First[p]]]
    BY <2>2, DestroyingWhole
  <2> QED
    BY <1>1, <2>2, <2>3 DEF Making, MakingSteps
<1>6. CASE \E n \in Nodes : DestroyNode(t, n)
  BY <1>6 DEF DestroyNode, graphVars, finiVars, GInv, GraphIsExact, CreationsHoldMutex,
              OnlyFiniSuppresses, Making, MayStay
<1>7. CASE Shutdown(t)
  <2>1. /\ mutex = None /\ shutdown' = TRUE /\ UNCHANGED <<mutex, todo, finiVars, graphVars>>
    BY <1>7 DEF Shutdown
  <2>2. \A u \in Threads : ~Making(todo[u])
    BY <2>1, EndpointConstants DEF GInv, CreationsHoldMutex
  <2>3. CreationsHoldMutex'
    BY <2>1, <2>2 DEF CreationsHoldMutex, Making
  <2> QED
    BY <2>1, <2>3 DEF GInv, GraphIsExact, OnlyFiniSuppresses, finiVars, graphVars, MayStay
<1>8. CASE Fini(t)
  <2>1. /\ EarlyFini \/ shutdown
        /\ publishes' = FALSE /\ suppress' = TRUE
        /\ UNCHANGED <<shutdown, mutex, todo, graphVars>>
    BY <1>8 DEF Fini
  <2>2. CreationsHoldMutex' /\ OnlyFiniSuppresses'
    BY <2>1 DEF GInv, CreationsHoldMutex, OnlyFiniSuppresses, Making
  <2>3. GraphIsExact'
    BY <2>1 DEF GInv, GraphIsExact, graphVars, MayStay
  <2> QED
    BY <2>2, <2>3 DEF GInv
<1> QED
  BY <1>2, <1>3, <1>4, <1>5, <1>6, <1>7, <1>8 DEF AppCall

\* Every step keeps the graph's invariant.
LEMMA GraphStep == IInv /\ GInv /\ [Next]_vars => GInv'
<1> SUFFICES ASSUME IInv, GInv, [Next]_vars PROVE GInv'
  OBVIOUS
<1>1. ASSUME UNCHANGED <<shutdown, mutex, registered, localGuids, cache, leftover, publishes, todo>>,
             suppress' => suppress
      PROVE  GInv'
  <2>1. GraphIsExact' /\ OnlyFiniSuppresses'
    BY <1>1 DEF GInv, GraphIsExact, OnlyFiniSuppresses, MayStay
  <2>2. CreationsHoldMutex'
    BY <1>1 DEF GInv, CreationsHoldMutex, Making
  <2> QED
    BY <2>1, <2>2 DEF GInv
<1>2. CASE UNCHANGED vars
  BY <1>1, <1>2 DEF vars
<1>3. ASSUME NEW t \in Threads, Step(t) PROVE GInv'
  <2>1. CASE \E e \in Endpoints : EndpointStep(t, e)
    BY <2>1, CreationGraph, DestructionGraph DEF EndpointStep
  <2>2. CASE \E p \in Pairs : PairStep(t, p)
    BY <2>2, PairGraph
  <2>3. CASE FiniStep(t)
    BY <1>1, <2>3 DEF FiniStep, EndSuppression, FiniCheck, graphVars
  <2> QED
    BY <1>3, <2>1, <2>2, <2>3 DEF Step
<1>4. ASSUME NEW t \in Threads, AppCall(t) PROVE GInv'
  BY <1>4, CallGraph
<1> QED
  BY <1>2, <1>3, <1>4 DEF Next

-----------------------------------------------------------------------------
(* The theorems.                                                           *)

\* The invariant holds when the context is new, with its nodes and nothing else.
LEMMA InitInv == Init => IInv
<1> SUFFICES ASSUME Init PROVE IInv
  OBVIOUS
<1>1. \A t \in Threads : todo[t] = <<>>
  BY DEF Init
<1>2. TypeOK
  <2>1. Cardinality(Nodes) \in Nat
    BY EndpointConstants, FS_CardinalityType
  <2>2. todo \in [Threads -> Seq(ToDo)]
    BY NoSteps DEF Init
  <2>3. parts \in [Endpoints -> SUBSET Parts] /\ owner \in [Endpoints -> Nodes \cup {None}]
    BY DEF Init
  <2>4. /\ up \in BOOLEAN /\ shutdown \in BOOLEAN /\ nodes \in SUBSET Nodes
        /\ listening \in SUBSET Subs /\ registered \in SUBSET (Endpoints \cup Pairs)
        /\ held \in SUBSET (Endpoints \cup Pairs)
    BY DEF Init
  <2>5. active \in Int
    BY <2>1 DEF Init
  <2> QED
    BY <2>2, <2>3, <2>4, <2>5 DEF TypeOK
<1>3. ListsOK /\ StepsFit
  BY <1>1, NoSteps DEF ListsOK, StepsFit
<1>4. Exclusive
  BY <1>1, NoSteps DEF Init, Exclusive
<1>5. HeldAreLive /\ RestIsFresh /\ ListenersHaveImpl
  BY DEF Init, HeldAreLive, RestIsFresh, Fresh, ListenersHaveImpl
<1>6. OwnersThere
  BY <1>1, NoSteps DEF Init, OwnersThere
<1>7. CountIsExact
  <2>1. Counted = {}
    BY <1>1, NoSteps DEF Init, Counted
  <2>2. Cardinality({}) = 0 /\ Cardinality(Nodes) \in Nat
    BY EndpointConstants, FS_EmptySet, FS_CardinalityType
  <2> QED
    BY <2>1, <2>2 DEF Init, CountIsExact
<1> QED
  BY <1>2, <1>3, <1>4, <1>5, <1>6, <1>7 DEF IInv

\* Every step keeps the invariant.
LEMMA StepInv == IInv /\ [Next]_vars => IInv'
<1> SUFFICES ASSUME IInv, [Next]_vars PROVE IInv'
  OBVIOUS
<1>1. CASE UNCHANGED vars
  <2>1. UNCHANGED <<up, nodes, parts, owner, listening, registered,
                    active, held, todo>> /\ shutdown' = shutdown
    BY <1>1 DEF vars
  <2> QED
    BY <2>1, NothingChanges DEF IInv, TypeOK
<1>2. ASSUME NEW t \in Threads, Step(t) PROVE IInv'
  <2>1. CASE \E e \in Endpoints : EndpointStep(t, e)
    <3>1. PICK e \in Endpoints : EndpointStep(t, e)
      BY <2>1
    <3> QED
      BY <3>1, BeginInv, MakeInv, AnnounceInv, UndoInv, DetachInv, UnlistenInv, DeleteInv, FreeInv
         DEF EndpointStep
  <2>2. CASE \E p \in Pairs : PairStep(t, p)
    BY <2>2, RegisterInv, UnregisterInv, ReleaseInv DEF PairStep
  <2>3. CASE FiniStep(t)
    BY <2>3, FiniStepInv DEF FiniStep
  <2> QED
    BY <1>2, <2>1, <2>2, <2>3 DEF Step
<1>3. ASSUME NEW t \in Threads, AppCall(t) PROVE IInv'
  <2>1. CASE \E e \in Endpoints, n \in Nodes : CreateEndpoint(t, e, n)
    BY <2>1, CreateEndpointInv
  <2>2. CASE \E p \in Pairs, n \in Nodes : CreatePair(t, p, n)
    BY <2>2, CreatePairInv
  <2>3. CASE \E e \in Endpoints : DestroyEndpoint(t, e)
    BY <2>3, DestroyEndpointInv
  <2>4. CASE \E p \in Pairs : DestroyPair(t, p)
    BY <2>4, DestroyPairInv
  <2>5. CASE \E n \in Nodes : DestroyNode(t, n)
    BY <2>5, DestroyNodeInv
  <2>6. CASE Shutdown(t)
    <3>1. UNCHANGED <<up, nodes, parts, owner, listening, registered,
                      active, held, todo>> /\ shutdown' = TRUE
      BY <2>6 DEF Shutdown, endpointVars, graphVars
    <3> QED
      BY <3>1, NothingChanges
  <2>7. CASE Fini(t)
    <3>1. UNCHANGED <<up, nodes, parts, owner, listening, registered,
                      active, held, todo>> /\ shutdown' = shutdown
      BY <2>7 DEF Fini, endpointVars, graphVars
    <3> QED
      BY <3>1, NothingChanges DEF IInv, TypeOK
  <2> QED
    BY <1>3, <2>1, <2>2, <2>3, <2>4, <2>5, <2>6, <2>7 DEF AppCall
<1> QED
  BY <1>1, <1>2, <1>3 DEF Next

\* The invariant of the endpoints' creation and destruction.
THEOREM Invariance == Spec => []IInv
  BY InitInv, StepInv, PTL DEF Spec

\* A reader with its listener installed has the impl its listener works on,
\* while it is created, undone and destroyed, by whichever thread.
THEOREM ListenersFindImpl == Spec => []ListenerFindsImpl
<1>1. IInv => ListenerFindsImpl
  BY DEF IInv, ListenersHaveImpl, ListenerFindsImpl
<1> QED
  BY <1>1, Invariance, PTL

\* Up to the first rmw_context_fini the graph this participant tells of is that
\* of the endpoints it has, but for entries whose GUID could not be had; and a
\* context finalized only after its shutdown never lacks an endpoint's entry.
THEOREM GraphStaysExact == Spec => []GraphIsExact
<1>1. Init => GInv
  <2> SUFFICES ASSUME Init PROVE GInv
    OBVIOUS
  <2>1. GraphIsExact /\ OnlyFiniSuppresses
    BY DEF Init, GraphIsExact, OnlyFiniSuppresses
  <2>2. CreationsHoldMutex
    BY FailureMakesNothing DEF Init, CreationsHoldMutex
  <2> QED
    BY <2>1, <2>2 DEF GInv
<1>2. GInv => GraphIsExact
  BY DEF GInv
<1> QED
  BY <1>1, <1>2, Invariance, GraphStep, PTL DEF Spec

\* No call works on a node or a context that is gone, although a destruction
\* releases the context's mutex long before it is done.
THEOREM OwnersStay == Spec => []OwnersOutliveUse
<1>1. ASSUME IInv
      PROVE  OwnersOutliveUse
  <2> SUFFICES ASSUME NEW t \in Threads, NEW i \in DOMAIN todo[t]
               PROVE  /\ todo[t][i].do \in {"begin", "announce", "detach"} => todo[t][i].node \in nodes
                      /\ todo[t][i].do # "release" => up
    BY DEF OwnersOutliveUse
  <2>1. PICK l \in Seq(ToDo) : todo[t] = l
    BY <1>1 DEF IInv, TypeOK
  <2>2. StepFits(l, i) /\ l[i] \in ToDo
    BY <1>1, <2>1, AboutList DEF IInv, StepsFit, Fits
  <2>3. l[i].do \in {"begin", "announce"} => l[i].node \in nodes
    BY <2>2 DEF StepFits, CreatingSteps
  <2>4. l[i].do = "detach" => l[i].node \in nodes
    <3>1. l[i].do = "detach" => l[i].on \in Endpoints
      BY <2>2 DEF ToDo, PairSteps
    <3>2. l[i].do = "detach" => l[i].on \in registered /\ owner[l[i].on] = l[i].node
      BY <2>2 DEF StepFits
    <3> QED
      BY <1>1, <3>1, <3>2 DEF IInv, OwnersThere
  <2>5. l[i].do # "release" => up
    BY <1>1, <2>1 DEF IInv, OwnersThere
  <2> QED
    BY <2>1, <2>3, <2>4, <2>5
<1> QED
  BY <1>1, Invariance, PTL

\* Nothing is left of an endpoint the application does not have once no call
\* works on it: every way a creation can fail gives back all it had made.
THEOREM NothingIsLeaked == Spec => []NothingLeaks
<1>1. IInv => NothingLeaks
  BY NobodysIsFresh DEF IInv, NothingLeaks, Fresh
<1> QED
  BY <1>1, Invariance, PTL
===============================================================================
