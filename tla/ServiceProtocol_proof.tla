------------------------ MODULE ServiceProtocol_proof ------------------------
(***************************************************************************)
(* Proofs about ServiceProtocol, for any number of clients, servers,       *)
(* threads and requests, whatever fails and in whatever order the two ends *)
(* of a client and a server find one another: a client takes responses to  *)
(* its own requests only, the count of ready writers comes right, and a    *)
(* request to the one server of a service that a client was told of is     *)
(* answered or a call reports an error about it.  And about the names and  *)
(* messages of services, for all.                                          *)
(***************************************************************************)
EXTENDS ServiceProtocol, Conversions, FiniteSetTheorems, SequenceTheorems,
        TLAPS

\* What a request and its response carry; what a reader may hold; the locals of a
\* thread in a call.
Asked    == [kind : {"message"}, client : Clients, number : Nat]
Samples  == Asked \cup {NoMessage("no data"), NoMessage("malformed")}
Frames   == [client : Clients, number : Nat, matched : BOOLEAN]

\* Every variable has its type.
TypeOK ==
  /\ alive \in SUBSET Servers
  /\ requestTo \in [Clients -> SUBSET Servers]
  /\ responseTo \in [Servers -> SUBSET Clients]
  /\ readyFrom \in [Clients -> SUBSET Servers]
  /\ owed \in [Clients -> [up : Nat, down : Nat]]
  /\ readyCount \in [Clients -> Int]
  /\ next \in [Clients -> Nat]
  /\ requests \in [Servers -> Seq(Samples)]
  /\ responses \in [Clients -> Seq(Samples)]
  /\ taken \in [Servers -> SUBSET Asked]
  /\ pc \in [Threads -> {"idle", "ready", "write"}]
  /\ frame \in [Threads -> Frames \cup {Idle}]
  /\ \A t \in Threads : pc[t] # "idle" => frame[t] \in Frames
  /\ taking \in [Clients -> SUBSET Takers]
  /\ available \in SUBSET Clients
  /\ sent \in [Clients -> Seq(Nat)]
  /\ assured \in SUBSET Asked
  /\ answered \in [Clients -> Seq(Nat)]
  /\ lost \in SUBSET Samples
  /\ strays \in Nat

\* A number is used once: those a client has used are behind its counter, and so
\* are those its threads are about to use, which are all different.
NumbersUsedOnce ==
  /\ \A c \in Clients : \A n \in SeqRange(sent[c]) : n < next[c]
  /\ \A c \in Clients : \A i, j \in DOMAIN sent[c] : sent[c][i] = sent[c][j] => i = j
  /\ \A t \in Threads : pc[t] = "write" =>
       /\ frame[t].number < next[frame[t].client]
       /\ frame[t].number \notin SeqRange(sent[frame[t].client])
  /\ \A t, u \in Threads :
       t # u /\ pc[t] = "write" /\ pc[u] = "write" /\ frame[t].client = frame[u].client
         => frame[t].number # frame[u].number

\* A message is about a request that was sent.
Genuine(sample) ==
  sample.kind = "message" => sample.number \in SeqRange(sent[sample.client])

\* Nothing on its way, taken or answered is about a request nobody sent.
MessagesAreGenuine ==
  /\ \A s \in Servers : \A message \in SeqRange(requests[s]) \cup taken[s] : Genuine(message)
  /\ \A c \in Clients : \A message \in SeqRange(responses[c]) : Genuine(message)
  /\ \A c \in Clients : SeqRange(answered[c]) \subseteq SeqRange(sent[c])

\* The calls that zzdds owes make up the difference between the ready count and
\* the writers that are ready.
ReadyCounted ==
  \A c \in Clients :
    /\ IsFiniteSet(readyFrom[c])
    /\ readyCount[c] + owed[c].up - owed[c].down = Cardinality(readyFrom[c])

\* The inductive invariant.
IInv ==
  /\ TypeOK
  /\ NumbersUsedOnce
  /\ MessagesAreGenuine
  /\ ReadyCounted

\* What is known of server s when it is the only one.  It has registered a client
\* that counts a ready writer, will count one, has been told it may ask, or has
\* asked after that; or it has gone, and has nothing to answer.
Registered(c, s) == s \in alive => c \in responseTo[s]

OnlyServerReady(s) ==
  /\ \A c \in Clients :
       readyFrom[c] # {} \/ owed[c].up > 0 \/ readyCount[c] > 0 \/ c \in available
         => Registered(c, s)
  /\ \A request \in assured : Registered(request.client, s)
  /\ s \notin alive => taken[s] = {} /\ requests[s] = <<>>

\* Who has been told, or is about to be, has found server s matched.
Matched(c, s) == s \in alive => s \in requestTo[c]

OnlyServerAsked(s) ==
  /\ \A c \in available : Matched(c, s)
  /\ \A t \in Threads : pc[t] = "ready" /\ frame[t].matched => Matched(frame[t].client, s)

\* A request that has reached server s is on its way, or has come to an end that
\* somebody was told of.
KnownOf(request, s) ==
  \/ s \notin alive
  \/ request \in SeqRange(requests[s]) \cup taken[s]
  \/ request \in SeqRange(responses[request.client])
  \/ request.number \in SeqRange(answered[request.client])
  \/ request \in lost

AssuredKnownOf(s) == \A request \in assured : KnownOf(request, s)

-----------------------------------------------------------------------------
(* Sequences.                                                              *)

LEMMA RangeOfAppend ==
  ASSUME NEW S, NEW seq \in Seq(S), NEW x \in S
  PROVE  /\ Append(seq, x) \in Seq(S)
         /\ SeqRange(Append(seq, x)) = SeqRange(seq) \cup {x}
<1>1. /\ Append(seq, x) \in Seq(S) /\ Len(Append(seq, x)) = Len(seq) + 1
      /\ \A i \in 1 .. Len(seq) : Append(seq, x)[i] = seq[i]
      /\ Append(seq, x)[Len(seq) + 1] = x
      /\ DOMAIN seq = 1 .. Len(seq) /\ Len(seq) \in Nat
      /\ DOMAIN Append(seq, x) = 1 .. Len(seq) + 1
  BY AppendProperties, LenProperties
<1>2. 1 .. Len(seq) + 1 = (1 .. Len(seq)) \cup {Len(seq) + 1}
  BY <1>1
<1> QED
  BY <1>1, <1>2 DEF SeqRange

LEMMA RangeOfAppends ==
  ASSUME NEW S, NEW x \in S
  PROVE  \A seq \in Seq(S) : SeqRange(Append(seq, x)) = SeqRange(seq) \cup {x}
<1> SUFFICES ASSUME NEW seq \in Seq(S)
             PROVE  SeqRange(Append(seq, x)) = SeqRange(seq) \cup {x}
  OBVIOUS
<1> QED
  BY RangeOfAppend

LEMMA RangeOfTail ==
  ASSUME NEW S, NEW seq \in Seq(S), seq # <<>>
  PROVE  /\ Tail(seq) \in Seq(S)
         /\ SeqRange(seq) = {Head(seq)} \cup SeqRange(Tail(seq))
         /\ Head(seq) \in S
<1>1. /\ Tail(seq) \in Seq(S) /\ Head(seq) \in S
      /\ Len(Tail(seq)) = Len(seq) - 1
      /\ \A i \in 1 .. Len(Tail(seq)) : Tail(seq)[i] = seq[i + 1]
  BY HeadTailProperties
<1>2. /\ DOMAIN seq = 1 .. Len(seq) /\ Len(seq) \in Nat \ {0}
      /\ DOMAIN Tail(seq) = 1 .. Len(Tail(seq))
  BY <1>1, LenProperties, EmptySeq
<1>3. Head(seq) = seq[1] /\ 1 \in DOMAIN seq
  BY <1>2
<1>4. \A i \in DOMAIN Tail(seq) : i + 1 \in DOMAIN seq /\ Tail(seq)[i] = seq[i + 1]
  BY <1>1, <1>2
<1>5. \A i \in DOMAIN seq : i = 1 \/ (i - 1 \in DOMAIN Tail(seq) /\ Tail(seq)[i - 1] = seq[i])
  <2> SUFFICES ASSUME NEW i \in 1 .. Len(seq), i # 1
               PROVE  i - 1 \in 1 .. Len(Tail(seq)) /\ Tail(seq)[i - 1] = seq[i]
    BY <1>2
  <2>1. i - 1 \in 1 .. Len(Tail(seq)) /\ (i - 1) + 1 = i
    BY <1>1, <1>2
  <2> QED
    BY <1>1, <2>1
<1>6. SeqRange(Tail(seq)) \subseteq SeqRange(seq)
  BY <1>4 DEF SeqRange
<1>7. SeqRange(seq) \subseteq {Head(seq)} \cup SeqRange(Tail(seq))
  BY <1>3, <1>5 DEF SeqRange
<1>8. Head(seq) \in SeqRange(seq)
  BY <1>3 DEF SeqRange
<1> QED
  BY <1>1, <1>6, <1>7, <1>8

-----------------------------------------------------------------------------
(* Types.                                                                  *)

\* What a thread works with is typed while it is in a call.
LEMMA FramesTyped ==
  ASSUME TypeOK, NEW t \in Threads, pc[t] # "idle"
  PROVE  /\ frame[t].client \in Clients /\ frame[t].number \in Nat
         /\ frame[t].matched \in BOOLEAN
         /\ Request(frame[t].client, frame[t].number) \in Asked
  BY DEF TypeOK, Frames, Asked, Request

LEMMA ReturnTyped ==
  ASSUME TypeOK, NEW t \in Threads, Return(t)
  PROVE  /\ pc' \in [Threads -> {"idle", "ready", "write"}]
         /\ frame' \in [Threads -> Frames \cup {Idle}]
         /\ \A u \in Threads : pc'[u] # "idle" => frame'[u] \in Frames
         /\ pc'[t] = "idle"
         /\ \A u \in Threads \ {t} : pc'[u] = pc[u] /\ frame'[u] = frame[u]
  BY DEF TypeOK, Return

LEMMA BeginTyped ==
  ASSUME TypeOK, NEW t \in Threads, NEW f \in Frames, NEW where \in {"ready", "write"},
         pc' = [pc EXCEPT ![t] = where], frame' = [frame EXCEPT ![t] = f]
  PROVE  /\ pc' \in [Threads -> {"idle", "ready", "write"}]
         /\ frame' \in [Threads -> Frames \cup {Idle}]
         /\ \A u \in Threads : pc'[u] # "idle" => frame'[u] \in Frames
         /\ pc'[t] = where /\ frame'[t] = f
         /\ \A u \in Threads \ {t} : pc'[u] = pc[u] /\ frame'[u] = frame[u]
  BY DEF TypeOK

LEMMA TypeInit ==
  ASSUME Init
  PROVE  TypeOK
<1>1. /\ owed \in [Clients -> [up : Nat, down : Nat]]
      /\ readyCount \in [Clients -> Int] /\ next \in [Clients -> Nat]
  BY DEF Init
<1>2. /\ requests \in [Servers -> Seq(Samples)] /\ responses \in [Clients -> Seq(Samples)]
      /\ sent \in [Clients -> Seq(Nat)] /\ answered \in [Clients -> Seq(Nat)]
  BY DEF Init
<1>3. /\ pc \in [Threads -> {"idle", "ready", "write"}]
      /\ frame \in [Threads -> Frames \cup {Idle}]
      /\ \A t \in Threads : pc[t] # "idle" => frame[t] \in Frames
  BY DEF Init
<1> QED
  BY <1>1, <1>2, <1>3 DEF Init, TypeOK

LEMMA TypeDiscovery ==
  ASSUME TypeOK, NEW c \in Clients, NEW s \in Servers, Discovery(c, s)
  PROVE  TypeOK'
<1>1. /\ alive' \in SUBSET Servers
      /\ requestTo' \in [Clients -> SUBSET Servers]
      /\ responseTo' \in [Servers -> SUBSET Clients]
      /\ readyFrom' \in [Clients -> SUBSET Servers]
  <2>1. CASE Matching(c, s)
    BY <2>1 DEF TypeOK, Matching
  <2>2. CASE Registering(c, s)
    BY <2>2 DEF TypeOK, Registering
  <2>3. CASE Proving(c, s)
    BY <2>3 DEF TypeOK, Proving
  <2>4. CASE NoticeReaderGone(c, s)
    BY <2>4 DEF TypeOK, NoticeReaderGone
  <2>5. CASE NoticeWriterGone(c, s)
    BY <2>5 DEF TypeOK, NoticeWriterGone
  <2> QED
    BY <2>1, <2>2, <2>3, <2>4, <2>5 DEF Discovery
<1>2. owed' \in [Clients -> [up : Nat, down : Nat]]
  <2>1. owed[c] \in [up : Nat, down : Nat]
    BY DEF TypeOK
  <2>2. /\ [owed[c] EXCEPT !.up = owed[c].up + 1] \in [up : Nat, down : Nat]
        /\ [owed[c] EXCEPT !.down = owed[c].down + 1] \in [up : Nat, down : Nat]
    BY <2>1
  <2>3. \/ owed' = owed
        \/ owed' = [owed EXCEPT ![c] = [owed[c] EXCEPT !.up = owed[c].up + 1]]
        \/ owed' = [owed EXCEPT ![c] = [owed[c] EXCEPT !.down = owed[c].down + 1]]
    BY DEF TypeOK, Discovery, Matching, Registering, Proving, NoticeReaderGone, NoticeWriterGone
  <2> QED
    BY <2>2, <2>3 DEF TypeOK
<1> QED
  BY <1>1, <1>2 DEF TypeOK, Discovery, history

\* A call of the listener is one of those owed.
LEMMA ReadyListenerCalls ==
  ASSUME TypeOK, NEW c \in Clients, ReadyListener(c)
  PROVE  \/ /\ owed[c].up > 0
            /\ owed' = [owed EXCEPT ![c] = [owed[c] EXCEPT !.up = owed[c].up - 1]]
            /\ readyCount' = [readyCount EXCEPT ![c] = readyCount[c] + 1]
         \/ /\ owed[c].down > 0
            /\ owed' = [owed EXCEPT ![c] = [owed[c] EXCEPT !.down = owed[c].down - 1]]
            /\ readyCount' = [readyCount EXCEPT ![c] = readyCount[c] - 1]
<1>1. PICK ready \in BOOLEAN :
        /\ IF ready THEN owed[c].up > 0 ELSE owed[c].down > 0
        /\ owed' = IF ready THEN [owed EXCEPT ![c].up = @ - 1]
                            ELSE [owed EXCEPT ![c].down = @ - 1]
        /\ readyCount' = [readyCount EXCEPT ![c] = @ + ReadyDelta(ready)]
  BY DEF ReadyListener
<1>2. CASE ready
  BY <1>1, <1>2 DEF ReadyDelta
<1>3. CASE ~ready
  BY <1>1, <1>3 DEF ReadyDelta, TypeOK
<1> QED
  BY <1>2, <1>3

LEMMA TypeReadyListener ==
  ASSUME TypeOK, NEW c \in Clients, ReadyListener(c)
  PROVE  TypeOK'
<1> DEFINE upCalled   == [owed[c] EXCEPT !.up = owed[c].up - 1]
           downCalled == [owed[c] EXCEPT !.down = owed[c].down - 1]
<1>1. owed[c] \in [up : Nat, down : Nat] /\ readyCount[c] \in Int
  BY DEF TypeOK
<1>2. /\ owed[c].up > 0 => upCalled \in [up : Nat, down : Nat]
      /\ owed[c].down > 0 => downCalled \in [up : Nat, down : Nat]
  BY <1>1
<1>3. \/ owed[c].up > 0 /\ owed' = [owed EXCEPT ![c] = upCalled]
      \/ owed[c].down > 0 /\ owed' = [owed EXCEPT ![c] = downCalled]
  BY ReadyListenerCalls, Zenon
<1> HIDE DEF upCalled, downCalled
<1>4. owed' \in [Clients -> [up : Nat, down : Nat]]
  BY <1>2, <1>3 DEF TypeOK
<1>5. readyCount' \in [Clients -> Int]
  <2>1. \/ readyCount' = [readyCount EXCEPT ![c] = readyCount[c] + 1]
        \/ readyCount' = [readyCount EXCEPT ![c] = readyCount[c] - 1]
    BY ReadyListenerCalls, Zenon
  <2> QED
    BY <1>1, <2>1 DEF TypeOK
<1> QED
  BY <1>4, <1>5 DEF TypeOK, ReadyListener, history

LEMMA TypeThread ==
  ASSUME TypeOK, NEW t \in Threads,
         \/ \E c \in Clients : CheckMatched(t, c) \/ SendNumber(t, c)
         \/ CheckReady(t) \/ SendWrite(t)
  PROVE  TypeOK'
<1>1. ASSUME NEW c \in Clients, CheckMatched(t, c)
      PROVE  TypeOK'
  <2>1. [client |-> c, number |-> 0, matched |-> requestTo[c] # {}] \in Frames
    BY DEF Frames
  <2> QED
    BY <1>1, <2>1, BeginTyped DEF CheckMatched, TypeOK, ddsVars, history
<1>2. ASSUME NEW c \in Clients, SendNumber(t, c)
      PROVE  TypeOK'
  <2>1. [client |-> c, number |-> next[c], matched |-> FALSE] \in Frames
    BY DEF Frames, TypeOK
  <2>2. next' \in [Clients -> Nat]
    BY <1>2 DEF TypeOK, SendNumber, NumberAfter
  <2> QED
    BY <1>2, <2>1, <2>2, BeginTyped DEF SendNumber, TypeOK, ddsVars, history
<1>3. CASE CheckReady(t)
  <2>1. available' \in SUBSET Clients
    BY <1>3, FramesTyped DEF CheckReady, TypeOK
  <2> QED
    BY <1>3, <2>1, ReturnTyped DEF CheckReady, TypeOK, ddsVars, history
<1>4. CASE SendWrite(t)
  <2> DEFINE c == frame[t].client
             request == Request(c, frame[t].number)
  <2>1. /\ c \in Clients /\ frame[t].number \in Nat /\ request.number = frame[t].number
        /\ request \in Asked /\ request \in Samples
    BY <1>4, FramesTyped DEF SendWrite, Request, Samples
  <2>2. CASE UNCHANGED <<requests, sent, assured>>
    BY <1>4, <2>2, ReturnTyped DEF SendWrite, TypeOK, ddsVars
  <2>3. CASE /\ requests' = [s \in Servers |->
                               IF s \in requestTo[c] \cap alive
                               THEN Append(requests[s], request) ELSE requests[s]]
             /\ sent' = [sent EXCEPT ![c] = Append(sent[c], frame[t].number)]
             /\ assured' = IF c \in available THEN assured \cup {request} ELSE assured
    <3>1. \A s \in Servers : Append(requests[s], request) \in Seq(Samples)
      BY <2>1, RangeOfAppend DEF TypeOK
    <3>2. Append(sent[c], frame[t].number) \in Seq(Nat)
      BY <2>1, RangeOfAppend DEF TypeOK
    <3> HIDE DEF request
    <3>3. /\ requests' \in [Servers -> Seq(Samples)] /\ sent' \in [Clients -> Seq(Nat)]
          /\ assured' \in SUBSET Asked
      BY <2>1, <2>3, <3>1, <3>2 DEF TypeOK
    <3> QED
      BY <1>4, <3>3, ReturnTyped DEF SendWrite, TypeOK, ddsVars
  <2> QED
    BY <1>4, <2>1, <2>2, <2>3 DEF SendWrite, TypeOK
<1> QED
  BY <1>1, <1>2, <1>3, <1>4

\* What is no message is told by its kind.
LEMMA Strays ==
  ASSUME NEW kind \in {"no data", "malformed"}
  PROVE  /\ NoMessage(kind) \in Samples /\ NoMessage(kind) \notin Asked
         /\ NoMessage(kind).kind = kind
<1>1. \A c : [kind |-> kind, client |-> c, number |-> 0].kind = kind
  OBVIOUS
<1>2. NoMessage(kind).kind = kind
  BY <1>1, Zenon DEF NoMessage
<1>3. \A sample \in Asked : sample.kind = "message"
  BY DEF Asked
<1>4. kind # "message"
  OBVIOUS
<1>5. NoMessage(kind) \in Samples
  BY Zenon DEF Samples
<1> QED
  BY <1>2, <1>3, <1>4, <1>5

\* What take_service_message may do with a sample it has taken.
LEMMA VerdictFacts ==
  ASSUME NEW sample \in Samples, NEW c, NEW verdict \in Verdicts(sample, c)
  PROVE  /\ verdict \in {"nothing", "error", "given", "next"}
         /\ verdict = "given" => sample \in Asked /\ sample.client = c
         /\ verdict = "next" => sample.client # c
         /\ verdict = "nothing" => sample \notin Asked
<1>1. CASE sample.kind = "no data"
  BY <1>1 DEF Verdicts, Asked
<1>2. CASE sample.kind = "malformed"
  BY <1>2 DEF Verdicts, Unreadable
<1>3. CASE sample.kind # "no data" /\ sample.kind # "malformed"
  <2>1. sample \in Asked
    BY <1>3, Strays DEF Samples
  <2>2. verdict = "error" \/ verdict = IF sample.client = c THEN "given" ELSE "next"
    BY <1>3, <2>1 DEF Verdicts, Unreadable, IsOwn, Asked
  <2> QED
    BY <2>1, <2>2
<1> QED
  BY <1>1, <1>2, <1>3

\* A server has the request it takes, or its call reports an error about it.
LEMMA RequestTaken ==
  ASSUME TypeOK, NEW s \in Servers, TakeRequest(s)
  PROVE  /\ requests[s] # <<>>
         /\ requests' = [requests EXCEPT ![s] = Tail(requests[s])]
         /\ \/ /\ Head(requests[s]) \in Asked
               /\ taken' = [taken EXCEPT ![s] = taken[s] \cup {Head(requests[s])}]
               /\ lost' = lost
            \/ /\ taken' = taken
               /\ lost' = lost \cup {Head(requests[s])}
            \/ /\ Head(requests[s]) \notin Asked
               /\ taken' = taken /\ lost' = lost
<1> DEFINE request == Head(requests[s])
<1>1. PICK verdict \in Verdicts(request, request.client) :
        /\ taken' = IF verdict = "given" THEN [taken EXCEPT ![s] = taken[s] \cup {request}]
                                         ELSE taken
        /\ lost' = IF verdict = "error" /\ request.kind = "message"
                   THEN lost \cup {request} ELSE lost
  BY DEF TakeRequest
<1>2. requests[s] # <<>> /\ requests' = [requests EXCEPT ![s] = Tail(requests[s])]
  BY DEF TakeRequest
<1>3. request \in Samples
  BY <1>2, RangeOfTail DEF TypeOK
<1> HIDE DEF request
<1>5. request \in Asked => request.kind = "message"
  BY DEF Asked
<1>4. /\ verdict \in {"nothing", "error", "given", "next"}
      /\ verdict = "given" => request \in Asked
      /\ verdict # "next"
      /\ verdict = "nothing" => request \notin Asked
  BY <1>3, VerdictFacts
<1> QED
  BY <1>1, <1>2, <1>4, <1>5 DEF request

\* A client has the response to it that it takes, or its call reports an error.
LEMMA ResponseTaken ==
  ASSUME TypeOK, NEW t \in Takers, NEW c \in Clients, TakeNext(t, c)
  PROVE  /\ responses[c] # <<>>
         /\ responses' = [responses EXCEPT ![c] = Tail(responses[c])]
         /\ \/ /\ Head(responses[c]) \in Asked /\ Head(responses[c]).client = c
               /\ answered' = [answered EXCEPT ![c] = Append(answered[c], Head(responses[c]).number)]
               /\ lost' = lost
            \/ /\ answered' = answered
               /\ lost' = lost \cup {Head(responses[c])}
            \/ /\ Head(responses[c]) \in Asked => Head(responses[c]).client # c
               /\ answered' = answered /\ lost' = lost
<1> DEFINE response == Head(responses[c])
<1>1. PICK verdict \in Verdicts(response, c) :
        /\ answered' = IF verdict = "given"
                       THEN [answered EXCEPT ![c] = Append(answered[c], response.number)]
                       ELSE answered
        /\ lost' = IF verdict = "error" /\ response.client = c THEN lost \cup {response} ELSE lost
  BY DEF TakeNext
<1>2. responses[c] # <<>> /\ responses' = [responses EXCEPT ![c] = Tail(responses[c])]
  BY DEF TakeNext
<1>3. response \in Samples
  BY <1>2, RangeOfTail DEF TypeOK
<1> HIDE DEF response
<1>4. /\ verdict \in {"nothing", "error", "given", "next"}
      /\ verdict = "given" => response \in Asked /\ response.client = c
      /\ verdict = "next" => response.client # c
      /\ verdict = "nothing" => response \notin Asked
  BY <1>3, VerdictFacts
<1> QED
  BY <1>1, <1>2, <1>4 DEF response

LEMMA TypeServer ==
  ASSUME TypeOK, NEW s \in Servers,
         Depart(s) \/ TakeRequest(s) \/ \E request \in taken[s] : SendResponse(s, request)
  PROVE  TypeOK'
<1>1. CASE Depart(s)
  <2>1. /\ alive' \in SUBSET Servers /\ requests' \in [Servers -> Seq(Samples)]
        /\ taken' \in [Servers -> SUBSET Asked] /\ responseTo' \in [Servers -> SUBSET Clients]
    BY <1>1 DEF Depart, TypeOK
  <2> QED
    BY <1>1, <2>1 DEF Depart, TypeOK, history
<1>2. CASE TakeRequest(s)
  <2>1. Head(requests[s]) \in Samples /\ Tail(requests[s]) \in Seq(Samples)
    BY <1>2, RangeOfTail DEF TakeRequest, TypeOK
  <2>2. PICK request : request = Head(requests[s])
    OBVIOUS
  <2>3. /\ request \in Samples
        /\ requests' = [requests EXCEPT ![s] = Tail(requests[s])]
        /\ \/ request \in Asked /\ taken' = [taken EXCEPT ![s] = taken[s] \cup {request}]
           \/ taken' = taken
        /\ lost' = lost \/ lost' = lost \cup {request}
    BY <1>2, <2>1, <2>2, RequestTaken
  <2>4. /\ requests' \in [Servers -> Seq(Samples)] /\ lost' \in SUBSET Samples
        /\ taken' \in [Servers -> SUBSET Asked]
    <3>1. requests' \in [Servers -> Seq(Samples)]
      BY <2>1, <2>3 DEF TypeOK
    <3>2. lost' \in SUBSET Samples
      BY <2>3 DEF TypeOK
    <3>3. taken \in [Servers -> SUBSET Asked]
      BY DEF TypeOK
    <3>4. taken' \in [Servers -> SUBSET Asked]
      BY <2>3, <3>3
    <3> QED
      BY <3>1, <3>2, <3>4
  <2> QED
    BY <1>2, <2>4 DEF TakeRequest, TypeOK, ddsVars
<1>3. ASSUME NEW request \in taken[s], SendResponse(s, request)
      PROVE  TypeOK'
  <2>1. request \in Asked /\ request \in Samples
    BY DEF TypeOK, Samples
  <2>2. \A c \in Clients : Append(responses[c], request) \in Seq(Samples)
    BY <2>1, RangeOfAppend DEF TypeOK
  <2>3. /\ taken' \in [Servers -> SUBSET Asked] /\ responses' \in [Clients -> Seq(Samples)]
        /\ lost' \in SUBSET Samples
    BY <1>3, <2>1, <2>2 DEF SendResponse, TypeOK
  <2> QED
    BY <1>3, <2>3 DEF SendResponse, TypeOK, ddsVars
<1> QED
  BY <1>1, <1>2, <1>3

LEMMA StrayCounted ==
  ASSUME TypeOK, Stray
  PROVE  strays' \in Nat
<1>1. strays \in Nat /\ strays' = strays + 1
  BY Zenon DEF TypeOK, Stray
<1> QED
  BY <1>1

LEMMA TypeStray ==
  ASSUME TypeOK, Stray
  PROVE  TypeOK'
<1>5. strays' \in Nat
  BY StrayCounted
<1>1. PICK kind \in {"no data", "malformed"} :
        \/ /\ \E s \in alive : requests' = [requests EXCEPT ![s] = Append(requests[s], NoMessage(kind))]
           /\ UNCHANGED responses
        \/ /\ \E c \in Clients : responses' = [responses EXCEPT ![c] = Append(responses[c], NoMessage(kind))]
           /\ UNCHANGED requests
  BY DEF Stray
<1>2. PICK stray : stray = NoMessage(kind) /\ stray \in Samples
  BY Strays
<1>3. /\ \A s \in Servers : Append(requests[s], stray) \in Seq(Samples)
      /\ \A c \in Clients : Append(responses[c], stray) \in Seq(Samples)
  BY <1>2, RangeOfAppend DEF TypeOK
<1>4. requests' \in [Servers -> Seq(Samples)] /\ responses' \in [Clients -> Seq(Samples)]
  <2>1. \/ /\ \E s \in alive : requests' = [requests EXCEPT ![s] = Append(requests[s], stray)]
           /\ UNCHANGED responses
        \/ /\ \E c \in Clients : responses' = [responses EXCEPT ![c] = Append(responses[c], stray)]
           /\ UNCHANGED requests
    BY <1>1, <1>2, Zenon
  <2>2. /\ requests \in [Servers -> Seq(Samples)] /\ responses \in [Clients -> Seq(Samples)]
        /\ alive \subseteq Servers
    BY DEF TypeOK
  <2>3. CASE UNCHANGED responses /\ \E s \in alive : requests' = [requests EXCEPT ![s] = Append(requests[s], stray)]
    BY <1>3, <2>2, <2>3
  <2>4. CASE UNCHANGED requests /\ \E c \in Clients : responses' = [responses EXCEPT ![c] = Append(responses[c], stray)]
    BY <1>3, <2>2, <2>4
  <2> QED
    BY <2>1, <2>3, <2>4
<1> QED
  BY <1>4, <1>5 DEF Stray, TypeOK, ddsVars

LEMMA TypeTake ==
  ASSUME TypeOK, NEW t \in Takers, NEW c \in Clients,
         StartTake(t, c) \/ TakeNone(t, c) \/ TakeNext(t, c)
  PROVE  TypeOK'
<1>1. CASE StartTake(t, c)
  BY <1>1 DEF StartTake, TypeOK, ddsVars, history
<1>2. CASE TakeNone(t, c)
  BY <1>2 DEF TakeNone, EndTake, TypeOK, ddsVars, history
<1>3. CASE TakeNext(t, c)
  <2>1. Head(responses[c]) \in Samples /\ Tail(responses[c]) \in Seq(Samples)
    BY <1>3, RangeOfTail DEF TakeNext, TypeOK
  <2>2. /\ responses' \in [Clients -> Seq(Samples)] /\ lost' \in SUBSET Samples
        /\ taking' \in [Clients -> SUBSET Takers]
    <3>1. taking' = taking \/ taking' = [taking EXCEPT ![c] = taking[c] \ {t}]
      BY <1>3, Zenon DEF TakeNext, EndTake
    <3>2. /\ responses' = [responses EXCEPT ![c] = Tail(responses[c])]
          /\ lost' = lost \/ lost' = lost \cup {Head(responses[c])}
      BY <1>3, ResponseTaken
    <3>3. responses' \in [Clients -> Seq(Samples)] /\ lost' \in SUBSET Samples
      BY <2>1, <3>2 DEF TypeOK
    <3>4. taking' \in [Clients -> SUBSET Takers]
      <4>1. taking \in [Clients -> SUBSET Takers]
        BY DEF TypeOK
      <4>2. taking[c] \ {t} \in SUBSET Takers
        BY <4>1
      <4> QED
        BY <3>1, <4>1, <4>2
    <3> QED
      BY <3>3, <3>4
  <2>3. answered' \in [Clients -> Seq(Nat)]
    <3>1. CASE answered' = answered
      BY <3>1 DEF TypeOK
    <3>2. CASE /\ Head(responses[c]) \in Asked
               /\ answered' = [answered EXCEPT ![c] = Append(answered[c], Head(responses[c]).number)]
      <4>1. Append(answered[c], Head(responses[c]).number) \in Seq(Nat)
        BY <3>2, RangeOfAppend DEF Asked, TypeOK
      <4> QED
        BY <3>2, <4>1 DEF TypeOK
    <3> QED
      BY <1>3, <3>1, <3>2, ResponseTaken
  <2> QED
    BY <1>3, <2>2, <2>3 DEF TakeNext, TypeOK, ddsVars
<1> QED
  BY <1>1, <1>2, <1>3

-----------------------------------------------------------------------------
(* Numbers and messages.                                                   *)

\* What changes neither counters, requests sent nor the threads about to send
\* keeps the numbers as they are.
LEMMA NumbersKept ==
  ASSUME NumbersUsedOnce, UNCHANGED <<next, sent>>,
         \A t \in Threads : pc'[t] = "write" => pc[t] = "write" /\ frame'[t] = frame[t]
  PROVE  NumbersUsedOnce'
  BY DEF NumbersUsedOnce

\* A thread gets the number its client's counter shows, which is advanced.
LEMMA NumberTaken ==
  ASSUME TypeOK, NumbersUsedOnce, NEW t \in Threads, NEW c \in Clients, SendNumber(t, c)
  PROVE  NumbersUsedOnce'
<1> DEFINE f == [client |-> c, number |-> next[c], matched |-> FALSE]
<1>1. /\ pc' = [pc EXCEPT ![t] = "write"] /\ frame' = [frame EXCEPT ![t] = f]
      /\ next' = [next EXCEPT ![c] = next[c] + 1] /\ sent' = sent
  BY DEF SendNumber, NumberAfter, history
<1>2. f \in Frames /\ f.client = c /\ f.number = next[c] /\ next[c] \in Nat
  BY DEF Frames, TypeOK
<1> HIDE DEF f
<1>3. /\ frame'[t] = f /\ \A u \in Threads \ {t} : pc'[u] = pc[u] /\ frame'[u] = frame[u]
  BY <1>1, <1>2, BeginTyped
<1>4. next'[c] = next[c] + 1 /\ \A d \in Clients : next'[d] >= next[d]
  BY <1>1 DEF TypeOK
<1>5. \A d \in Clients : \A n \in SeqRange(sent[d]) : n \in Nat
  <2>1. \A d \in Clients : sent[d] \in Seq(Nat)
    BY DEF TypeOK
  <2>2. ASSUME NEW z \in Seq(Nat)
        PROVE  \A n \in SeqRange(z) : n \in Nat
    BY LenProperties, ElementOfSeq DEF SeqRange
  <2> QED
    BY <2>1, <2>2
<1>6. \A d \in Clients : \A n \in SeqRange(sent'[d]) : n < next'[d]
  BY <1>1, <1>4, <1>5 DEF NumbersUsedOnce, TypeOK
<1>7. \A d \in Clients : \A i, j \in DOMAIN sent'[d] : sent'[d][i] = sent'[d][j] => i = j
  BY <1>1 DEF NumbersUsedOnce
<1>8. \A u \in Threads : pc'[u] = "write" =>
        /\ frame'[u].number < next'[frame'[u].client]
        /\ frame'[u].number \notin SeqRange(sent'[frame'[u].client])
  <2>1. f.number < next'[c] /\ f.number \notin SeqRange(sent[c])
    BY <1>2, <1>4, <1>5 DEF NumbersUsedOnce
  <2>2. ASSUME NEW u \in Threads \ {t}, pc'[u] = "write"
        PROVE  /\ frame'[u].number < next'[frame'[u].client]
               /\ frame'[u].number \notin SeqRange(sent'[frame'[u].client])
    <3>1. pc[u] = "write" /\ frame'[u] = frame[u]
      BY <1>3, <2>2
    <3>2. frame[u].client \in Clients /\ frame[u].number \in Nat
      BY <3>1, FramesTyped
    <3>3. next'[frame[u].client] >= next[frame[u].client]
      BY <1>4, <3>2
    <3>4. next'[frame[u].client] \in Nat /\ next[frame[u].client] \in Nat
      <4>1. next \in [Clients -> Nat] /\ next' \in [Clients -> Nat]
        BY <1>1, <1>2 DEF TypeOK
      <4> QED
        BY <3>2, <4>1
    <3> QED
      BY <1>1, <3>1, <3>2, <3>3, <3>4 DEF NumbersUsedOnce
  <2> QED
    BY <1>1, <1>2, <1>3, <2>1, <2>2
<1>9. \A u, v \in Threads :
        u # v /\ pc'[u] = "write" /\ pc'[v] = "write" /\ frame'[u].client = frame'[v].client
          => frame'[u].number # frame'[v].number
  <2>1. ASSUME NEW u \in Threads \ {t}, pc[u] = "write", frame[u].client = c
        PROVE  frame[u].number # next[c]
    <3>1. frame[u].number \in Nat
      BY <2>1, FramesTyped
    <3> QED
      BY <1>2, <2>1, <3>1 DEF NumbersUsedOnce
  <2> QED
    BY <1>2, <1>3, <2>1 DEF NumbersUsedOnce
<1> QED
  BY <1>6, <1>7, <1>8, <1>9 DEF NumbersUsedOnce

\* A request that is written: what SendWrite does to the history.
LEMMA Written ==
  ASSUME TypeOK, NEW t \in Threads, SendWrite(t)
  PROVE  /\ pc[t] = "write"
         /\ frame[t].client \in Clients /\ frame[t].number \in Nat
         /\ pc'[t] = "idle" /\ \A u \in Threads \ {t} : pc'[u] = pc[u] /\ frame'[u] = frame[u]
         /\ UNCHANGED <<next, taken, responses, answered>>
         /\ \/ UNCHANGED <<requests, sent>>
            \/ /\ sent' = [sent EXCEPT ![frame[t].client] = Append(@, frame[t].number)]
               /\ \A s \in Servers :
                    \/ requests'[s] = requests[s]
                    \/ requests'[s] = Append(requests[s], Request(frame[t].client, frame[t].number))
         /\ \A c \in Clients : SeqRange(sent[c]) \subseteq SeqRange(sent'[c])
<1>1. /\ pc[t] = "write" /\ frame[t].client \in Clients /\ frame[t].number \in Nat
      /\ pc'[t] = "idle" /\ \A u \in Threads \ {t} : pc'[u] = pc[u] /\ frame'[u] = frame[u]
      /\ UNCHANGED <<next, taken, responses, answered>>
  BY FramesTyped, ReturnTyped DEF SendWrite
<1>2. \/ UNCHANGED <<requests, sent>>
      \/ /\ sent' = [sent EXCEPT ![frame[t].client] = Append(@, frame[t].number)]
         /\ \A s \in Servers :
              \/ requests'[s] = requests[s]
              \/ requests'[s] = Append(requests[s], Request(frame[t].client, frame[t].number))
  BY DEF SendWrite, Request
<1>3. SeqRange(Append(sent[frame[t].client], frame[t].number))
        = SeqRange(sent[frame[t].client]) \cup {frame[t].number}
  <2>1. sent[frame[t].client] \in Seq(Nat)
    BY <1>1 DEF TypeOK
  <2> QED
    BY <1>1, <2>1, RangeOfAppend
<1>4. \A c \in Clients : SeqRange(sent[c]) \subseteq SeqRange(sent'[c])
  BY <1>1, <1>2, <1>3 DEF TypeOK
<1> QED
  BY <1>1, <1>2, <1>4

LEMMA NumberWritten ==
  ASSUME TypeOK, NumbersUsedOnce, NEW t \in Threads, SendWrite(t)
  PROVE  NumbersUsedOnce'
<1> DEFINE c == frame[t].client
           n == frame[t].number
<1>1. /\ pc[t] = "write" /\ c \in Clients /\ n \in Nat /\ next' = next
      /\ pc'[t] = "idle" /\ \A u \in Threads \ {t} : pc'[u] = pc[u] /\ frame'[u] = frame[u]
  BY Written
<1>2. CASE sent' = sent
  BY <1>1, <1>2, NumbersKept
<1>3. CASE sent' = [sent EXCEPT ![c] = Append(sent[c], n)]
  <2>1. /\ sent'[c] = Append(sent[c], n) /\ sent[c] \in Seq(Nat)
        /\ \A d \in Clients \ {c} : sent'[d] = sent[d]
    BY <1>1, <1>3 DEF TypeOK
  <2>2. SeqRange(sent'[c]) = SeqRange(sent[c]) \cup {n}
    BY <1>1, <2>1, RangeOfAppend
  <2>3. n < next[c] /\ n \notin SeqRange(sent[c])
    BY <1>1 DEF NumbersUsedOnce
  <2>4. \A d \in Clients : \A m \in SeqRange(sent'[d]) : m < next'[d]
    BY <1>1, <2>1, <2>2, <2>3 DEF NumbersUsedOnce
  <2>5. \A d \in Clients : \A i, j \in DOMAIN sent'[d] : sent'[d][i] = sent'[d][j] => i = j
    <3>1. /\ DOMAIN sent[c] = 1 .. Len(sent[c]) /\ Len(sent[c]) \in Nat
          /\ DOMAIN sent'[c] = 1 .. Len(sent[c]) + 1
          /\ \A i \in 1 .. Len(sent[c]) : sent'[c][i] = sent[c][i]
          /\ sent'[c][Len(sent[c]) + 1] = n
      BY <1>1, <2>1, AppendProperties, LenProperties
    <3>2. \A i \in 1 .. Len(sent[c]) : sent[c][i] # n
      BY <2>3, <3>1 DEF SeqRange
    <3>3. \A i, j \in 1 .. Len(sent[c]) : sent[c][i] = sent[c][j] => i = j
      BY <1>1, <3>1 DEF NumbersUsedOnce
    <3>4. ASSUME NEW i \in DOMAIN sent'[c], NEW j \in DOMAIN sent'[c], sent'[c][i] = sent'[c][j]
          PROVE  i = j
      <4>1. CASE i \in 1 .. Len(sent[c]) /\ j \in 1 .. Len(sent[c])
        BY <3>1, <3>3, <3>4, <4>1
      <4>2. CASE i = Len(sent[c]) + 1 /\ j \in 1 .. Len(sent[c])
        BY <3>1, <3>2, <3>4, <4>2
      <4>3. CASE j = Len(sent[c]) + 1 /\ i \in 1 .. Len(sent[c])
        BY <3>1, <3>2, <3>4, <4>3
      <4>4. CASE i = Len(sent[c]) + 1 /\ j = Len(sent[c]) + 1
        BY <4>4
      <4> QED
        BY <3>1, <4>1, <4>2, <4>3, <4>4
    <3> QED
      BY <2>1, <3>4 DEF NumbersUsedOnce
  <2>6. ASSUME NEW u \in Threads, pc'[u] = "write"
        PROVE  /\ frame'[u].number < next'[frame'[u].client]
               /\ frame'[u].number \notin SeqRange(sent'[frame'[u].client])
    <3>1. u # t /\ pc[u] = "write" /\ frame'[u] = frame[u]
      BY <1>1, <2>6
    <3>2. frame[u].client \in Clients
      BY <3>1, FramesTyped
    <3>3. frame[u].client = c => frame[u].number # n
      BY <1>1, <3>1 DEF NumbersUsedOnce
    <3>4. frame[u].number < next[frame[u].client] /\ frame[u].number \notin SeqRange(sent[frame[u].client])
      BY <3>1 DEF NumbersUsedOnce
    <3>5. SeqRange(sent'[frame[u].client])
            = IF frame[u].client = c THEN SeqRange(sent[c]) \cup {n} ELSE SeqRange(sent[frame[u].client])
      BY <2>1, <2>2, <3>2
    <3> HIDE DEF c, n
    <3> QED
      BY <1>1, <3>1, <3>3, <3>4, <3>5
  <2>7. \A u, v \in Threads :
          u # v /\ pc'[u] = "write" /\ pc'[v] = "write" /\ frame'[u].client = frame'[v].client
            => frame'[u].number # frame'[v].number
    BY <1>1 DEF NumbersUsedOnce
  <2> QED
    BY <2>4, <2>5, <2>6, <2>7 DEF NumbersUsedOnce
<1> QED
  BY <1>2, <1>3, Written


LEMMA GenuineKept ==
  ASSUME MessagesAreGenuine, TypeOK, UNCHANGED <<sent, answered>>,
         \A s \in Servers : SeqRange(requests'[s]) \cup taken'[s]
                              \subseteq SeqRange(requests[s]) \cup taken[s],
         \A c \in Clients : SeqRange(responses'[c]) \subseteq SeqRange(responses[c])
  PROVE  MessagesAreGenuine'
  BY DEF MessagesAreGenuine, Genuine

\* A server or a client has, and is reached by, nothing but samples.
LEMMA MessagesTyped ==
  ASSUME TypeOK
  PROVE  /\ \A s \in Servers : SeqRange(requests[s]) \cup taken[s] \subseteq Samples
         /\ \A c \in Clients : SeqRange(responses[c]) \subseteq Samples
<1>1. ASSUME NEW seq \in Seq(Samples)
      PROVE  SeqRange(seq) \subseteq Samples
  BY LenProperties, ElementOfSeq DEF SeqRange
<1> QED
  BY <1>1 DEF TypeOK, Samples

LEMMA GenuineWritten ==
  ASSUME TypeOK, MessagesAreGenuine, NEW t \in Threads, SendWrite(t)
  PROVE  MessagesAreGenuine'
<1> DEFINE c == frame[t].client
           n == frame[t].number
           written == Request(c, n)
<1>1. /\ c \in Clients /\ n \in Nat
      /\ UNCHANGED <<taken, responses, answered>>
      /\ \A d \in Clients : SeqRange(sent[d]) \subseteq SeqRange(sent'[d])
      /\ \/ UNCHANGED <<requests, sent>>
         \/ /\ sent' = [sent EXCEPT ![c] = Append(sent[c], n)]
            /\ \A s \in Servers : requests'[s] \in {requests[s], Append(requests[s], written)}
  BY Written
<1>2. \A message \in Samples : Genuine(message) => Genuine(message)'
  <2> SUFFICES ASSUME NEW message \in Samples, Genuine(message)
               PROVE  Genuine(message)'
    OBVIOUS
  <2>1. CASE message \in Asked
    BY <1>1, <2>1 DEF Genuine, Asked
  <2>2. CASE message \in {NoMessage("no data"), NoMessage("malformed")}
    BY <2>2, Strays DEF Genuine
  <2> QED
    BY <2>1, <2>2 DEF Samples
<1>3. CASE UNCHANGED <<requests, sent>>
  BY <1>1, <1>3, GenuineKept
<1>4. CASE /\ sent' = [sent EXCEPT ![c] = Append(sent[c], n)]
           /\ \A s \in Servers : requests'[s] \in {requests[s], Append(requests[s], written)}
  <2>1. PICK request \in Samples : request = written /\ request.client = c /\ request.number = n
    <3>1. written \in Asked /\ written.client = c /\ written.number = n
      BY <1>1 DEF Asked, Request
    <3> QED
      BY <3>1 DEF Samples
  <2>2. sent[c] \in Seq(Nat) /\ sent'[c] = Append(sent[c], n)
    BY <1>1, <1>4 DEF TypeOK
  <2> HIDE DEF c, n, written
  <2>3. Genuine(request)'
    <3>1. SeqRange(Append(sent[c], n)) = SeqRange(sent[c]) \cup {n}
      BY <1>1, <2>2, RangeOfAppend
    <3> QED
      BY <2>1, <2>2, <3>1 DEF Genuine
  <2>4. \A s \in Servers : SeqRange(requests'[s]) \subseteq SeqRange(requests[s]) \cup {request}
    <3>1. \A s \in Servers : SeqRange(Append(requests[s], request)) = SeqRange(requests[s]) \cup {request}
      BY <2>1, RangeOfAppend DEF TypeOK
    <3> QED
      BY <1>4, <2>1, <3>1
  <2>5. \A s \in Servers : \A message \in SeqRange(requests'[s]) \cup taken'[s] : Genuine(message)'
    <3> SUFFICES ASSUME NEW s \in Servers, NEW message \in SeqRange(requests'[s]) \cup taken'[s]
                 PROVE  Genuine(message)'
      OBVIOUS
    <3>1. message = request \/ message \in SeqRange(requests[s]) \cup taken[s]
      BY <1>1, <2>4
    <3>2. CASE message \in SeqRange(requests[s]) \cup taken[s]
      BY <1>2, <3>2, MessagesTyped DEF MessagesAreGenuine
    <3> QED
      BY <2>3, <3>1, <3>2
  <2>6. \A d \in Clients : \A message \in SeqRange(responses'[d]) : Genuine(message)'
    BY <1>1, <1>2, MessagesTyped DEF MessagesAreGenuine
  <2>7. \A d \in Clients : SeqRange(answered'[d]) \subseteq SeqRange(sent'[d])
    BY <1>1 DEF MessagesAreGenuine
  <2> QED
    BY <2>5, <2>6, <2>7 DEF MessagesAreGenuine
<1> QED
  BY <1>1, <1>3, <1>4

LEMMA GenuineServed ==
  ASSUME TypeOK, MessagesAreGenuine, NEW s \in Servers,
         Depart(s) \/ TakeRequest(s) \/ \E request \in taken[s] : SendResponse(s, request)
  PROVE  MessagesAreGenuine'
<1>1. CASE Depart(s)
  <2>1. SeqRange(<<>>) = {}
    BY DEF SeqRange
  <2>2. \A r \in Servers : SeqRange(requests'[r]) \cup taken'[r]
                             \subseteq SeqRange(requests[r]) \cup taken[r]
    BY <1>1, <2>1 DEF Depart, TypeOK
  <2> QED
    BY <1>1, <2>2, GenuineKept DEF Depart, history
<1>2. CASE TakeRequest(s)
  <2>1. SeqRange(requests[s]) = {Head(requests[s])} \cup SeqRange(Tail(requests[s]))
    BY <1>2, RangeOfTail DEF TakeRequest, TypeOK
  <2>2. \A r \in Servers : SeqRange(requests'[r]) \cup taken'[r]
                             \subseteq SeqRange(requests[r]) \cup taken[r]
    <3>1. PICK request : request = Head(requests[s])
      OBVIOUS
    <3>2. /\ SeqRange(requests[s]) = {request} \cup SeqRange(Tail(requests[s]))
          /\ requests' = [requests EXCEPT ![s] = Tail(requests[s])]
          /\ taken' = taken \/ taken' = [taken EXCEPT ![s] = taken[s] \cup {request}]
      BY <1>2, <2>1, <3>1, RequestTaken
    <3> QED
      BY <3>2 DEF TypeOK
  <2> QED
    BY <1>2, <2>2, GenuineKept DEF TakeRequest
<1>3. ASSUME NEW request \in taken[s], SendResponse(s, request)
      PROVE  MessagesAreGenuine'
  <2>1. UNCHANGED <<sent, answered, requests>> /\ \A r \in Servers : taken'[r] \subseteq taken[r]
    BY <1>3 DEF SendResponse, TypeOK
  <2>2. \A c \in Clients : responses'[c] \in {responses[c], Append(responses[c], request)}
    BY <1>3 DEF SendResponse
  <2>3. \A c \in Clients :
          SeqRange(Append(responses[c], request)) = SeqRange(responses[c]) \cup {request}
    <3>1. request \in Samples
      BY DEF TypeOK, Samples
    <3> QED
      BY <3>1, RangeOfAppend DEF TypeOK
  <2>4. \A c \in Clients : SeqRange(responses'[c]) \subseteq SeqRange(responses[c]) \cup {request}
    BY <2>2, <2>3
  <2>5. Genuine(request)
    BY DEF MessagesAreGenuine
  <2> QED
    BY <2>1, <2>4, <2>5 DEF MessagesAreGenuine, Genuine
<1> QED
  BY <1>1, <1>2, <1>3

LEMMA GenuineAnswered ==
  ASSUME TypeOK, MessagesAreGenuine, NEW t \in Takers, NEW c \in Clients, TakeNext(t, c)
  PROVE  MessagesAreGenuine'
<1>1. SeqRange(responses[c]) = {Head(responses[c])} \cup SeqRange(Tail(responses[c]))
  BY ResponseTaken, RangeOfTail DEF TypeOK
<1>2. \A d \in Clients : SeqRange(responses'[d]) \subseteq SeqRange(responses[d])
  <2>1. responses' = [responses EXCEPT ![c] = Tail(responses[c])]
    BY ResponseTaken
  <2> QED
    BY <1>1, <2>1 DEF TypeOK
<1>3. SeqRange(answered'[c]) \subseteq SeqRange(sent[c])
  <2>1. CASE answered' = answered
    BY <2>1 DEF MessagesAreGenuine
  <2>2. CASE /\ Head(responses[c]) \in Asked /\ Head(responses[c]).client = c
             /\ answered' = [answered EXCEPT ![c] = Append(answered[c], Head(responses[c]).number)]
    <3>1. Head(responses[c]).number \in Nat /\ answered[c] \in Seq(Nat)
      BY <2>2 DEF Asked, TypeOK
    <3>2. SeqRange(answered'[c]) = SeqRange(answered[c]) \cup {Head(responses[c]).number}
      <4>1. answered'[c] = Append(answered[c], Head(responses[c]).number)
        BY <2>2 DEF TypeOK
      <4> QED
        BY <3>1, <4>1, RangeOfAppend
    <3>3. Head(responses[c]).number \in SeqRange(sent[c])
      BY <1>1, <2>2 DEF MessagesAreGenuine, Genuine, Asked
    <3> QED
      BY <3>2, <3>3 DEF MessagesAreGenuine
  <2> QED
    BY <2>1, <2>2, ResponseTaken
<1>4. UNCHANGED <<sent, requests, taken>> /\ \A d \in Clients \ {c} : answered'[d] = answered[d]
  BY ResponseTaken DEF TakeNext, TypeOK
<1> QED
  BY <1>2, <1>3, <1>4 DEF MessagesAreGenuine, Genuine

\* A sample that is no message is about nothing.
LEMMA GenuineStray ==
  ASSUME TypeOK, MessagesAreGenuine, Stray
  PROVE  MessagesAreGenuine'
<1>1. PICK kind \in {"no data", "malformed"} :
        \/ /\ \E s \in alive : requests' = [requests EXCEPT ![s] = Append(requests[s], NoMessage(kind))]
           /\ UNCHANGED responses
        \/ /\ \E c \in Clients : responses' = [responses EXCEPT ![c] = Append(responses[c], NoMessage(kind))]
           /\ UNCHANGED requests
  BY DEF Stray
<1>2. PICK stray : stray = NoMessage(kind) /\ stray \in Samples /\ Genuine(stray)
  BY Strays DEF Genuine
<1>3. /\ \A s \in Servers : SeqRange(requests'[s]) \subseteq SeqRange(requests[s]) \cup {stray}
      /\ \A c \in Clients : SeqRange(responses'[c]) \subseteq SeqRange(responses[c]) \cup {stray}
  <2>1. /\ \A s \in Servers : SeqRange(Append(requests[s], stray)) = SeqRange(requests[s]) \cup {stray}
        /\ \A c \in Clients : SeqRange(Append(responses[c], stray)) = SeqRange(responses[c]) \cup {stray}
    <3>1. \A seq \in Seq(Samples) : SeqRange(Append(seq, stray)) = SeqRange(seq) \cup {stray}
      BY <1>2, RangeOfAppends, Zenon
    <3> QED
      BY <3>1 DEF TypeOK
  <2>2. \/ /\ \E s \in alive : requests' = [requests EXCEPT ![s] = Append(requests[s], stray)]
           /\ UNCHANGED responses
        \/ /\ \E c \in Clients : responses' = [responses EXCEPT ![c] = Append(responses[c], stray)]
           /\ UNCHANGED requests
    BY <1>1, <1>2, Zenon
  <2> QED
    BY <2>1, <2>2 DEF TypeOK
<1>4. UNCHANGED <<sent, answered, taken>>
  BY DEF Stray
<1> QED
  BY <1>2, <1>3, <1>4 DEF MessagesAreGenuine, Genuine


-----------------------------------------------------------------------------
(* Ready writers.                                                          *)

LEMMA ReadyDiscovered ==
  ASSUME TypeOK, ReadyCounted, NEW c \in Clients, NEW s \in Servers, Discovery(c, s)
  PROVE  ReadyCounted'
<1> USE DEF TypeOK
<1>0. readyCount' = readyCount
  BY DEF Discovery
<1>1. CASE UNCHANGED <<readyFrom, owed>>
  BY <1>0, <1>1 DEF ReadyCounted
<1>2. CASE Proving(c, s)
  <2>1. /\ readyFrom'[c] = readyFrom[c] \cup {s} /\ s \notin readyFrom[c]
        /\ owed'[c].up = owed[c].up + 1 /\ owed'[c].down = owed[c].down
        /\ \A d \in Clients \ {c} : readyFrom'[d] = readyFrom[d] /\ owed'[d] = owed[d]
    BY <1>2 DEF Proving
  <2>2. /\ IsFiniteSet(readyFrom'[c])
        /\ Cardinality(readyFrom'[c]) = Cardinality(readyFrom[c]) + 1
    <3>1. IsFiniteSet(readyFrom[c])
      BY DEF ReadyCounted
    <3> HIDE DEF TypeOK
    <3>2. /\ IsFiniteSet(readyFrom[c] \cup {s})
          /\ Cardinality(readyFrom[c] \cup {s}) = Cardinality(readyFrom[c]) + 1
      BY <2>1, <3>1, FS_AddElement
    <3> QED
      BY <2>1, <3>2
  <2>3. /\ readyCount[c] \in Int /\ owed[c].up \in Nat /\ owed[c].down \in Nat
        /\ readyCount[c] + owed[c].up - owed[c].down = Cardinality(readyFrom[c])
    BY DEF ReadyCounted
  <2>4. readyCount'[c] + owed'[c].up - owed'[c].down = Cardinality(readyFrom'[c])
    BY <1>0, <2>1, <2>2, <2>3
  <2> QED
    BY <1>0, <2>1, <2>2, <2>4 DEF ReadyCounted
<1>3. CASE NoticeWriterGone(c, s)
  <2>1. /\ readyFrom'[c] = readyFrom[c] \ {s} /\ s \in readyFrom[c]
        /\ owed'[c].up = owed[c].up /\ owed'[c].down = owed[c].down + 1
        /\ \A d \in Clients \ {c} : readyFrom'[d] = readyFrom[d] /\ owed'[d] = owed[d]
    BY <1>3 DEF NoticeWriterGone
  <2>2. /\ IsFiniteSet(readyFrom'[c]) /\ Cardinality(readyFrom[c]) \in Nat
        /\ Cardinality(readyFrom'[c]) = Cardinality(readyFrom[c]) - 1
    BY <2>1, FS_RemoveElement, FS_CardinalityType DEF ReadyCounted
  <2>3. /\ readyCount[c] \in Int /\ owed[c].up \in Nat /\ owed[c].down \in Nat
        /\ readyCount[c] + owed[c].up - owed[c].down = Cardinality(readyFrom[c])
    BY DEF ReadyCounted
  <2>4. readyCount'[c] + owed'[c].up - owed'[c].down = Cardinality(readyFrom'[c])
    BY <1>0, <2>1, <2>2, <2>3
  <2> QED
    BY <1>0, <2>1, <2>2, <2>4 DEF ReadyCounted
<1> QED
  BY <1>1, <1>2, <1>3 DEF Discovery, Matching, Registering, NoticeReaderGone

\* A listener's call moves one from what is owed to the count.
LEMMA ReadyListened ==
  ASSUME TypeOK, ReadyCounted, NEW c \in Clients, ReadyListener(c)
  PROVE  ReadyCounted'
<1>1. /\ readyFrom' = readyFrom /\ owed[c] \in [up : Nat, down : Nat] /\ readyCount[c] \in Int
      /\ readyCount[c] + owed[c].up - owed[c].down = Cardinality(readyFrom[c])
  BY DEF ReadyListener, TypeOK, ReadyCounted
<1> DEFINE upCalled   == [owed[c] EXCEPT !.up = owed[c].up - 1]
           downCalled == [owed[c] EXCEPT !.down = owed[c].down - 1]
<1>2. \/ /\ owed' = [owed EXCEPT ![c] = upCalled]
         /\ readyCount' = [readyCount EXCEPT ![c] = readyCount[c] + 1]
      \/ /\ owed' = [owed EXCEPT ![c] = downCalled]
         /\ readyCount' = [readyCount EXCEPT ![c] = readyCount[c] - 1]
  BY ReadyListenerCalls, Zenon
<1>3. /\ upCalled.up = owed[c].up - 1 /\ upCalled.down = owed[c].down
      /\ downCalled.up = owed[c].up /\ downCalled.down = owed[c].down - 1
  BY <1>1
<1> HIDE DEF upCalled, downCalled
<1>4. /\ \A d \in Clients \ {c} : owed'[d] = owed[d] /\ readyCount'[d] = readyCount[d]
      /\ \/ owed'[c] = upCalled /\ readyCount'[c] = readyCount[c] + 1
         \/ owed'[c] = downCalled /\ readyCount'[c] = readyCount[c] - 1
  BY <1>2 DEF TypeOK
<1>5. \/ /\ owed'[c].up = owed[c].up - 1 /\ owed'[c].down = owed[c].down
         /\ readyCount'[c] = readyCount[c] + 1
      \/ /\ owed'[c].up = owed[c].up /\ owed'[c].down = owed[c].down - 1
         /\ readyCount'[c] = readyCount[c] - 1
  BY <1>3, <1>4
<1>6. readyCount'[c] + owed'[c].up - owed'[c].down = Cardinality(readyFrom[c])
  BY <1>1, <1>5
<1> QED
  BY <1>1, <1>4, <1>6 DEF ReadyCounted

-----------------------------------------------------------------------------
(* The invariant.                                                          *)

LEMMA InitInv ==
  ASSUME Init
  PROVE  IInv
<1>1. SeqRange(<<>>) = {}
  BY DEF SeqRange
<1>2. NumbersUsedOnce
  BY <1>1 DEF Init, NumbersUsedOnce
<1>3. MessagesAreGenuine
  BY <1>1 DEF Init, MessagesAreGenuine
<1>4. ReadyCounted
  BY FS_EmptySet DEF Init, ReadyCounted
<1> QED
  BY <1>2, <1>3, <1>4, TypeInit DEF IInv

LEMMA NextInv ==
  ASSUME IInv, [Next]_vars
  PROVE  IInv'
<1> USE DEF IInv
<1>1. ASSUME NEW c \in Clients, NEW s \in Servers, Discovery(c, s)
      PROVE  IInv'
  <2>1. NumbersUsedOnce'
    BY <1>1, NumbersKept DEF Discovery, history
  <2>2. MessagesAreGenuine'
    BY <1>1, GenuineKept DEF Discovery, history
  <2> QED
    BY <1>1, <2>1, <2>2, TypeDiscovery, ReadyDiscovered
<1>2. ASSUME NEW s \in Servers, Depart(s) \/ ServerStep(s)
      PROVE  IInv'
  <2>1. NumbersUsedOnce'
    BY <1>2, NumbersKept DEF Depart, ServerStep, TakeRequest, SendResponse, history
  <2>2. ReadyCounted'
    BY <1>2 DEF ReadyCounted, Depart, ServerStep, TakeRequest, SendResponse, ddsVars
  <2> QED
    BY <1>2, <2>1, <2>2, TypeServer, GenuineServed DEF ServerStep
<1>3. ASSUME NEW c \in Clients, ReadyListener(c)
      PROVE  IInv'
  <2>1. NumbersUsedOnce'
    BY <1>3, NumbersKept DEF ReadyListener, history
  <2>2. MessagesAreGenuine'
    BY <1>3, GenuineKept DEF ReadyListener, history
  <2> QED
    BY <1>3, <2>1, <2>2, TypeReadyListener, ReadyListened
<1>4. ASSUME NEW t \in Takers, NEW c \in Clients,
             StartTake(t, c) \/ TakeNone(t, c) \/ TakeNext(t, c)
      PROVE  IInv'
  <2>1. NumbersUsedOnce'
    BY <1>4, NumbersKept DEF StartTake, TakeNone, TakeNext, history
  <2>2. ReadyCounted'
    BY <1>4 DEF ReadyCounted, StartTake, TakeNone, TakeNext, ddsVars
  <2>3. StartTake(t, c) \/ TakeNone(t, c) => MessagesAreGenuine'
    BY GenuineKept DEF StartTake, TakeNone, history
  <2> QED
    BY <1>4, <2>1, <2>2, <2>3, TypeTake, GenuineAnswered
<1>10. CASE Stray
  <2>1. NumbersUsedOnce'
    BY <1>10, NumbersKept DEF Stray
  <2>2. ReadyCounted'
    BY <1>10 DEF ReadyCounted, Stray, ddsVars
  <2> QED
    BY <1>10, <2>1, <2>2, TypeStray, GenuineStray
<1>5. ASSUME NEW t \in Threads, NEW c \in Askers, CheckMatched(t, c)
      PROVE  IInv'
  <2>1. c \in Clients
    BY ServiceConstants
  <2>2. TypeOK'
    BY <1>5, <2>1, TypeThread
  <2>3. \A u \in Threads : pc'[u] = "write" => pc[u] = "write" /\ frame'[u] = frame[u]
    BY <1>5 DEF CheckMatched, TypeOK
  <2>4. NumbersUsedOnce'
    BY <1>5, <2>3, NumbersKept DEF CheckMatched, history
  <2>5. MessagesAreGenuine'
    BY <1>5, GenuineKept DEF CheckMatched, history
  <2>6. ReadyCounted'
    BY <1>5 DEF ReadyCounted, CheckMatched, ddsVars
  <2> QED
    BY <2>2, <2>4, <2>5, <2>6
<1>6. ASSUME NEW t \in Threads, NEW c \in Clients, SendNumber(t, c)
      PROVE  IInv'
  <2>1. MessagesAreGenuine'
    BY <1>6, GenuineKept DEF SendNumber, history
  <2>2. ReadyCounted'
    BY <1>6 DEF ReadyCounted, SendNumber, ddsVars
  <2> QED
    BY <1>6, <2>1, <2>2, TypeThread, NumberTaken
<1>7. ASSUME NEW t \in Threads, CheckReady(t)
      PROVE  IInv'
  <2>1. \A u \in Threads : pc'[u] = "write" => pc[u] = "write" /\ frame'[u] = frame[u]
    BY <1>7, ReturnTyped DEF CheckReady
  <2>2. NumbersUsedOnce'
    BY <1>7, <2>1, NumbersKept DEF CheckReady, history
  <2>3. MessagesAreGenuine'
    BY <1>7, GenuineKept DEF CheckReady, history
  <2>4. ReadyCounted'
    BY <1>7 DEF ReadyCounted, CheckReady, ddsVars
  <2> QED
    BY <1>7, <2>2, <2>3, <2>4, TypeThread
<1>8. ASSUME NEW t \in Threads, SendWrite(t)
      PROVE  IInv'
  <2>1. ReadyCounted'
    BY <1>8 DEF ReadyCounted, SendWrite, ddsVars
  <2> QED
    BY <1>8, <2>1, TypeThread, NumberWritten, GenuineWritten
<1>9. CASE UNCHANGED vars
  <2>1. TypeOK'
    BY <1>9 DEF TypeOK, vars
  <2>2. NumbersUsedOnce'
    BY <1>9, NumbersKept DEF vars
  <2>3. MessagesAreGenuine' /\ ReadyCounted'
    BY <1>9 DEF MessagesAreGenuine, Genuine, ReadyCounted, vars
  <2> QED
    BY <2>1, <2>2, <2>3
<1> QED
  BY <1>1, <1>2, <1>3, <1>4, <1>5, <1>6, <1>7, <1>8, <1>9, <1>10 DEF Next

\* IInv holds in every state, whatever threads, servers and zzdds do at once.
THEOREM Invariance == Spec => []IInv
<1>1. Init => IInv
  BY InitInv
<1>2. IInv /\ [Next]_vars => IInv'
  BY NextInv
<1> QED
  BY <1>1, <1>2, PTL DEF Spec

\* A client is only ever given responses to its own requests, though all those of
\* a server reach it, and no two of its requests share a number, whichever threads
\* send them at once (rmw_service.cpp rmw_take_response, rmw_send_request).
THEOREM NobodyElsesAnswers == Spec => []AnswersAreOwn
<1>1. IInv => AnswersAreOwn
  BY DEF IInv, NumbersUsedOnce, MessagesAreGenuine, AnswersAreOwn
<1> QED
  BY <1>1, Invariance, PTL

\* When zzdds owes a client no call, its count of ready writers is exact, though
\* the calls come from several threads in any order (rmw_service.cpp
\* reliable_writer_ready_listener).
THEOREM ReadyCountComesRight == Spec => []ReadyCountIsExact
<1>1. ASSUME IInv
      PROVE  ReadyCountIsExact
  <2> SUFFICES ASSUME NEW c \in Clients, owed[c] = [up |-> 0, down |-> 0]
               PROVE  readyCount[c] = Cardinality(readyFrom[c])
    BY DEF ReadyCountIsExact
  <2>1. owed[c].up = 0 /\ owed[c].down = 0 /\ readyCount[c] \in Int
    BY <1>1 DEF IInv, TypeOK
  <2> QED
    BY <1>1, <2>1 DEF IInv, ReadyCounted
<1>2. IInv => ReadyCountIsExact
  BY <1>1
<1> QED
  BY <1>2, Invariance, PTL

-----------------------------------------------------------------------------
(* With one server, what the client is told is true.                       *)

LEMMA OnlyServerInit ==
  ASSUME NEW s \in Servers, Init
  PROVE  OnlyServerReady(s)
BY DEF Init, OnlyServerReady, Registered

\* It is enough that nothing new counts as a ready writer and no client is
\* forgotten.
LEMMA OnlyServerKept ==
  ASSUME NEW s \in Servers, OnlyServerReady(s),
         UNCHANGED alive, responseTo[s] \subseteq responseTo'[s],
         \A c \in Clients :
           readyFrom'[c] # {} \/ owed'[c].up > 0 \/ readyCount'[c] > 0 \/ c \in available'
             => \/ readyFrom[c] # {} \/ owed[c].up > 0 \/ readyCount[c] > 0 \/ c \in available
                \/ Registered(c, s)',
         \A request \in assured' : request \in assured \/ Registered(request.client, s)',
         s \notin alive => taken'[s] \subseteq taken[s] /\ requests'[s] = requests[s]
  PROVE  OnlyServerReady(s)'
BY DEF OnlyServerReady, Registered

LEMMA OnlyServerDiscovery ==
  ASSUME TypeOK, NEW s \in Servers, Servers = {s}, OnlyServerReady(s),
         NEW c \in Clients, Discovery(c, s)
  PROVE  OnlyServerReady(s)'
<1>1. UNCHANGED <<alive, readyCount, requests, taken, available, assured>>
  BY DEF Discovery, Matching, Registering, Proving, NoticeReaderGone, NoticeWriterGone, history
<1>2. responseTo[s] \subseteq responseTo'[s]
  BY DEF Discovery, Matching, Registering, Proving, NoticeReaderGone, NoticeWriterGone, TypeOK
<1>3. CASE UNCHANGED <<readyFrom, owed>>
  BY <1>1, <1>2, <1>3, OnlyServerKept
<1>4. CASE Proving(c, s)
  <2>1. /\ \A d \in Clients \ {c} : readyFrom'[d] = readyFrom[d] /\ owed'[d] = owed[d]
        /\ c \in responseTo'[s]
    BY <1>4 DEF Proving, TypeOK
  <2>2. Registered(c, s)'
    BY <2>1 DEF Registered
  <2> QED
    BY <1>1, <1>2, <2>1, <2>2, OnlyServerKept
<1>5. CASE NoticeWriterGone(c, s)
  <2>1. /\ \A d \in Clients \ {c} : readyFrom'[d] = readyFrom[d] /\ owed'[d] = owed[d]
        /\ readyFrom'[c] \subseteq readyFrom[c] /\ owed'[c].up = owed[c].up
    BY <1>5 DEF NoticeWriterGone, TypeOK
  <2> QED
    BY <1>1, <1>2, <2>1, OnlyServerKept
<1> QED
  BY <1>3, <1>4, <1>5 DEF Discovery, Matching, Registering, NoticeReaderGone

LEMMA OnlyServerNext ==
  ASSUME TypeOK, NEW s \in Servers, Servers = {s}, OnlyServerReady(s), [Next]_vars
  PROVE  OnlyServerReady(s)'
<1>1. ASSUME NEW c \in Clients, Discovery(c, s)
      PROVE  OnlyServerReady(s)'
  BY <1>1, OnlyServerDiscovery
<1>2. CASE Depart(s)
  <2>1. s \notin alive' /\ taken'[s] = {} /\ requests'[s] = <<>>
    BY <1>2 DEF Depart, TypeOK
  <2> QED
    BY <2>1 DEF OnlyServerReady, Registered
<1>3. CASE ServerStep(s)
  <2>1. /\ UNCHANGED <<alive, responseTo, readyFrom, owed, readyCount, available, assured>>
        /\ s \notin alive => FALSE
    BY <1>3 DEF ServerStep, TakeRequest, SendResponse, ddsVars, history, OnlyServerReady
  <2> QED
    BY <2>1, OnlyServerKept
<1>4. ASSUME NEW c \in Clients, ReadyListener(c)
      PROVE  OnlyServerReady(s)'
  <2>1. UNCHANGED <<alive, responseTo, readyFrom, requests, taken, available, assured>>
    BY <1>4 DEF ReadyListener, history
  <2> DEFINE upCalled   == [owed[c] EXCEPT !.up = owed[c].up - 1]
             downCalled == [owed[c] EXCEPT !.down = owed[c].down - 1]
  <2>2. \/ /\ owed[c].up > 0
           /\ owed' = [owed EXCEPT ![c] = upCalled]
           /\ readyCount' = [readyCount EXCEPT ![c] = readyCount[c] + 1]
        \/ /\ owed[c].down > 0
           /\ owed' = [owed EXCEPT ![c] = downCalled]
           /\ readyCount' = [readyCount EXCEPT ![c] = readyCount[c] - 1]
    BY <1>4, ReadyListenerCalls, Zenon
  <2>3. /\ owed[c] \in [up : Nat, down : Nat] /\ readyCount[c] \in Int
        /\ upCalled.up = owed[c].up - 1 /\ downCalled.up = owed[c].up
    BY DEF TypeOK
  <2> HIDE DEF upCalled, downCalled
  <2>4. /\ \A d \in Clients \ {c} : owed'[d] = owed[d] /\ readyCount'[d] = readyCount[d]
        /\ owed'[c].up > 0 \/ readyCount'[c] > 0 => owed[c].up > 0 \/ readyCount[c] > 0
    <3>1. \A d \in Clients \ {c} : owed'[d] = owed[d] /\ readyCount'[d] = readyCount[d]
      BY <2>2 DEF TypeOK
    <3>2. \/ owed[c].up > 0
          \/ owed'[c].up = owed[c].up /\ readyCount'[c] = readyCount[c] - 1
      BY <2>2, <2>3 DEF TypeOK
    <3>3. owed'[c].up > 0 \/ readyCount'[c] > 0 => owed[c].up > 0 \/ readyCount[c] > 0
      BY <2>3, <3>2
    <3> QED
      BY <3>1, <3>3
  <2> QED
    BY <2>1, <2>4, OnlyServerKept
<1>5. ASSUME NEW t \in Takers, NEW c \in Clients,
             StartTake(t, c) \/ TakeNone(t, c) \/ TakeNext(t, c)
      PROVE  OnlyServerReady(s)'
  BY <1>5, OnlyServerKept DEF StartTake, TakeNone, TakeNext, ddsVars, history
<1>10. CASE Stray
  <2>1. s \notin alive => requests'[s] = requests[s]
    BY <1>10 DEF Stray, TypeOK
  <2> QED
    BY <1>10, <2>1, OnlyServerKept DEF Stray, ddsVars
<1>6. ASSUME NEW t \in Threads, NEW c \in Clients, CheckMatched(t, c) \/ SendNumber(t, c)
      PROVE  OnlyServerReady(s)'
  BY <1>6, OnlyServerKept DEF CheckMatched, SendNumber, ddsVars, history
<1>7. ASSUME NEW t \in Threads, CheckReady(t)
      PROVE  OnlyServerReady(s)'
  <2>1. /\ UNCHANGED <<alive, responseTo, readyFrom, owed, readyCount, requests, taken, assured>>
        /\ \A c \in Clients : c \in available' => c \in available \/ readyCount[c] > 0
    BY <1>7, FramesTyped DEF CheckReady, WriterReady, ddsVars, history
  <2> QED
    BY <2>1, OnlyServerKept
<1>8. ASSUME NEW t \in Threads, SendWrite(t)
      PROVE  OnlyServerReady(s)'
  <2>1. /\ UNCHANGED <<alive, responseTo, readyFrom, owed, readyCount, taken, available>>
        /\ s \notin alive => requests'[s] = requests[s]
    BY <1>8 DEF SendWrite, ddsVars
  <2>2. \A request \in assured' :
          request \in assured \/ (request.client = frame[t].client /\ frame[t].client \in available)
    BY <1>8 DEF SendWrite, Request
  <2>3. frame[t].client \in Clients
    BY <1>8, FramesTyped DEF SendWrite
  <2>4. frame[t].client \in available => Registered(frame[t].client, s)
    BY <2>3 DEF OnlyServerReady
  <2>5. \A request \in assured' : request \in assured \/ Registered(request.client, s)'
    BY <2>1, <2>2, <2>4 DEF Registered
  <2> QED
    BY <2>1, <2>5, OnlyServerKept
<1>9. CASE UNCHANGED vars
  BY <1>9, OnlyServerKept DEF vars, ddsVars, history
<1> QED
  BY <1>1, <1>2, <1>3, <1>4, <1>5, <1>6, <1>7, <1>8, <1>9, <1>10, ServiceConstants DEF Next

\* Of a service with one server, the response to a request sent after
\* rmw_service_server_is_available said so is written to the client that asked:
\* the writer that proved itself ready is the one that answers
\* (rmw_service.cpp rmw_service_server_is_available).  With two it is not so.
THEOREM OneServerAnswers ==
  ASSUME NEW s \in Servers, Servers = {s}
  PROVE  Spec => []AssuredIsAnswerable
<1>1. Init => OnlyServerReady(s)
  BY OnlyServerInit
<1>2. IInv /\ OnlyServerReady(s) /\ [Next]_vars => OnlyServerReady(s)'
  BY OnlyServerNext DEF IInv
<1>3. OnlyServerReady(s) => AssuredIsAnswerable
  BY DEF OnlyServerReady, Registered, AssuredIsAnswerable
<1> QED
  BY <1>1, <1>2, <1>3, Invariance, PTL DEF Spec

-----------------------------------------------------------------------------
(* What becomes of a request to the only server.                           *)

LEMMA OnlyServerAskedNext ==
  ASSUME TypeOK, NEW s \in Servers, Servers = {s}, OnlyServerAsked(s), [Next]_vars
  PROVE  OnlyServerAsked(s)'
<1>1. \A c \in Clients : Matched(c, s) => Matched(c, s)'
  <2> SUFFICES ASSUME NEW c \in Clients, s \in alive', s \in alive => s \in requestTo[c]
               PROVE  s \in requestTo'[c]
    BY DEF Matched
  <2>1. alive' \subseteq alive
    BY DEF Next, vars, ddsVars, Discovery, Matching, Registering, Proving, NoticeReaderGone,
           NoticeWriterGone, Depart, ServerStep, TakeRequest, SendResponse, ReadyListener,
           StartTake, TakeNone, TakeNext, Stray, CheckMatched, CheckReady, SendNumber, SendWrite
  <2>2. \/ requestTo' = requestTo
        \/ \E d \in Clients, r \in Servers : Matching(d, r) \/ NoticeReaderGone(d, r)
    BY DEF Next, vars, ddsVars, Discovery, Registering, Proving,
           NoticeWriterGone, Depart, ServerStep, TakeRequest, SendResponse, ReadyListener,
           StartTake, TakeNone, TakeNext, Stray, CheckMatched, CheckReady, SendNumber, SendWrite
  <2>3. ASSUME NEW d \in Clients, NEW r \in Servers, Matching(d, r) \/ NoticeReaderGone(d, r)
        PROVE  s \in requestTo'[c]
    BY <2>1, <2>3 DEF Matching, NoticeReaderGone, TypeOK
  <2> QED
    BY <2>1, <2>2, <2>3
<1>2. CASE UNCHANGED <<available, pc, frame>>
  <2>1. \A t \in Threads : pc[t] = "ready" => frame[t].client \in Clients
    BY FramesTyped
  <2> QED
    BY <1>1, <1>2, <2>1 DEF OnlyServerAsked, TypeOK
<1>3. ASSUME NEW t \in Threads, NEW c \in Clients, CheckMatched(t, c)
      PROVE  OnlyServerAsked(s)'
  <2> DEFINE f == [client |-> c, number |-> 0, matched |-> requestTo[c] # {}]
  <2>1. /\ pc' = [pc EXCEPT ![t] = "ready"] /\ frame' = [frame EXCEPT ![t] = f]
        /\ UNCHANGED <<alive, requestTo, available>>
    BY <1>3 DEF CheckMatched, ddsVars
  <2>2. f \in Frames /\ f.client = c /\ f.matched = (requestTo[c] # {})
    BY DEF Frames
  <2>3. f.matched => Matched(c, s)
    <3>1. requestTo[c] \subseteq {s}
      BY DEF TypeOK
    <3> QED
      BY <2>2, <3>1 DEF Matched
  <2> HIDE DEF f
  <2>4. /\ frame'[t] = f /\ \A u \in Threads \ {t} : pc'[u] = pc[u] /\ frame'[u] = frame[u]
    BY <2>1, <2>2, BeginTyped
  <2> QED
    BY <2>1, <2>2, <2>3, <2>4 DEF OnlyServerAsked, Matched
<1>4. ASSUME NEW t \in Threads, NEW c \in Clients, SendNumber(t, c)
      PROVE  OnlyServerAsked(s)'
  <2>1. /\ UNCHANGED <<alive, requestTo, available>>
        /\ \A u \in Threads : pc'[u] = "ready" => pc[u] = "ready" /\ frame'[u] = frame[u]
    BY <1>4 DEF SendNumber, ddsVars, TypeOK
  <2> QED
    BY <2>1 DEF OnlyServerAsked, Matched
<1>5. ASSUME NEW t \in Threads, CheckReady(t)
      PROVE  OnlyServerAsked(s)'
  <2>1. /\ UNCHANGED <<alive, requestTo>>
        /\ \A u \in Threads : pc'[u] = "ready" => pc[u] = "ready" /\ frame'[u] = frame[u]
    BY <1>5, ReturnTyped DEF CheckReady, ddsVars
  <2>2. /\ pc[t] = "ready"
        /\ \A c \in available' : c \in available \/ (c = frame[t].client /\ frame[t].matched)
    BY <1>5 DEF CheckReady
  <2> QED
    BY <2>1, <2>2 DEF OnlyServerAsked, Matched
<1>6. ASSUME NEW t \in Threads, SendWrite(t)
      PROVE  OnlyServerAsked(s)'
  <2>1. /\ UNCHANGED <<alive, requestTo, available>>
        /\ \A u \in Threads : pc'[u] = "ready" => pc[u] = "ready" /\ frame'[u] = frame[u]
    BY <1>6, ReturnTyped DEF SendWrite, ddsVars
  <2> QED
    BY <2>1 DEF OnlyServerAsked, Matched
<1> QED
  BY <1>2, <1>3, <1>4, <1>5, <1>6, ServiceConstants
  DEF Next, vars, Discovery, Depart, ServerStep, TakeRequest, SendResponse, ReadyListener,
      StartTake, TakeNone, TakeNext, Stray

LEMMA AssuredKnownOfNext ==
  ASSUME TypeOK, NEW s \in Servers, Servers = {s}, OnlyServerReady(s), OnlyServerAsked(s),
         AssuredKnownOf(s), [Next]_vars
  PROVE  AssuredKnownOf(s)'
<1>0. \A request \in assured : /\ request \in Asked /\ request.client \in Clients
                               /\ request.number \in Nat
  BY DEF TypeOK, Asked
<1>1. CASE UNCHANGED <<alive, requests, taken, responses, answered, lost, assured>>
  BY <1>1 DEF AssuredKnownOf, KnownOf
<1>2. ASSUME Depart(s)
      PROVE  AssuredKnownOf(s)'
  BY <1>2 DEF AssuredKnownOf, KnownOf, Depart
<1>3. ASSUME TakeRequest(s)
      PROVE  AssuredKnownOf(s)'
  <2>1. PICK first : first = Head(requests[s])
    OBVIOUS
  <2>2. /\ requests' = [requests EXCEPT ![s] = Tail(requests[s])]
        /\ SeqRange(requests[s]) = {first} \cup SeqRange(Tail(requests[s]))
        /\ \/ taken' = [taken EXCEPT ![s] = taken[s] \cup {first}] /\ lost' = lost
           \/ taken' = taken /\ lost' = lost \cup {first}
           \/ first \notin Asked /\ taken' = taken /\ lost' = lost
    BY <1>3, <2>1, RequestTaken, RangeOfTail DEF TypeOK
  <2>3. UNCHANGED <<alive, responses, answered, assured>>
    BY <1>3 DEF TakeRequest, ddsVars
  <2>4. /\ requests'[s] = Tail(requests[s])
        /\ taken[s] \subseteq taken'[s] /\ lost \subseteq lost'
        /\ first \in Asked => first \in taken'[s] \cup lost'
    BY <2>2 DEF TypeOK
  <2> QED
    BY <1>0, <2>2, <2>3, <2>4 DEF AssuredKnownOf, KnownOf
<1>4. ASSUME NEW answer \in taken[s], SendResponse(s, answer)
      PROVE  AssuredKnownOf(s)'
  <2>1. PICK ok \in Outcomes("response") :
          /\ responses' = [c \in Clients |-> IF ok /\ c \in responseTo[s]
                                             THEN Append(responses[c], answer) ELSE responses[c]]
          /\ lost' = IF ok THEN lost ELSE lost \cup {answer}
    BY <1>4 DEF SendResponse
  <2>2. UNCHANGED <<alive, requests, answered, assured>> /\ taken' = [taken EXCEPT ![s] = taken[s] \ {answer}]
    BY <1>4 DEF SendResponse, ddsVars
  <2>3. \A c \in Clients : SeqRange(Append(responses[c], answer)) = SeqRange(responses[c]) \cup {answer}
    <3>1. answer \in Samples
      BY DEF TypeOK, Samples
    <3> QED
      BY <3>1, RangeOfAppend DEF TypeOK
  <2>4. /\ \A c \in Clients : SeqRange(responses[c]) \subseteq SeqRange(responses'[c])
        /\ \A c \in Clients : ok /\ c \in responseTo[s] => answer \in SeqRange(responses'[c])
        /\ lost \subseteq lost'
        /\ ok \/ answer \in lost'
    BY <2>1, <2>3
  <2>5. answer \in assured => s \notin alive \/ answer.client \in responseTo[s]
    BY DEF OnlyServerReady, Registered
  <2>6. taken'[s] = taken[s] \ {answer}
    BY <2>2 DEF TypeOK
  <2> SUFFICES ASSUME NEW request \in assured
               PROVE  KnownOf(request, s)'
    BY <2>2 DEF AssuredKnownOf
  <2>7. CASE request = answer
    BY <1>0, <2>2, <2>4, <2>5, <2>7 DEF KnownOf
  <2>8. CASE request # answer
    <3>1. KnownOf(request, s)
      BY DEF AssuredKnownOf
    <3>2. /\ SeqRange(responses[request.client]) \subseteq SeqRange(responses'[request.client])
          /\ request \in taken[s] => request \in taken'[s]
      BY <1>0, <2>4, <2>6, <2>8
    <3>3. lost \subseteq lost'
      BY <2>1
    <3> QED
      BY <2>2, <3>1, <3>2, <3>3 DEF KnownOf
  <2> QED
    BY <2>7, <2>8
<1>5. ASSUME NEW t \in Takers, NEW c \in Clients, TakeNext(t, c)
      PROVE  AssuredKnownOf(s)'
  <2>1. PICK first : first = Head(responses[c])
    OBVIOUS
  <2>2. /\ responses' = [responses EXCEPT ![c] = Tail(responses[c])]
        /\ SeqRange(responses[c]) = {first} \cup SeqRange(Tail(responses[c]))
        /\ \/ /\ first \in Asked /\ first.client = c /\ lost' = lost
              /\ answered' = [answered EXCEPT ![c] = Append(answered[c], first.number)]
           \/ answered' = answered /\ lost' = lost \cup {first}
           \/ /\ first \in Asked => first.client # c
              /\ answered' = answered /\ lost' = lost
    BY <1>5, <2>1, ResponseTaken, RangeOfTail DEF TypeOK
  <2>3. UNCHANGED <<alive, requests, taken, assured>>
    BY <1>5 DEF TakeNext, ddsVars
  <2>4. first \in Asked =>
          SeqRange(Append(answered[c], first.number)) = SeqRange(answered[c]) \cup {first.number}
    <3>1. first \in Asked => first.number \in Nat
      BY DEF Asked
    <3>2. answered[c] \in Seq(Nat)
      BY DEF TypeOK
    <3> QED
      BY <3>1, <3>2, RangeOfAppend
  <2>5. \A d \in Clients : SeqRange(answered[d]) \subseteq SeqRange(answered'[d])
    BY <2>2, <2>4 DEF TypeOK
  <2>6. first \in Asked /\ first.client = c => first.number \in SeqRange(answered'[c]) \/ first \in lost'
    BY <2>2, <2>4 DEF TypeOK
  <2>7. lost \subseteq lost'
    BY <2>2
  <2>8. responses'[c] = Tail(responses[c]) /\ \A d \in Clients \ {c} : responses'[d] = responses[d]
    BY <2>2 DEF TypeOK
  <2> SUFFICES ASSUME NEW request \in assured
               PROVE  KnownOf(request, s)'
    BY <2>3 DEF AssuredKnownOf
  <2>9. request \in SeqRange(responses[request.client]) =>
          \/ request \in SeqRange(responses'[request.client])
          \/ request.number \in SeqRange(answered'[request.client]) \/ request \in lost'
    BY <1>0, <2>2, <2>6, <2>8
  <2> QED
    BY <1>0, <2>3, <2>5, <2>7, <2>9 DEF AssuredKnownOf, KnownOf
<1>6. ASSUME Stray
      PROVE  AssuredKnownOf(s)'
  <2>1. PICK kind \in {"no data", "malformed"} :
          \/ /\ \E r \in alive : requests' = [requests EXCEPT ![r] = Append(requests[r], NoMessage(kind))]
             /\ UNCHANGED responses
          \/ /\ \E c \in Clients : responses' = [responses EXCEPT ![c] = Append(responses[c], NoMessage(kind))]
             /\ UNCHANGED requests
    BY <1>6 DEF Stray
  <2>2. PICK stray \in Samples : stray = NoMessage(kind)
    BY Strays
  <2>3. \A seq \in Seq(Samples) : SeqRange(Append(seq, stray)) = SeqRange(seq) \cup {stray}
    BY RangeOfAppends, Zenon
  <2>4. \/ /\ \E r \in alive : requests' = [requests EXCEPT ![r] = Append(requests[r], stray)]
           /\ UNCHANGED responses
        \/ /\ \E c \in Clients : responses' = [responses EXCEPT ![c] = Append(responses[c], stray)]
           /\ UNCHANGED requests
    BY <2>1, <2>2, Zenon
  <2>5. /\ SeqRange(requests[s]) \subseteq SeqRange(requests'[s])
        /\ \A c \in Clients : SeqRange(responses[c]) \subseteq SeqRange(responses'[c])
    <3>1. /\ requests \in [Servers -> Seq(Samples)] /\ responses \in [Clients -> Seq(Samples)]
          /\ alive \subseteq Servers
      BY DEF TypeOK
    <3>2. CASE UNCHANGED responses /\ \E r \in alive : requests' = [requests EXCEPT ![r] = Append(requests[r], stray)]
      BY <2>3, <3>1, <3>2
    <3>3. CASE UNCHANGED requests /\ \E c \in Clients : responses' = [responses EXCEPT ![c] = Append(responses[c], stray)]
      BY <2>3, <3>1, <3>3
    <3> QED
      BY <2>4, <3>2, <3>3
  <2>6. UNCHANGED <<alive, taken, answered, lost, assured>>
    BY <1>6 DEF Stray, ddsVars
  <2> QED
    BY <1>0, <2>5, <2>6 DEF AssuredKnownOf, KnownOf
<1>7. ASSUME NEW t \in Threads, SendWrite(t)
      PROVE  AssuredKnownOf(s)'
  <2> DEFINE c == frame[t].client
             written == Request(c, frame[t].number)
  <2>1. c \in Clients /\ written \in Asked /\ written \in Samples
    BY <1>7, FramesTyped DEF SendWrite, Samples
  <2>2. UNCHANGED <<alive, taken, responses, answered, lost, requestTo, available>>
    BY <1>7 DEF SendWrite, ddsVars
  <2>3. CASE UNCHANGED <<requests, assured>>
    BY <2>2, <2>3 DEF AssuredKnownOf, KnownOf
  <2>4. CASE /\ requests' = [r \in Servers |->
                               IF r \in requestTo[c] \cap alive
                               THEN Append(requests[r], written) ELSE requests[r]]
             /\ assured' = IF c \in available THEN assured \cup {written} ELSE assured
    <3> HIDE DEF c, written
    <3>1. SeqRange(Append(requests[s], written)) = SeqRange(requests[s]) \cup {written}
      BY <2>1, RangeOfAppend DEF TypeOK
    <3>2. /\ SeqRange(requests[s]) \subseteq SeqRange(requests'[s])
          /\ s \in requestTo[c] /\ s \in alive => written \in SeqRange(requests'[s])
      BY <2>4, <3>1
    <3>3. c \in available => s \notin alive \/ s \in requestTo[c]
      BY DEF OnlyServerAsked, Matched
    <3>4. \A request \in assured' : request \in assured \/ (request = written /\ c \in available)
      BY <2>4
    <3> QED
      BY <2>2, <3>2, <3>3, <3>4 DEF AssuredKnownOf, KnownOf
  <2> QED
    BY <1>7, <2>3, <2>4 DEF SendWrite
<1> QED
  <2>1. \/ UNCHANGED <<alive, requests, taken, responses, answered, lost, assured>>
        \/ Depart(s) \/ TakeRequest(s) \/ \E answer \in taken[s] : SendResponse(s, answer)
        \/ \E t \in Takers, c \in Clients : TakeNext(t, c)
        \/ Stray \/ \E t \in Threads : SendWrite(t)
    BY DEF Next, vars, Discovery, Matching, Registering, Proving, NoticeReaderGone,
           NoticeWriterGone, ServerStep, ReadyListener, StartTake, TakeNone, CheckMatched,
           CheckReady, SendNumber, ddsVars, history
  <2> QED
    BY <1>1, <1>2, <1>3, <1>4, <1>5, <1>6, <1>7, <2>1

\* Of a service with one server, a request sent after
\* rmw_service_server_is_available said so does not get lost while the server
\* lives: it is held by a reader or by the server or has been answered, or a call
\* has reported an error about it, whichever sample ends the takes of whichever
\* thread (rmw_service.cpp take_service_message).
THEOREM OneServerLosesNone ==
  ASSUME NEW s \in Servers, Servers = {s}
  PROVE  Spec => []AssuredIsNotLost
<1>1. Init => OnlyServerReady(s) /\ OnlyServerAsked(s) /\ AssuredKnownOf(s)
  BY OnlyServerInit DEF Init, OnlyServerAsked, AssuredKnownOf
<1>2. IInv /\ OnlyServerReady(s) /\ OnlyServerAsked(s) /\ AssuredKnownOf(s) /\ [Next]_vars
        => OnlyServerReady(s)' /\ OnlyServerAsked(s)' /\ AssuredKnownOf(s)'
  BY OnlyServerNext, OnlyServerAskedNext, AssuredKnownOfNext DEF IInv
<1>3. IInv /\ AssuredKnownOf(s) => AssuredIsNotLost
  BY DEF AssuredKnownOf, KnownOf, AssuredIsNotLost
<1> QED
  BY <1>1, <1>2, <1>3, Invariance, PTL DEF Spec

-----------------------------------------------------------------------------
(* Messages of services and clients (see Conversions).                     *)

\* A division splits a number, as the number of a request into its bytes, without loss.
LEMMA Division ==
  ASSUME NEW n \in Nat, NEW c \in Nat \ {0}
  PROVE  /\ n \div c \in Nat
         /\ n % c \in 0 .. c - 1
         /\ n = (c * (n \div c)) + (n % c)
BY SMT

\* A quotient is the one number that leaves a rest below the divisor.
LEMMA QuotientIsUnique ==
  ASSUME NEW c \in Nat \ {0}, NEW q \in Nat, NEW r \in 0 .. c - 1
  PROVE  ((c * q) + r) \div c = q
BY SMT

\* The rests of two divisions make a rest of dividing by the product.
LEMMA RestOfProduct ==
  ASSUME NEW a \in Nat \ {0}, NEW b \in Nat \ {0}, NEW s \in 0 .. b - 1, NEW r \in 0 .. a - 1
  PROVE  (a * s) + r \in 0 .. (a * b) - 1
<1>1. s + 1 <= b
  OBVIOUS
<1>2. a * (s + 1) <= a * b
  BY SMT, <1>1
<1> QED BY SMT, <1>2

\* The multiples of a product can be collected.
LEMMA Regroup ==
  ASSUME NEW a \in Nat, NEW b \in Nat, NEW q \in Nat, NEW x \in Nat, NEW r \in Nat
  PROVE  (a * ((b * q) + x)) + r = ((a * b) * q) + ((a * x) + r)
BY SMT

\* Dividing twice is dividing by the product, as shifting twice is shifting by the sum.
LEMMA DivideTwice ==
  ASSUME NEW n \in Nat, NEW a \in Nat \ {0}, NEW b \in Nat \ {0}
  PROVE  (n \div a) \div b = n \div (a * b)
<1> DEFINE p == n \div a
           q == p \div b
<1>1. p \in Nat /\ n % a \in 0 .. a - 1 /\ n = (a * p) + (n % a)
  BY Division
<1>2. q \in Nat /\ p % b \in 0 .. b - 1 /\ p = (b * q) + (p % b)
  BY Division, <1>1
<1> HIDE DEF p, q
<1>3. n = ((a * b) * q) + ((a * (p % b)) + (n % a))
  <2>1. n % a \in Nat /\ p % b \in Nat
    BY <1>1, <1>2
  <2>2. (a * ((b * q) + (p % b))) + (n % a) = ((a * b) * q) + ((a * (p % b)) + (n % a))
    BY <2>1, <1>2, Regroup
  <2> QED BY <2>2, <1>1, <1>2
<1>4. (a * (p % b)) + (n % a) \in 0 .. (a * b) - 1
  BY <1>1, <1>2, RestOfProduct
<1>5. a * b \in Nat \ {0}
  BY SMT
<1>6. n \div (a * b) = q
  BY <1>2, <1>3, <1>4, <1>5, QuotientIsUnique
<1> QED BY <1>6 DEF p, q

\* A byte is what is left of the bytes up to it when those before it are shifted back.
LEMMA NextByte ==
  ASSUME NEW u \in Nat, NEW a \in Nat \ {0}
  PROVE  (256 * (u \div (a * 256))) + ((u \div a) % 256) = u \div a
<1>1. u \div a \in Nat
  BY Division
<1>2. (u \div a) \div 256 = u \div (a * 256)
  BY DivideTwice
<1> QED BY <1>1, <1>2, Division

\* An int64_t survives its way through uint64_t.
LEMMA CastsComeBack ==
  ASSUME NEW n \in - MaxInt64 - 1 .. MaxInt64
  PROVE  Wrap64(n) \in Nat /\ Wrap64(n) <= MaxUInt64 /\ Signed64(Wrap64(n)) = n
<1>1. n \in Int /\ n >= - 9223372036854775808 /\ n <= 9223372036854775807
  <2>1. MaxInt64 \in Int
    BY SMT DEF MaxInt64
  <2>2. n \in Int /\ n >= - MaxInt64 - 1 /\ n <= MaxInt64
    BY <2>1
  <2> QED BY SMT, <2>2 DEF MaxInt64
<1>2. CASE n >= 0
  <2>1. n % 18446744073709551616 = n
    BY SMT, <1>1, <1>2
  <2> QED BY SMT, <2>1, <1>1, <1>2 DEF Wrap64, Signed64, MaxInt64, MaxUInt64
<1>3. CASE n < 0
  <2>1. n % 18446744073709551616 = n + 18446744073709551616
    BY SMT, <1>1, <1>3
  <2> QED BY SMT, <2>1, <1>1, <1>3 DEF Wrap64, Signed64, MaxInt64, MaxUInt64
<1> QED BY SMT, <1>1, <1>2, <1>3

\* Each byte has 256 times the place of the next.
LEMMA Places ==
  /\ \A i \in 1 .. 8 : Place[i] \in Nat \ {0}
  /\ \A i \in 1 .. 7 : Place[i] = Place[i + 1] * 256
  /\ \A n \in Nat : n <= MaxUInt64 => n \div Place[1] \in 0 .. 255
  /\ Place[8] = 1
<1>1. /\ Place[1] = 72057594037927936 /\ Place[2] = 281474976710656
      /\ Place[3] = 1099511627776 /\ Place[4] = 4294967296
      /\ Place[5] = 16777216 /\ Place[6] = 65536 /\ Place[7] = 256 /\ Place[8] = 1
  BY SMT DEF Place
<1> HIDE DEF Place
<1>2. \A i \in 1 .. 8 : i = 1 \/ i = 2 \/ i = 3 \/ i = 4 \/ i = 5 \/ i = 6 \/ i = 7 \/ i = 8
  BY SMT
<1>3. \A i \in 1 .. 8 : Place[i] \in Nat \ {0}
  BY SMT, <1>1, <1>2
<1>4. \A i \in 1 .. 7 : Place[i] = Place[i + 1] * 256
  <2> SUFFICES ASSUME NEW i \in 1 .. 7 PROVE Place[i] = Place[i+1] * 256
    OBVIOUS
  <2>1. i = 1 \/ i = 2 \/ i = 3 \/ i = 4 \/ i = 5 \/ i = 6 \/ i = 7
    BY SMT
  <2>2. CASE i = 1
    BY SMT, <1>1, <2>2
  <2>3. CASE i = 2
    BY SMT, <1>1, <2>3
  <2>4. CASE i = 3
    BY SMT, <1>1, <2>4
  <2>5. CASE i = 4
    BY SMT, <1>1, <2>5
  <2>6. CASE i = 5
    BY SMT, <1>1, <2>6
  <2>7. CASE i = 6
    BY SMT, <1>1, <2>7
  <2>8. CASE i = 7
    BY SMT, <1>1, <2>8
  <2> QED BY <2>1, <2>2, <2>3, <2>4, <2>5, <2>6, <2>7, <2>8
<1>5. \A n \in Nat : n <= MaxUInt64 => n \div Place[1] \in 0 .. 255
  <2> SUFFICES ASSUME NEW n \in Nat, n <= MaxUInt64
               PROVE  n \div 72057594037927936 \in 0 .. 255
    BY <1>1
  <2> QED BY SMT DEF MaxUInt64
<1> QED BY <1>1, <1>3, <1>4, <1>5

\* Bytes are shifted in one after the other.
LEMMA ShiftedIn ==
  ASSUME NEW b, NEW q,
         b[1] = q[1], \A i \in 1 .. 7 : (256 * q[i]) + b[i + 1] = q[i + 1]
  PROVE  DecodeSequence(b) = Signed64(q[8])
<1>1. /\ (256 * b[1]) + b[2] = q[2] /\ (256 * q[2]) + b[3] = q[3]
      /\ (256 * q[3]) + b[4] = q[4] /\ (256 * q[4]) + b[5] = q[5]
      /\ (256 * q[5]) + b[6] = q[6] /\ (256 * q[6]) + b[7] = q[7]
      /\ (256 * q[7]) + b[8] = q[8]
  OBVIOUS
<1>2. (256 * ((256 * b[1]) + b[2])) + b[3] = q[3]
  BY <1>1, Zenon
<1>3. (256 * ((256 * ((256 * b[1]) + b[2])) + b[3])) + b[4] = q[4]
  BY <1>1, <1>2, Zenon
<1> DEFINE Rest(x) == (256 * ((256 * ((256 * ((256 * x) + b[5])) + b[6])) + b[7])) + b[8]
<1>4. DecodeSequence(b) = Signed64(Rest(q[4]))
  <2> DEFINE first == (256 * ((256 * ((256 * b[1]) + b[2])) + b[3])) + b[4]
  <2>1. DecodeSequence(b) = Signed64(Rest(first))
    BY DEF DecodeSequence
  <2>2. first = q[4]
    BY <1>3
  <2> HIDE DEF first, Rest
  <2> QED BY <2>1, <2>2
<1>5. (256 * ((256 * q[4]) + b[5])) + b[6] = q[6]
  BY <1>1, Zenon
<1>6. Rest(q[4]) = (256 * ((256 * q[6]) + b[7])) + b[8]
  BY <1>5, Zenon
<1>7. (256 * ((256 * q[6]) + b[7])) + b[8] = q[8]
  BY <1>1, Zenon
<1> HIDE DEF Rest
<1> QED BY <1>4, <1>6, <1>7

\* The number of a request, whatever int64_t it is, is decoded from the header of
\* the response as it was encoded in the header of the request: rmw_take_response
\* finds the number rmw_send_request returned.
THEOREM RequestNumbersComeBack ==
  ASSUME NEW n \in - MaxInt64 - 1 .. MaxInt64
  PROVE  DecodeSequence(EncodeSequence(n)) = n
<1> DEFINE u == Wrap64(n)
           e == EncodeSequence(n)
           q == [i \in 1 .. 8 |-> u \div Place[i]]
<1>1. u \in Nat /\ u <= MaxUInt64 /\ Signed64(u) = n
  BY CastsComeBack
<1>2. \A i \in 1 .. 8 : e[i] = q[i] % 256 /\ q[i] = u \div Place[i]
  BY DEF EncodeSequence
<1> HIDE DEF u, e, q
<1>3. e[1] = q[1]
  <2>1. q[1] \in 0 .. 255
    <3>1. q[1] = u \div Place[1]
      BY <1>2
    <3>2. \A m \in Nat : m <= MaxUInt64 => m \div Place[1] \in 0 .. 255
      BY Places, Zenon
    <3>3. u \div Place[1] \in 0 .. 255
      BY <1>1, <3>2, Zenon
    <3> QED BY <3>1, <3>3, Zenon
  <2>2. \A m \in 0 .. 255 : m % 256 = m
    BY SMT
  <2> QED BY <1>2, <2>1, <2>2
<1>4. ASSUME NEW i \in 1 .. 7
      PROVE  (256 * q[i]) + e[i + 1] = q[i + 1]
  <2>1. i \in 1 .. 8 /\ i + 1 \in 1 .. 8
    OBVIOUS
  <2>2. Place[i + 1] \in Nat \ {0} /\ Place[i] = Place[i + 1] * 256
    BY <2>1, Places
  <2>3. (256 * (u \div (Place[i + 1] * 256))) + ((u \div Place[i + 1]) % 256) = u \div Place[i + 1]
    BY <1>1, <2>2, NextByte
  <2>4. /\ q[i] = u \div (Place[i + 1] * 256)
        /\ q[i + 1] = u \div Place[i + 1]
        /\ e[i + 1] = (u \div Place[i + 1]) % 256
    <3>1. q[i] = u \div Place[i]
      BY <1>2, <2>1, Zenon
    <3>2. q[i + 1] = u \div Place[i + 1] /\ e[i + 1] = q[i + 1] % 256
      BY <1>2, <2>1, Zenon
    <3> QED BY <2>2, <3>1, <3>2, Zenon
  <2> QED BY <2>3, <2>4, Zenon
<1>5. DecodeSequence(e) = Signed64(q[8])
  BY <1>3, <1>4, ShiftedIn
<1>6. q[8] = u
  <2>1. q[8] = u \div 1
    <3>1. q[8] = u \div Place[8]
      BY <1>2
    <3>2. Place[8] = 1
      BY Places, Zenon
    <3> QED BY <3>1, <3>2, Zenon
  <2> QED BY SMT, <1>1, <2>1
<1> QED BY <1>1, <1>5, <1>6 DEF e

\* A concatenation is taken apart where it was put together.
LEMMA Halves ==
  ASSUME NEW S, NEW a \in Seq(S), NEW b \in Seq(S)
  PROVE  /\ a \o b \in Seq(S) /\ Len(a) \in Nat /\ Len(b) \in Nat
         /\ Len(a \o b) = Len(a) + Len(b)
         /\ SubSeq(a \o b, 1, Len(a)) = a
         /\ SubSeq(a \o b, Len(a) + 1, Len(a) + Len(b)) = b
<1>1. /\ a \o b \in Seq(S) /\ Len(a) \in Nat /\ Len(b) \in Nat
      /\ Len(a \o b) = Len(a) + Len(b)
  BY LenProperties, ConcatProperties
<1>2. SubSeq(a \o b, 1, Len(a)) = a
  <2>1. CASE Len(a) = 0
    BY <2>1, <1>1, SubSeqEmpty, EmptySeq
  <2>2. CASE Len(a) > 0
    BY <2>2, <1>1, SubSeqOfConcat1, SubSeqFull
  <2> QED BY <1>1, <2>1, <2>2
<1>3. SubSeq(a \o b, Len(a) + 1, Len(a) + Len(b)) = b
  <2>1. CASE Len(b) = 0
    BY <2>1, <1>1, SubSeqEmpty, EmptySeq
  <2>2. CASE Len(b) > 0
    <3>1. SubSeq(a \o b, Len(a) + 1, Len(a) + Len(b)) = SubSeq(b, 1, Len(b))
      BY <2>2, <1>1, SubSeqOfConcat2
    <3> QED BY <3>1, SubSeqFull
  <2> QED BY <1>1, <2>1, <2>2
<1> QED BY <1>1, <1>2, <1>3

\* A sequence that consists of three parts, and where they are.
InParts(w, a, b, c) ==
  /\ Len(a) \in Nat /\ Len(b) \in Nat /\ Len(c) \in Nat
  /\ Len(w) = Len(a) + Len(b) + Len(c)
  /\ SubSeq(w, 1, Len(a)) = a
  /\ SubSeq(w, Len(a) + 1, Len(a) + Len(b)) = b
  /\ SubSeq(w, Len(a) + Len(b) + 1, Len(w)) = c

\* A concatenation of three is taken apart as well.
LEMMA Parts ==
  ASSUME NEW S, NEW a \in Seq(S), NEW b \in Seq(S), NEW c \in Seq(S)
  PROVE  InParts((a \o b) \o c, a, b, c)
<1>. PICK w : w = (a \o b) \o c
  OBVIOUS
<1>. PICK v : v = a \o b
  OBVIOUS
<1>1. /\ v \in Seq(S) /\ Len(a) \in Nat /\ Len(b) \in Nat /\ Len(v) = Len(a) + Len(b)
      /\ SubSeq(v, 1, Len(a)) = a
      /\ SubSeq(v, Len(a) + 1, Len(v)) = b
  BY Halves
<1>2. /\ w \in Seq(S) /\ Len(c) \in Nat /\ Len(w) = Len(v) + Len(c)
      /\ SubSeq(w, Len(v) + 1, Len(w)) = c
  <2>1. ASSUME NEW x \in Seq(S)
        PROVE  /\ x \o c \in Seq(S) /\ Len(c) \in Nat /\ Len(x \o c) = Len(x) + Len(c)
               /\ SubSeq(x \o c, Len(x) + 1, Len(x) + Len(c)) = c
    BY Halves
  <2>2. v \in Seq(S)
    BY <1>1
  <2> QED BY <2>1, <2>2, Zenon
<1>3. \A m, n \in 1 .. Len(v) : SubSeq(w, m, n) = SubSeq(v, m, n)
  BY <1>1, SubSeqOfConcat1
<1>4. SubSeq(w, 1, Len(a)) = a
  <2>1. CASE Len(a) = 0
    BY <2>1, <1>1, SubSeqEmpty
  <2>2. CASE Len(a) > 0
    BY <2>2, <1>1, <1>3
  <2> QED BY <1>1, <2>1, <2>2
<1>5. SubSeq(w, Len(a) + 1, Len(v)) = b
  <2>1. CASE Len(b) = 0
    BY <2>1, <1>1, SubSeqEmpty
  <2>2. CASE Len(b) > 0
    BY <2>2, <1>1, <1>3
  <2> QED BY <1>1, <2>1, <2>2
<1>6. InParts(w, a, b, c)
  BY <1>1, <1>2, <1>4, <1>5 DEF InParts
<1> QED BY <1>6

\* A number takes eight bytes.
LEMMA SequenceBytes ==
  ASSUME NEW n \in - MaxInt64 - 1 .. MaxInt64
  PROVE  EncodeSequence(n) \in Seq(Int) /\ Len(EncodeSequence(n)) = 8
<1>1. ASSUME NEW i \in 1 .. 8
      PROVE  (Wrap64(n) \div Place[i]) % 256 \in Int
  <2>1. Wrap64(n) \in Nat /\ Place[i] \in Nat \ {0}
    BY CastsComeBack, Places
  <2>2. Wrap64(n) \div Place[i] \in Nat
    BY <2>1, Division
  <2> QED BY <2>2, SMT
<1> QED BY <1>1 DEF EncodeSequence

\* The header of a service message names the client and the request it was made
\* for, and the payload is what was serialized; a message is found malformed
\* just when nothing was.
THEOREM ServiceMessagesComeBack ==
  ASSUME NEW guid \in Seq(Int), Len(guid) = GuidSize,
         NEW n \in - MaxInt64 - 1 .. MaxInt64, NEW payload \in Seq(Int),
         NEW w, w = Wire(guid, n, payload)
  PROVE  /\ WireGuid(w) = guid
         /\ WireNumber(w) = n
         /\ WirePayload(w) = payload
         /\ Malformed(w) <=> payload = <<>>
<1>1. EncodeSequence(n) \in Seq(Int) /\ Len(EncodeSequence(n)) = 8 /\ Len(guid) = 16
  BY SequenceBytes DEF GuidSize
<1>2. w = (guid \o EncodeSequence(n)) \o payload
  BY DEF Wire
<1>3. InParts(w, guid, EncodeSequence(n), payload)
  BY <1>1, <1>2, Parts, Zenon
<1>4. /\ Len(payload) \in Nat /\ Len(w) = 24 + Len(payload)
      /\ SubSeq(w, 1, 16) = guid
      /\ SubSeq(w, 17, 24) = EncodeSequence(n)
      /\ SubSeq(w, 24 + 1, Len(w)) = payload
  BY <1>1, <1>3 DEF InParts
<1>5. Len(payload) = 0 <=> payload = <<>>
  BY EmptySeq
<1>6. WireGuid(w) = guid /\ WirePayload(w) = payload /\ (Malformed(w) <=> payload = <<>>)
  <2>1. GuidSize = 16 /\ HeaderSize = 24
    BY DEF GuidSize, HeaderSize
  <2>2. WireGuid(w) = guid /\ WirePayload(w) = payload
    BY <1>4, <2>1, Zenon DEF WireGuid, WirePayload
  <2>3. Len(w) <= 24 <=> Len(payload) = 0
    <3>1. \A l \in Nat : 24 + l <= 24 <=> l = 0
      OBVIOUS
    <3> QED BY <1>4, <3>1, Zenon
  <2> QED BY <1>5, <2>1, <2>2, <2>3 DEF Malformed
<1>7. WireNumber(w) = n
  <2>1. WireNumber(w) = DecodeSequence(SubSeq(w, 17, 24))
    BY DEF WireNumber, HeaderSize, GuidSize
  <2> QED BY <2>1, <1>4, RequestNumbersComeBack
<1> QED BY <1>6, <1>7

-----------------------------------------------------------------------------
(* Names of topics and services (see Conversions).                         *)

\* The characters that are put before and after a name.
AffixCharacters == {"/", "r", "t", "q", "R", "e", "u", "s", "p", "l", "y"}

\* The affixes have these lengths.
LEMMA Affixes ==
  ASSUME NEW C, AffixCharacters \subseteq C
  PROVE  /\ RosPrefix \in Seq(C) /\ Len(RosPrefix) = 2
         /\ RequestPrefix \in Seq(C) /\ Len(RequestPrefix) = 3
         /\ ReplyPrefix \in Seq(C) /\ Len(ReplyPrefix) = 3
         /\ RequestSuffix \in Seq(C) /\ Len(RequestSuffix) = 7
         /\ ReplySuffix \in Seq(C) /\ Len(ReplySuffix) = 5
         /\ <<"/">> \in Seq(C) /\ Len(<<"/">>) = 1
<1>1. /\ "/" \in C /\ "r" \in C /\ "t" \in C /\ "q" \in C /\ "R" \in C /\ "e" \in C
      /\ "u" \in C /\ "s" \in C /\ "p" \in C /\ "l" \in C /\ "y" \in C
  BY DEF AffixCharacters
<1>2. /\ RosPrefix \in Seq(C) /\ Len(RosPrefix) = 2
      /\ <<"/">> \in Seq(C) /\ Len(<<"/">>) = 1
  BY <1>1 DEF RosPrefix
<1>3. RequestPrefix \in Seq(C) /\ Len(RequestPrefix) = 3
  BY <1>1 DEF RequestPrefix
<1>4. ReplyPrefix \in Seq(C) /\ Len(ReplyPrefix) = 3
  BY <1>1 DEF ReplyPrefix
<1>5. RequestSuffix \in Seq(C) /\ Len(RequestSuffix) = 7
  BY <1>1 DEF RequestSuffix
<1>6. ReplySuffix \in Seq(C) /\ Len(ReplySuffix) = 5
  BY <1>1 DEF ReplySuffix
<1> QED BY <1>2, <1>3, <1>4, <1>5, <1>6

\* A concatenation begins with its first part, and with no other of that length.
LEMMA Beginning ==
  ASSUME NEW S, NEW a \in Seq(S), NEW b \in Seq(S), NEW c \in Seq(S), Len(c) = Len(a)
  PROVE  IsPrefix(c, a \o b) <=> c = a
<1>1. /\ Len(a) \in Nat /\ Len(b) \in Nat /\ Len(a \o b) = Len(a) + Len(b)
      /\ SubSeq(a \o b, 1, Len(a)) = a
  BY Halves
<1>2. SubSeq(c, 1, Len(c)) = c
  BY SubSeqFull
<1>3. Len(c) <= Len(a \o b)
  BY <1>1
<1> QED BY <1>1, <1>2, <1>3 DEF IsPrefix

\* The ROS name is what follows the prefix of its DDS name.
LEMMA Unprefixed ==
  ASSUME NEW C, AffixCharacters \subseteq C, NEW name \in Seq(C)
  PROVE  SubSeq(DdsTopic(name), 3, Len(DdsTopic(name))) = name
<1>1. /\ Len(RosPrefix \o name) = Len(RosPrefix) + Len(name)
      /\ SubSeq(RosPrefix \o name, Len(RosPrefix) + 1, Len(RosPrefix) + Len(name)) = name
  BY Affixes, Halves
<1>2. Len(RosPrefix) = 2
  BY Affixes
<1>3. 2 + 1 = 3
  OBVIOUS
<1> QED BY <1>1, <1>2, <1>3, Zenon DEF DdsTopic

\* The name of a topic, which begins with a slash, is found in its DDS name
\* unless it looks like that of a service: a topic whose name begins with /rq
\* or /rr, as /rrbot/state does, is not listed.
THEOREM TopicNamesComeBack ==
  ASSUME NEW C, AffixCharacters \subseteq C,
         NEW name \in Seq(C), NEW rest \in Seq(C), name = <<"/">> \o rest
  PROVE  DemangledTopic(DdsTopic(name)) = IF LooksLikeService(name) THEN <<>> ELSE name
<1>1. DdsTopic(name) = (RosPrefix \o <<"/">>) \o rest
  BY Affixes, ConcatAssociative DEF DdsTopic
<1>2. IsPrefix(RosPrefix \o <<"/">>, DdsTopic(name))
  <2>1. RosPrefix \o <<"/">> \in Seq(C)
    BY Affixes, ConcatProperties
  <2>2. \A a \in Seq(C) : IsPrefix(a, a \o rest)
    BY Beginning
  <2> QED BY <1>1, <2>1, <2>2, Zenon
<1> QED BY <1>2, Unprefixed, Zenon DEF DemangledTopic

\* Two sequences are concatenated with a third on any side, in any grouping.
LEMMA Concatenations ==
  ASSUME NEW S, NEW u \in Seq(S), NEW v \in Seq(S)
  PROVE  /\ u \o v \in Seq(S)
         /\ \A y \in Seq(S) : /\ (u \o y) \o v = u \o (y \o v)
                              /\ (y \o u) \o v = y \o (u \o v)
<1>1. ASSUME NEW y \in Seq(S) PROVE (u \o y) \o v = u \o (y \o v)
  BY ConcatAssociative
<1>2. ASSUME NEW y \in Seq(S) PROVE (y \o u) \o v = y \o (u \o v)
  BY ConcatAssociative
<1>3. u \o v \in Seq(S)
  BY ConcatProperties
<1> QED BY <1>1, <1>2, <1>3

\* Four sequences can be concatenated in any grouping.
GroupingIsFree(r, p, x, s) ==
  /\ r \o ((p \o x) \o s) = ((r \o p) \o x) \o s
  /\ r \o ((p \o x) \o s) = (r \o p) \o (x \o s)

\* They can, over whatever set they are.
LEMMA Associate ==
  ASSUME NEW S, NEW r \in Seq(S), NEW p \in Seq(S), NEW x \in Seq(S), NEW s \in Seq(S)
  PROVE  GroupingIsFree(r, p, x, s)
<1>1. \A y \in Seq(S) : (r \o y) \o s = r \o (y \o s)
  BY Concatenations
<1>2. \A y \in Seq(S) : (y \o x) \o s = y \o (x \o s)
  BY Concatenations
<1>3. (r \o p) \o x = r \o (p \o x)
  BY Concatenations
<1>4. p \o x \in Seq(S) /\ r \o p \in Seq(S)
  BY Concatenations
<1>5. (r \o (p \o x)) \o s = r \o ((p \o x) \o s)
  BY <1>1, <1>4, Zenon
<1>6. ((r \o p) \o x) \o s = (r \o p) \o (x \o s)
  BY <1>2, <1>4, Zenon
<1> QED BY <1>3, <1>5, <1>6, Zenon DEF GroupingIsFree

\* A concatenation is a sequence and is as long as its parts together.
LEMMA Concatenated ==
  ASSUME NEW S, NEW a \in Seq(S), NEW b \in Seq(S)
  PROVE  a \o b \in Seq(S) /\ Len(a \o b) = Len(a) + Len(b)
BY ConcatProperties

\* Different names stay different behind a prefix.
LEMMA Distinguish ==
  ASSUME NEW S, NEW r \in Seq(S), NEW p \in Seq(S), NEW q \in Seq(S)
  PROVE  Len(p) = Len(q) /\ r \o p = r \o q => p = q
<1>1. SubSeq(r \o p, Len(r) + 1, Len(r) + Len(p)) = p
  BY Halves
<1>2. SubSeq(r \o q, Len(r) + 1, Len(r) + Len(q)) = q
  BY Halves
<1> QED BY <1>1, <1>2, Zenon

\* The DDS name of a topic of a service is taken for one of that service, and
\* never for a topic of the other kind.
LEMMA ServiceTopic ==
  ASSUME NEW C, NEW p \in Seq(C), NEW x \in Seq(C), NEW s \in Seq(C), x # <<>>,
         RosPrefix \in Seq(C), Len(RosPrefix) = 2
  PROVE  /\ IsServiceTopic(DdsTopic((p \o x) \o s), p, s)
         /\ ServiceOf(DdsTopic((p \o x) \o s), p, s) = x
         /\ \A t : \A q \in Seq(C) :
              Len(q) = Len(p) /\ q # p => ~IsServiceTopic(DdsTopic((p \o x) \o s), q, t)
<1>1. /\ RosPrefix \o p \in Seq(C) /\ x \o s \in Seq(C)
      /\ Len(RosPrefix \o p) = 2 + Len(p)
  <2>1. RosPrefix \o p \in Seq(C) /\ Len(RosPrefix \o p) = Len(RosPrefix) + Len(p)
    BY Concatenated
  <2>2. x \o s \in Seq(C)
    BY Concatenated
  <2> QED BY <2>1, <2>2, Zenon
<1>2. PICK a, dds : /\ a = RosPrefix \o p
                    /\ dds = DdsTopic((p \o x) \o s)
  OBVIOUS
<1>3. /\ a \in Seq(C) /\ Len(a) = 2 + Len(p)
      /\ dds = (a \o x) \o s /\ dds = a \o (x \o s)
  <2>1. dds = RosPrefix \o ((p \o x) \o s)
    BY <1>2, Zenon DEF DdsTopic
  <2>2. GroupingIsFree(RosPrefix, p, x, s)
    BY Associate
  <2> QED BY <1>1, <1>2, <2>1, <2>2, Zenon DEF GroupingIsFree
<1>4. InParts(dds, a, x, s)
  BY <1>3, Parts, Zenon
<1>5. Len(p) \in Nat /\ Len(x) \in Nat /\ Len(s) \in Nat /\ Len(x) # 0
  BY LenProperties, EmptySeq
<1>6. /\ Len(dds) = 2 + Len(p) + Len(x) + Len(s)
      /\ SubSeq(dds, 3 + Len(p), Len(dds) - Len(s)) = x
      /\ SubSeq(dds, Len(dds) - Len(s) + 1, Len(dds)) = s
  <2>1. /\ Len(dds) = Len(a) + Len(x) + Len(s)
        /\ SubSeq(dds, Len(a) + 1, Len(a) + Len(x)) = x
        /\ SubSeq(dds, Len(a) + Len(x) + 1, Len(dds)) = s
    BY <1>4 DEF InParts
  <2>2. /\ Len(a) + 1 = 3 + Len(p)
        /\ Len(a) + Len(x) = Len(dds) - Len(s)
    BY <1>3, <1>5, <2>1
  <2>3. Len(dds) = 2 + Len(p) + Len(x) + Len(s)
    BY <1>3, <2>1
  <2> QED BY <2>1, <2>2, <2>3, Zenon
<1>7. \A b \in Seq(C) : Len(b) = Len(a) => (IsPrefix(b, dds) <=> b = a)
  <2>1. \A b, y \in Seq(C) : Len(b) = Len(a) => (IsPrefix(b, a \o y) <=> b = a)
    BY <1>3, Beginning
  <2> QED BY <1>1, <1>3, <2>1, Zenon
<1>8. IsServiceTopic(dds, p, s)
  <2>1. IsPrefix(RosPrefix \o p, dds)
    BY <1>2, <1>3, <1>7, Zenon
  <2>2. Len(dds) > 2 + Len(p) + Len(s)
    BY <1>5, <1>6
  <2> QED BY <1>6, <2>1, <2>2, Zenon DEF IsServiceTopic
<1>9. ASSUME NEW q \in Seq(C), Len(q) = Len(p), q # p
      PROVE  ~IsPrefix(RosPrefix \o q, dds)
  <2>1. RosPrefix \o q \in Seq(C) /\ Len(RosPrefix \o q) = 2 + Len(q)
    <3>1. RosPrefix \o q \in Seq(C) /\ Len(RosPrefix \o q) = Len(RosPrefix) + Len(q)
      BY Concatenated
    <3> QED BY <3>1, Zenon
  <2>2. RosPrefix \o q # RosPrefix \o p
    BY <1>9, Distinguish
  <2> QED BY <1>2, <1>3, <1>7, <1>9, <2>1, <2>2, Zenon
<1> QED BY <1>2, <1>6, <1>8, <1>9, Zenon DEF IsServiceTopic, ServiceOf

\* The topics of a service are listed as those of that service, each in its
\* role, and never among the topics.
THEOREM ServiceNamesComeBack ==
  ASSUME NEW C, AffixCharacters \subseteq C, NEW service \in Seq(C), service # <<>>
  PROVE  LET request == DdsTopic(RequestTopic(service))
             reply == DdsTopic(ReplyTopic(service)) IN
         /\ IsServiceTopic(request, RequestPrefix, RequestSuffix)
         /\ ServiceOf(request, RequestPrefix, RequestSuffix) = service
         /\ ~IsServiceTopic(request, ReplyPrefix, ReplySuffix)
         /\ IsServiceTopic(reply, ReplyPrefix, ReplySuffix)
         /\ ServiceOf(reply, ReplyPrefix, ReplySuffix) = service
         /\ ~IsServiceTopic(reply, RequestPrefix, RequestSuffix)
         /\ DemangledTopic(request) = <<>> /\ DemangledTopic(reply) = <<>>
<1>1. /\ RequestPrefix \in Seq(C) /\ RequestSuffix \in Seq(C)
      /\ ReplyPrefix \in Seq(C) /\ ReplySuffix \in Seq(C)
      /\ Len(RequestPrefix) = Len(ReplyPrefix)
  BY Affixes
<1>2. RequestPrefix # ReplyPrefix
  BY DEF RequestPrefix, ReplyPrefix
<1>3. /\ IsServiceTopic(DdsTopic(RequestTopic(service)), RequestPrefix, RequestSuffix)
      /\ ServiceOf(DdsTopic(RequestTopic(service)), RequestPrefix, RequestSuffix) = service
      /\ ~IsServiceTopic(DdsTopic(RequestTopic(service)), ReplyPrefix, ReplySuffix)
  BY <1>1, <1>2, Affixes, ServiceTopic, Zenon DEF RequestTopic
<1>4. /\ IsServiceTopic(DdsTopic(ReplyTopic(service)), ReplyPrefix, ReplySuffix)
      /\ ServiceOf(DdsTopic(ReplyTopic(service)), ReplyPrefix, ReplySuffix) = service
      /\ ~IsServiceTopic(DdsTopic(ReplyTopic(service)), RequestPrefix, RequestSuffix)
  BY <1>1, <1>2, Affixes, ServiceTopic, Zenon DEF ReplyTopic
<1>5. ASSUME NEW p \in Seq(C), NEW s \in Seq(C)
      PROVE  /\ (p \o service) \o s \in Seq(C)
             /\ IsPrefix(p, (p \o service) \o s)
  <2>1. p \o (service \o s) = (p \o service) \o s /\ service \o s \in Seq(C)
    BY ConcatAssociative, ConcatProperties
  <2>2. \A y \in Seq(C) : p \o y \in Seq(C) /\ IsPrefix(p, p \o y)
    BY Beginning, ConcatProperties
  <2> QED BY <2>1, <2>2
<1>6. /\ RequestTopic(service) \in Seq(C) /\ LooksLikeService(RequestTopic(service))
      /\ ReplyTopic(service) \in Seq(C) /\ LooksLikeService(ReplyTopic(service))
  BY <1>1, <1>5 DEF RequestTopic, ReplyTopic, LooksLikeService
<1>7. /\ DemangledTopic(DdsTopic(RequestTopic(service))) = <<>>
      /\ DemangledTopic(DdsTopic(ReplyTopic(service))) = <<>>
  BY <1>6, Unprefixed, Zenon DEF DemangledTopic
<1> QED BY <1>3, <1>4, <1>7, Zenon
=============================================================================
