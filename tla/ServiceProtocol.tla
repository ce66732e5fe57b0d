---------------------------- MODULE ServiceProtocol ----------------------------
(***************************************************************************)
(* One ROS service: clients, the servers that offer it, and the two DDS    *)
(* topics between them.                                                    *)
(*                                                                         *)
(* Requests and responses carry the client's writer GUID and a number from *)
(* the client's atomic counter; a response goes to every client, and each  *)
(* drops those of the others.  DDS delivers to the readers a writer has    *)
(* registered when it writes, and the four ends of a client and a server   *)
(* find one another at different times, so a response may miss a client    *)
(* that already has a server to ask: rmw_service_server_is_available is    *)
(* there to tell when that is over.                                        *)
(*                                                                         *)
(* What a reader holds need not be a message: a sample may carry no data,  *)
(* as when zzdds tells of a writer that is gone, or be too short to hold a *)
(* request header.  Both end the call that takes them.                     *)
(***************************************************************************)
EXTENDS Integers, Sequences, FiniteSets

CONSTANTS
  Clients,     \* clients, each standing for the GUID of its request writer
  Askers,      \* bound: those that ask whether a server is available; what only
               \* the answer depends on is left out for the others
  Servers,     \* servers of the service
  Threads,     \* application threads that send requests and ask for servers
  Takers,      \* application threads that take responses
  MaxRequests, \* bound: numbers a client hands out
  MaxStrays,   \* bound: samples that are no messages
  Failing,     \* what may fail: writing a "request" or "response", a "take"
  Departing    \* do servers go away?

ASSUME ServiceConstants ==
  /\ Askers \subseteq Clients
  /\ MaxRequests \in Nat
  /\ MaxStrays \in Nat
  /\ Failing \subseteq {"request", "response", "take"}
  /\ Departing \in BOOLEAN

VARIABLES
  alive,      \* the servers there are
  requestTo,  \* zzdds: the servers a client's request writer has matched
  responseTo, \* zzdds: the clients a server's response writer has registered
  readyFrom,  \* zzdds: the servers that have proven it to a client's reader
  owed,       \* zzdds: on_reliable_writer_ready calls still to make, up and down
  readyCount, \* response_subscription's reliable_writer_ready_count
  next,       \* ClientImpl::next_sequence
  requests,   \* request subscription of each server
  responses,  \* response subscription of each client
  taken,      \* requests each server has taken and not answered
  pc,         \* where each thread is
  frame,      \* its locals: its client, the number it uses, what it has read
  taking,     \* the threads in rmw_take_response, by client
  available,  \* clients last told by rmw_service_server_is_available they may ask
  sent,       \* history: the numbers of the requests each client has written
  assured,    \* history: those written when the client had been told it may
  answered,   \* history: the numbers each client has taken responses to, in turn
  lost,       \* history: requests that ended in a call that reported an error
  strays      \* bound: samples so far that were no messages

ddsVars == <<alive, requestTo, responseTo, readyFrom, owed>>
history == <<sent, assured, answered, lost, strays>>
vars == <<alive, requestTo, responseTo, readyFrom, owed, readyCount, next, requests,
          responses, taken, pc, frame, taking, available, sent, assured, answered,
          lost, strays>>

\* A request, and the response to it; and a sample that is neither.
Request(c, n) == [kind |-> "message", client |-> c, number |-> n]
NoMessage(kind) == [kind |-> kind, client |-> CHOOSE c \in Clients : TRUE, number |-> 0]

Idle == [client |-> CHOOSE c \in Clients : TRUE, number |-> 0, matched |-> FALSE]

Outcomes(what) == IF what \in Failing THEN {TRUE, FALSE} ELSE {TRUE}

-----------------------------------------------------------------------------
(* zzdds discovery.                                                        *)

Matching(c, s) ==
  /\ s \in alive \ requestTo[c]
  /\ requestTo' = [requestTo EXCEPT ![c] = @ \cup {s}]
  /\ UNCHANGED <<alive, responseTo, readyFrom, owed>>

Registering(c, s) ==
  /\ s \in alive
  /\ c \notin responseTo[s]
  /\ responseTo' = [responseTo EXCEPT ![s] = @ \cup {c}]
  /\ UNCHANGED <<alive, requestTo, readyFrom, owed>>

\* The response writer has named this reader, so it has registered it.  (The
\* client counts this for rmw_service_server_is_available alone.)
Proving(c, s) ==
  /\ c \in Askers
  /\ s \in alive \ readyFrom[c]
  /\ c \in responseTo[s]
  /\ readyFrom' = [readyFrom EXCEPT ![c] = @ \cup {s}]
  /\ owed' = [owed EXCEPT ![c].up = @ + 1]
  /\ UNCHANGED <<alive, requestTo, responseTo>>

\* The client's two ends notice that a server has gone, each in its time.
NoticeReaderGone(c, s) ==
  /\ s \in requestTo[c] \ alive
  /\ requestTo' = [requestTo EXCEPT ![c] = @ \ {s}]
  /\ UNCHANGED <<alive, responseTo, readyFrom, owed>>

NoticeWriterGone(c, s) ==
  /\ s \in readyFrom[c] \ alive
  /\ readyFrom' = [readyFrom EXCEPT ![c] = @ \ {s}]
  /\ owed' = [owed EXCEPT ![c].down = @ + 1]
  /\ UNCHANGED <<alive, requestTo, responseTo>>

Discovery(c, s) ==
  /\ \/ Matching(c, s) \/ Registering(c, s) \/ Proving(c, s)
     \/ NoticeReaderGone(c, s) \/ NoticeWriterGone(c, s)
  /\ UNCHANGED <<readyCount, next, requests, responses, taken, pc, frame, taking, available, history>>

\* rmw_destroy_service.
Depart(s) ==
  /\ Departing
  /\ s \in alive
  /\ alive' = alive \ {s}
  /\ requests' = [requests EXCEPT ![s] = <<>>]
  /\ taken' = [taken EXCEPT ![s] = {}]
  /\ responseTo' = [responseTo EXCEPT ![s] = {}]
  /\ UNCHANGED <<requestTo, readyFrom, owed, readyCount, next, responses, pc,
                 frame, taking, available, history>>

-----------------------------------------------------------------------------
(* Readiness and availability.                                             *)

\* (Slip: the signs are swapped.)
ReadyDeltaSwapped(ready) == IF ready THEN -1 ELSE 1

ReadyDelta(ready) == IF ready THEN 1 ELSE -1

\* reliable_writer_ready_listener.  The calls of different zzdds threads are
\* not ordered; the addition is atomic.
ReadyListener(c) ==
  /\ \E ready \in BOOLEAN :
       /\ IF ready THEN owed[c].up > 0 ELSE owed[c].down > 0
       /\ owed' = IF ready THEN [owed EXCEPT ![c].up = @ - 1]
                           ELSE [owed EXCEPT ![c].down = @ - 1]
       /\ readyCount' = [readyCount EXCEPT ![c] = @ + ReadyDelta(ready)]
  /\ UNCHANGED <<alive, requestTo, responseTo, readyFrom, next, requests, responses,
                 taken, pc, frame, taking, available, history>>

\* rmw_service_server_is_available first counts the matched request readers ...
CheckMatched(t, c) ==
  /\ pc[t] = "idle"
  /\ pc' = [pc EXCEPT ![t] = "ready"]
  /\ frame' = [frame EXCEPT ![t] = [client |-> c, number |-> 0, matched |-> requestTo[c] # {}]]
  /\ UNCHANGED <<ddsVars, readyCount, next, requests, responses, taken, taking, available, history>>

\* (Slip: matched readers are taken for an answer.)
MatchedIsEnough(c) == TRUE

WriterReady(c) == readyCount[c] > 0

Return(t) == pc' = [pc EXCEPT ![t] = "idle"] /\ frame' = [frame EXCEPT ![t] = Idle]

\* ... and then reads the count of response writers that are ready.
CheckReady(t) ==
  /\ pc[t] = "ready"
  /\ LET c == frame[t].client
     IN  available' = IF frame[t].matched /\ WriterReady(c)
                      THEN available \cup {c} ELSE available \ {c}
  /\ Return(t)
  /\ UNCHANGED <<ddsVars, readyCount, next, requests, responses, taken, taking, history>>

-----------------------------------------------------------------------------
(* Requests.                                                               *)

\* (Slip: the counter is read and not advanced.)
NumberKept(n) == n

NumberAfter(n) == n + 1

\* rmw_send_request takes a number from the counter ...
SendNumber(t, c) ==
  /\ pc[t] = "idle"
  /\ next[c] <= MaxRequests
  /\ frame' = [frame EXCEPT ![t] = [client |-> c, number |-> next[c], matched |-> FALSE]]
  /\ next' = [next EXCEPT ![c] = NumberAfter(next[c])]
  /\ pc' = [pc EXCEPT ![t] = "write"]
  /\ UNCHANGED <<ddsVars, readyCount, requests, responses, taken, taking, available, history>>

\* ... and writes the request: to the servers matched by now.  If that fails
\* the number is not used again.
SendWrite(t) ==
  /\ pc[t] = "write"
  /\ LET c == frame[t].client
         request == Request(c, frame[t].number)
     IN  \E ok \in Outcomes("request") :
           IF ok
           THEN /\ requests' = [s \in Servers |->
                                  IF s \in requestTo[c] \cap alive
                                  THEN Append(requests[s], request) ELSE requests[s]]
                /\ sent' = [sent EXCEPT ![c] = Append(@, request.number)]
                /\ assured' = IF c \in available THEN assured \cup {request} ELSE assured
           ELSE UNCHANGED <<requests, sent, assured>>
  /\ Return(t)
  /\ UNCHANGED <<ddsVars, readyCount, next, responses, taken, taking, available,
                 answered, lost, strays>>

-----------------------------------------------------------------------------
(* Taking messages.                                                        *)

\* A sample that is no message reaches a reader of the service.
Stray ==
  /\ strays < MaxStrays
  /\ strays' = strays + 1
  /\ \E kind \in {"no data", "malformed"} :
       \/ /\ \E s \in alive : requests' = [requests EXCEPT ![s] = Append(@, NoMessage(kind))]
          /\ UNCHANGED responses
       \/ /\ \E c \in Clients : responses' = [responses EXCEPT ![c] = Append(@, NoMessage(kind))]
          /\ UNCHANGED requests
  /\ UNCHANGED <<ddsVars, readyCount, next, taken, pc, frame, taking, available,
                 sent, assured, answered, lost>>

\* (Slips: every message is this caller's; or the GUIDs are compared the wrong
\* way round; or a call that cannot read its message says there was none.)
AnyIsOwn(sample, c) == TRUE
OthersAreOwn(sample, c) == sample.client # c
FaultForgotten == "nothing"

\* Has this message the expected GUID?  Is what a call reports that has taken a
\* message and cannot read it.
IsOwn(sample, c) == sample.client = c
Unreadable == "error"

\* take_service_message, once it has taken a sample for client c: it may give
\* the message to its caller, or go on with the next sample, or end with nothing
\* or an error.
Verdicts(sample, c) ==
  CASE sample.kind = "no data"   -> {"nothing"}
    [] sample.kind = "malformed" -> {Unreadable}
    [] OTHER -> {IF IsOwn(sample, c) THEN "given" ELSE "next"}
                \cup (IF "take" \in Failing THEN {Unreadable} ELSE {})

\* rmw_take_request: whoever has sent it.
TakeRequest(s) ==
  /\ requests[s] # <<>>
  /\ requests' = [requests EXCEPT ![s] = Tail(@)]
  /\ LET request == Head(requests[s])
     IN  \E verdict \in Verdicts(request, request.client) :
           /\ taken' = IF verdict = "given" THEN [taken EXCEPT ![s] = @ \cup {request}]
                                            ELSE taken
           /\ lost' = IF verdict = "error" /\ request.kind = "message" THEN lost \cup {request} ELSE lost
  /\ UNCHANGED <<ddsVars, readyCount, next, responses, pc, frame, taking, available,
                 sent, assured, answered, strays>>

\* rmw_take_response, by a thread that has been told there is something to take.
StartTake(t, c) ==
  /\ \A d \in Clients : t \notin taking[d]
  /\ responses[c] # <<>>
  /\ taking' = [taking EXCEPT ![c] = @ \cup {t}]
  /\ UNCHANGED <<ddsVars, readyCount, next, requests, responses, taken, pc, frame,
                 available, history>>

EndTake(t, c) == taking' = [taking EXCEPT ![c] = @ \ {t}]

\* The reader has nothing left, or zzdds fails.
TakeNone(t, c) ==
  /\ t \in taking[c]
  /\ responses[c] = <<>> \/ "take" \in Failing
  /\ EndTake(t, c)
  /\ UNCHANGED <<ddsVars, readyCount, next, requests, responses, taken, pc, frame,
                 available, history>>

\* Responses to other clients are taken and dropped.
TakeNext(t, c) ==
  /\ t \in taking[c]
  /\ responses[c] # <<>>
  /\ responses' = [responses EXCEPT ![c] = Tail(@)]
  /\ LET response == Head(responses[c])
     IN  \E verdict \in Verdicts(response, c) :
           /\ IF verdict = "next" THEN UNCHANGED taking ELSE EndTake(t, c)
           /\ answered' = IF verdict = "given"
                          THEN [answered EXCEPT ![c] = Append(@, response.number)]
                          ELSE answered
           /\ lost' = IF verdict = "error" /\ response.client = c
                      THEN lost \cup {response} ELSE lost
  /\ UNCHANGED <<ddsVars, readyCount, next, requests, taken, pc, frame, available,
                 sent, assured, strays>>

-----------------------------------------------------------------------------
(* Responses.                                                              *)

\* rmw_send_response: to every client the response writer has registered.
SendResponse(s, request) ==
  /\ request \in taken[s]
  /\ taken' = [taken EXCEPT ![s] = @ \ {request}]
  /\ \E ok \in Outcomes("response") :
       /\ responses' = [c \in Clients |-> IF ok /\ c \in responseTo[s]
                                          THEN Append(responses[c], request) ELSE responses[c]]
       /\ lost' = IF ok THEN lost ELSE lost \cup {request}
  /\ UNCHANGED <<ddsVars, readyCount, next, requests, pc, frame, taking, available,
                 sent, assured, answered, strays>>

-----------------------------------------------------------------------------

Init ==
  /\ alive = Servers
  /\ requestTo = [c \in Clients |-> {}]
  /\ responseTo = [s \in Servers |-> {}]
  /\ readyFrom = [c \in Clients |-> {}]
  /\ owed = [c \in Clients |-> [up |-> 0, down |-> 0]]
  /\ readyCount = [c \in Clients |-> 0]
  /\ next = [c \in Clients |-> 1]
  /\ requests = [s \in Servers |-> <<>>]
  /\ responses = [c \in Clients |-> <<>>]
  /\ taken = [s \in Servers |-> {}]
  /\ pc = [t \in Threads |-> "idle"]
  /\ frame = [t \in Threads |-> Idle]
  /\ taking = [c \in Clients |-> {}]
  /\ available = {}
  /\ sent = [c \in Clients |-> <<>>]
  /\ assured = {}
  /\ answered = [c \in Clients |-> <<>>]
  /\ lost = {}
  /\ strays = 0

ServerStep(s) == TakeRequest(s) \/ \E request \in taken[s] : SendResponse(s, request)

Next ==
  \/ \E c \in Clients, s \in Servers : Discovery(c, s)
  \/ \E s \in Servers : Depart(s) \/ ServerStep(s)
  \/ \E c \in Clients : ReadyListener(c)
  \/ \E t \in Takers, c \in Clients : StartTake(t, c) \/ TakeNone(t, c) \/ TakeNext(t, c)
  \/ Stray
  \/ \E t \in Threads, c \in Askers : CheckMatched(t, c)
  \/ \E t \in Threads, c \in Clients : SendNumber(t, c)
  \/ \E t \in Threads : CheckReady(t) \/ SendWrite(t)

Spec == Init /\ [][Next]_vars

\* Discovery completes, listeners run, servers serve, and clients take while there
\* is something to take, which zzdds does not refuse for ever; nobody has to send
\* a request or to ask for a server, and no server has to stay.
FairSpec ==
  /\ Spec
  /\ \A c \in Clients, s \in Servers : WF_vars(Discovery(c, s))
  /\ \A c \in Clients : WF_vars(ReadyListener(c)) /\ WF_vars(\E t \in Takers : StartTake(t, c))
  /\ \A t \in Takers, c \in Clients : WF_vars(TakeNone(t, c) \/ TakeNext(t, c))
  /\ \A c \in Clients : SF_vars(\E t \in Takers : TakeNext(t, c))
  /\ \A s \in Servers : WF_vars(ServerStep(s))

-----------------------------------------------------------------------------
(* Correctness.                                                            *)

SeqRange(seq) == {seq[i] : i \in DOMAIN seq}

\* A response answers one request, of the client that gets it: a client only
\* ever gets responses to its own requests, although every response of a server
\* reaches every client, and no two of its requests share a number, whichever
\* threads send them at once and whatever fails.
AnswersAreOwn ==
  \A c \in Clients :
    /\ SeqRange(answered[c]) \subseteq SeqRange(sent[c])
    /\ \A i, j \in DOMAIN sent[c] : sent[c][i] = sent[c][j] => i = j

\* Once zzdds owes no call the ready count is the number of ready writers, in
\* whatever order the calls came, so it falls to 0 when the last has gone.
ReadyCountIsExact ==
  \A c \in Clients :
    owed[c] = [up |-> 0, down |-> 0] => readyCount[c] = Cardinality(readyFrom[c])

\* The response to a request sent after rmw_service_server_is_available said
\* so is written to the client that asked.
AssuredIsAnswerable ==
  \A s \in Servers : \A request \in taken[s] :
    request \in assured => request.client \in responseTo[s]

\* A request sent after rmw_service_server_is_available said so does not get
\* lost: as long as no server has gone away it is held by a reader or by a server,
\* or has been answered, or a call that served or took it has reported an error.
AssuredIsNotLost ==
  \A request \in assured :
    \/ alive # Servers
    \/ \E s \in Servers : request \in SeqRange(requests[s]) \cup taken[s]
    \/ request \in SeqRange(responses[request.client])
    \/ request.number \in SeqRange(answered[request.client])
    \/ request \in lost

\* A request sent after rmw_service_server_is_available said so is answered,
\* unless the server goes away first or a call reports an error.
AssuredIsAnswered ==
  \A c \in Clients, n \in 1 .. MaxRequests :
    Request(c, n) \in assured
      ~> (n \in SeqRange(answered[c]) \/ Request(c, n) \in lost \/ alive # Servers)

=============================================================================
