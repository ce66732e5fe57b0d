----------------------------- MODULE Conversions -----------------------------
(***************************************************************************)
(* What rmw_zzdds_cpp converts between ROS and DDS: names, QoS policies,   *)
(* timeouts, and the messages services and clients exchange.  These are    *)
(* functions without state.  The proofs of the components that use them    *)
(* say what each guarantees: WaitSet_proof for timeouts, DataPath_proof    *)
(* for QoS and serialized messages, ServiceProtocol_proof for the rest.    *)
(***************************************************************************)
EXTENDS Integers, SequencesExt

MaxInt32 == 2147483647
MaxInt64 == 9223372036854775807
MaxUInt64 == 18446744073709551615

\* The value of a uint64_t computation, and a uint64_t cast to int64_t.
Wrap64(n) == n % (MaxUInt64 + 1)
Signed64(n) == IF n > MaxInt64 THEN n - (MaxUInt64 + 1) ELSE n

-----------------------------------------------------------------------------
(* Timeouts: an rmw_time_t has a uint64_t of seconds and one of nanoseconds, *)
(* a DDS_Duration_t an int32_t of seconds.                                   *)

Billion == 1000000000

RmwTime == [sec : 0 .. MaxUInt64, nsec : 0 .. MaxUInt64]

\* RMW_DURATION_INFINITE.
RmwInfinite == [sec |-> 9223372036, nsec |-> 854775807]

\* The seconds in the nanoseconds.
ExtraSeconds(t) == t.nsec \div Billion

\* The DDS duration that is made of a timeout.
DdsDuration(t) == [sec     |-> Wrap64(t.sec + ExtraSeconds(t)),
                   nanosec |-> t.nsec % Billion]

\* to_dds_duration, for rmw_wait, does not refuse a timeout it is given.
WaitAccepts(t) ==
  /\ t.sec <= MaxUInt64 - ExtraSeconds(t)
  /\ DdsDuration(t).sec <= MaxInt32

\* rmw_publisher_wait_for_all_acked waits forever, or accepts a timeout.
AckForever(t) == t = RmwInfinite
AckAccepts(t) ==
  /\ t.sec <= MaxInt32
  /\ ExtraSeconds(t) <= MaxInt32 - t.sec

-----------------------------------------------------------------------------
(* QoS policies.  The DDS ones start from the defaults of zzdds.             *)

RmwQos ==
  [reliability : {"system_default", "reliable", "best_effort", "other"},
   durability  : {"system_default", "volatile", "transient_local", "other"},
   history     : {"system_default", "keep_last", "keep_all", "other"},
   depth       : Nat,
   liveliness  : {"system_default", "automatic", "manual_by_topic", "other"}]

DdsQos ==
  [reliability : {"reliable", "best_effort"},
   durability  : {"volatile", "transient_local", "transient", "persistent"},
   history     : {"keep_last", "keep_all"},
   depth       : - MaxInt32 - 1 .. MaxInt32,
   liveliness  : {"automatic", "manual_by_participant", "manual_by_topic"}]

\* apply_qos returns true.
Applicable(q) ==
  /\ q.reliability # "other"
  /\ q.durability # "other"
  /\ q.history # "other"
  /\ q.history = "keep_last" => q.depth <= MaxInt32
  /\ q.liveliness # "other"

\* A policy that is left to the system keeps the default.
Chosen(policy, default) == IF policy = "system_default" THEN default ELSE policy

\* apply_qos: what it makes of the defaults.
Applied(q, defaults) ==
  [reliability |-> Chosen(q.reliability, defaults.reliability),
   durability  |-> Chosen(q.durability, defaults.durability),
   history     |-> Chosen(q.history, defaults.history),
   depth       |-> IF q.history = "keep_last" THEN q.depth ELSE defaults.depth,
   liveliness  |-> Chosen(q.liveliness, "automatic")]

\* resolved_qos: the QoS an endpoint reports as its own.
Resolved(dds) ==
  [reliability |-> dds.reliability,
   durability  |-> IF dds.durability = "transient_local" THEN "transient_local" ELSE "volatile",
   history     |-> dds.history,
   depth       |-> IF dds.history = "keep_all" \/ dds.depth < 0 THEN 0 ELSE dds.depth,
   liveliness  |-> IF dds.liveliness = "manual_by_topic" THEN "manual_by_topic" ELSE "automatic"]

ActualQos(q, defaults) == Resolved(Applied(q, defaults))

-----------------------------------------------------------------------------
(* Serialized messages: how many bytes are used of how many there are.       *)

\* valid_serialized_message.
ValidSerialized(m) == m.length <= m.capacity

\* rmw_serialize of a message of this size, when the buffer can be enlarged or
\* not, and the serializer writes so many bytes.
Serialized(m, size, enlarged, written) ==
  LET grown == [m EXCEPT !.capacity = IF @ < size THEN size ELSE @] IN
  IF size < 4 \/ size = MaxUInt64 \/ (m.capacity < size /\ ~enlarged) THEN [ok |-> FALSE, message |-> m]
  ELSE IF written # size THEN [ok |-> FALSE, message |-> grown]
  ELSE [ok |-> TRUE, message |-> [grown EXCEPT !.length = written]]

-----------------------------------------------------------------------------
(* Messages of services and clients: a header of the GUID of the client and  *)
(* the number of the request goes before the payload.                        *)

GuidSize == 16
HeaderSize == GuidSize + 8

\* 256 to the powers from 7 down to 0.
Place == <<72057594037927936, 281474976710656, 1099511627776, 4294967296,
           16777216, 65536, 256, 1>>

\* encode_sequence and decode_sequence.
EncodeSequence(n) == [i \in 1 .. 8 |-> (Wrap64(n) \div Place[i]) % 256]

DecodeSequence(b) ==
  Signed64(256 * (256 * (256 * (256 * (256 * (256 * (256 *
           b[1] + b[2]) + b[3]) + b[4]) + b[5]) + b[6]) + b[7]) + b[8])

\* publish_service_message, and the parts take_service_message finds.
Wire(guid, number, payload) == guid \o EncodeSequence(number) \o payload
WireGuid(w) == SubSeq(w, 1, GuidSize)
WireNumber(w) == DecodeSequence(SubSeq(w, GuidSize + 1, HeaderSize))
WirePayload(w) == SubSeq(w, HeaderSize + 1, Len(w))
Malformed(w) == Len(w) <= HeaderSize

-----------------------------------------------------------------------------
(* Names, as sequences of characters.                                        *)

RosPrefix == <<"r", "t">>
RequestPrefix == <<"/", "r", "q">>
ReplyPrefix == <<"/", "r", "r">>
RequestSuffix == <<"R", "e", "q", "u", "e", "s", "t">>
ReplySuffix == <<"R", "e", "p", "l", "y">>

\* dds_topic_name, of a name that follows the ROS conventions.
DdsTopic(name) == RosPrefix \o name

\* service_topics: the ROS topics of a service.
RequestTopic(service) == RequestPrefix \o service \o RequestSuffix
ReplyTopic(service) == ReplyPrefix \o service \o ReplySuffix

\* What demangle_dds_topic takes for the topic of a service.
LooksLikeService(name) == IsPrefix(RequestPrefix, name) \/ IsPrefix(ReplyPrefix, name)

\* demangle_dds_topic: the ROS topic, or nothing.
DemangledTopic(dds) ==
  LET name == SubSeq(dds, 3, Len(dds)) IN
  IF IsPrefix(RosPrefix \o <<"/">>, dds) /\ ~LooksLikeService(name) THEN name ELSE <<>>

\* extract_service_topics: does a DDS topic belong to a service, and to which?
IsServiceTopic(dds, prefix, suffix) ==
  /\ Len(dds) > 2 + Len(prefix) + Len(suffix)
  /\ IsPrefix(RosPrefix \o prefix, dds)
  /\ SubSeq(dds, Len(dds) - Len(suffix) + 1, Len(dds)) = suffix

ServiceOf(dds, prefix, suffix) ==
  SubSeq(dds, 3 + Len(prefix), Len(dds) - Len(suffix))
==============================================================================
