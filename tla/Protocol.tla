------------------------------ MODULE Protocol -------------------------------
(***************************************************************************)
(* broker/include/Protocol.hpp, and the same format in the gateway's       *)
(* protocol.js: frames as sequences of bytes.  A frame is a header (magic, *)
(* type, payload length, message id) and a payload.  Numbers are           *)
(* big-endian and cut to the width of their field.  The widths and the     *)
(* number of values of a byte are constants, so that a length field        *)
(* overflows on short sequences.                                           *)
(***************************************************************************)
EXTENDS Integers, Sequences

CONSTANTS Base,           \* values of a byte: 256
          Magic,          \* FRAME_MAGIC, as bytes: 4 of them
          LenBytes,       \* 4
          IdBytes,        \* 8
          TopicLenBytes   \* 2

Byte == 0..(Base - 1)

ASSUME BytesAssumption ==
    /\ Base \in Nat /\ Base > 7   \* the types are one byte each
    /\ Magic \in Seq(Byte) /\ Magic # <<>>
    /\ LenBytes \in Nat \ {0} /\ IdBytes \in Nat \ {0} /\ TopicLenBytes \in Nat \ {0}

PUBLISH == 1
SUBSCRIBE == 2
ACK == 3
NACK == 4
HEARTBEAT == 5
EVENT_DATA == 6

HEADER_SIZE == Len(Magic) + 1 + LenBytes + IdBytes

\* The number of values of k bytes.
Power[k \in Nat] == IF k = 0 THEN 1 ELSE Base * Power[k - 1]

\* The last k bytes of a number, and the number that bytes stand for.
ToBE(n, k) == [i \in 1..k |-> (n \div Power[k - i]) % Base]
FromBE(s) ==
    LET first[k \in 0..Len(s)] == IF k = 0 THEN 0 ELSE first[k - 1] * Base + s[k]
    IN  first[Len(s)]

\* static_cast<uint16_t> of a length.
Uint16(n) == n % Power[TopicLenBytes]

Header(type, payload_len, msg_id) ==
    Magic \o <<type>> \o ToBE(payload_len, LenBytes) \o ToBE(msg_id, IdBytes)

\* A string behind its length.  The length is cut, the string is not.
Counted(s) == ToBE(Uint16(Len(s)), TopicLenBytes) \o s

\* Mutant: the payload length leaves out the topic's length field.
EncodeShort(type, msg_id, topic, body) ==
    Header(type, Uint16(Len(topic)) + Len(body), msg_id) \o Counted(topic) \o body

encode_frame(type, msg_id, topic, body) ==
    Header(type, TopicLenBytes + Uint16(Len(topic)) + Len(body), msg_id)
        \o Counted(topic) \o body

encode_subscribe_frame(topic, group, msg_id) ==
    Header(SUBSCRIBE, 2 * TopicLenBytes + Uint16(Len(topic)) + Uint16(Len(group)), msg_id)
        \o Counted(topic) \o Counted(group)

encode_ack_frame(type, msg_id) == Header(type, 0, msg_id)

\* k bytes behind the first o.
Field(data, o, k) == SubSeq(data, o + 1, o + k)

decode_header(data) ==
    LET m == Len(Magic) IN
    [valid       |-> Field(data, 0, m) = Magic,
     type        |-> data[m + 1],
     payload_len |-> FromBE(Field(data, m + 1, LenBytes)),
     msg_id      |-> FromBE(Field(data, m + 1 + LenBytes, IdBytes))]

\* Topic and body of a PUBLISH; both are empty when the payload is too short.
decode_publish(payload) ==
    LET w == TopicLenBytes
        topic_len == FromBE(Field(payload, 0, w))
    IN  IF Len(payload) < w \/ Len(payload) < w + topic_len
        THEN [topic |-> <<>>, rest |-> <<>>]
        ELSE [topic |-> Field(payload, w, topic_len),
              rest  |-> SubSeq(payload, w + topic_len + 1, Len(payload))]

\* Topic and group of a SUBSCRIBE; a group that is cut short counts as none.
decode_subscribe(payload) ==
    LET w == TopicLenBytes
        topic_len == FromBE(Field(payload, 0, w))
        g_offset == 2 * w + topic_len
        group_len == FromBE(Field(payload, w + topic_len, w))
    IN  IF Len(payload) < w \/ Len(payload) < g_offset
        THEN [topic |-> <<>>, rest |-> <<>>]
        ELSE [topic |-> Field(payload, w, topic_len),
              rest  |-> IF Len(payload) >= g_offset + group_len
                        THEN Field(payload, g_offset, group_len) ELSE <<>>]

\* The gateway's decoding of an event: it does not look at the length of the
\* payload, and takes what is there.
decodeEventPayload(payload) ==
    LET w == TopicLenBytes
        topicLen == FromBE(Field(payload, 0, w))
        end == IF w + topicLen < Len(payload) THEN w + topicLen ELSE Len(payload)
    IN  IF Len(payload) < w THEN [topic |-> <<>>, rest |-> <<>>]
        ELSE [topic |-> SubSeq(payload, w + 1, end),
              rest  |-> SubSeq(payload, end + 1, Len(payload))]
==============================================================================
