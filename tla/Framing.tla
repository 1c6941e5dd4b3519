------------------------------- MODULE Framing -------------------------------
(***************************************************************************)
(* The byte streams between gateway and broker: TcpServer::handle_client   *)
(* reads what the gateway sends, TcpClient's 'data' handler reads what the *)
(* broker sends.  TCP keeps the order of the bytes and delivers them in    *)
(* pieces of any size; a connection can be lost at any byte, and is then   *)
(* made anew.  handle_client starts with an empty buffer each time;        *)
(* TcpClient has one buffer for all its connections.                       *)
(*                                                                         *)
(* A frame is [type, msg_id, topic, rest], where rest is the body or the   *)
(* group.  The descriptors and the registry of clients are in TcpServer,   *)
(* what the gateway does while it is not connected in Gateway.             *)
(***************************************************************************)
EXTENDS Protocol

CONSTANTS UpFrames,   \* frames the gateway sends: SUBSCRIBE, PUBLISH, ACK, NACK, HEARTBEAT
          Events,     \* EVENT_DATA frames the dispatcher sends
          MaxFrames,  \* bound: after so many frames on one connection no more are sent
          MaxConns    \* bound: connections

\* What the header of a frame says its payload has.
PayloadLen(f) ==
    CASE f.type = SUBSCRIBE -> 2 * TopicLenBytes + Uint16(Len(f.topic)) + Uint16(Len(f.rest))
      [] f.type \in {PUBLISH, EVENT_DATA} -> TopicLenBytes + Uint16(Len(f.topic)) + Len(f.rest)
      [] OTHER -> 0

\* Frames whose numbers fit into the fields of the header.
Frames == {f \in [type : 1..6, msg_id : Nat, topic : Seq(Byte), rest : Seq(Byte)] :
              f.msg_id < Power[IdBytes] /\ PayloadLen(f) < Power[LenBytes]}

\* The lengths fit into their fields, and what is not sent is empty.
Whole(f) ==
    /\ Uint16(Len(f.topic)) = Len(f.topic)
    /\ f.type = SUBSCRIBE => Uint16(Len(f.rest)) = Len(f.rest)
    /\ f.type \in {SUBSCRIBE, PUBLISH} => f.msg_id = 0
    /\ f.type \in {ACK, NACK, HEARTBEAT} => f.topic = <<>> /\ f.rest = <<>>

\* The gateway's encoders throw where a length does not fit into its field; the
\* broker's cut the length of a topic.
ASSUME FramesFit ==
    /\ UpFrames \subseteq {f \in Frames : f.type # EVENT_DATA /\ Whole(f)}
    /\ Events \subseteq {e \in Frames : e.type = EVENT_DATA}

VARIABLES up, down,   \* bytes in transit, to the broker and to the gateway
          lost,       \* the connection is broken: nothing is added to them
          handler,    \* handle_client: in "recv", in the loop of "parse", or "done"
          read_buf,   \* its local buffer
          socket,     \* TcpClient's socket: "open" or "closed"
          readBuf,    \* the first #readLen bytes of #readBuf
          sentUp, sentDown,   \* history: frames sent on this connection
          handled,    \* history: frames passed to on_frame on this connection
          emitted,    \* history: 'frame' events of this connection
          clean,      \* history: readBuf was empty when the connection was made
          conns       \* connections made so far

upVars == <<up, handler, read_buf, sentUp, handled>>
downVars == <<down, readBuf, sentDown, emitted, clean>>
vars == <<upVars, downVars, lost, socket, conns>>

Init ==
    /\ up = <<>> /\ down = <<>> /\ lost = FALSE
    /\ handler = "recv" /\ read_buf = <<>>
    /\ socket = "open" /\ readBuf = <<>>
    /\ sentUp = <<>> /\ sentDown = <<>> /\ handled = <<>> /\ emitted = <<>>
    /\ clean = TRUE /\ conns = 1
------------------------------------------------------------------------------
\* encodeSubscribe, encodeDataFrame, encodeAck and encodeHeartbeat.  (For a
\* topic or group too long for its length field they throw, and nothing is sent.)
Encoded(f) ==
    CASE f.type = SUBSCRIBE -> encode_subscribe_frame(f.topic, f.rest, 0)
      [] f.type = PUBLISH   -> encode_frame(PUBLISH, 0, f.topic, f.rest)
      [] OTHER              -> encode_ack_frame(f.type, f.msg_id)

\* TcpClient.send, connected.
GatewaySends(f) ==
    /\ socket = "open" /\ ~lost
    /\ Len(sentUp) + Len(sentDown) < MaxFrames
    /\ up' = up \o Encoded(f)
    /\ sentUp' = Append(sentUp, f)
    /\ UNCHANGED <<handler, read_buf, handled, downVars, lost, socket, conns>>

\* recv returns the next n bytes.
Recv(n) ==
    /\ handler = "recv"
    /\ read_buf' = read_buf \o SubSeq(up, 1, n)
    /\ up' = SubSeq(up, n + 1, Len(up))
    /\ handler' = "parse"
    /\ UNCHANGED <<sentUp, handled, downVars, lost, socket, conns>>

\* A whole frame is in the buffer, if what is there is a frame.
Complete(buf) ==
    /\ Len(buf) >= HEADER_SIZE
    /\ decode_header(buf).valid => Len(buf) >= HEADER_SIZE + decode_header(buf).payload_len

\* on_frame: what it makes of a payload.
OnFrame(h, payload) ==
    LET p == CASE h.type = SUBSCRIBE -> decode_subscribe(payload)
               [] h.type = PUBLISH   -> decode_publish(payload)
               [] OTHER              -> [topic |-> <<>>, rest |-> <<>>]
    IN  [type |-> h.type, msg_id |-> h.msg_id, topic |-> p.topic, rest |-> p.rest]

\* Mutant: only the payload's length is erased.
ConsumePayload(buf, h) == SubSeq(buf, h.payload_len + 1, Len(buf))

\* The buffer without its first frame.
Consumed(buf, h) == SubSeq(buf, HEADER_SIZE + h.payload_len + 1, Len(buf))

\* One round of the loop: a frame goes to on_frame, which answers a heartbeat.
ParseFrame ==
    LET h == decode_header(read_buf) IN
        /\ handler = "parse" /\ Complete(read_buf) /\ h.valid
        /\ handled' = Append(handled, OnFrame(h, Field(read_buf, HEADER_SIZE, h.payload_len)))
        /\ read_buf' = Consumed(read_buf, h)
        /\ LET answers == h.type = HEARTBEAT /\ ~lost IN
           /\ down' = IF answers THEN down \o encode_ack_frame(HEARTBEAT, 0) ELSE down
           /\ sentDown' = IF answers
                          THEN Append(sentDown, [type |-> HEARTBEAT, msg_id |-> 0,
                                                 topic |-> <<>>, rest |-> <<>>])
                          ELSE sentDown
        /\ UNCHANGED <<up, handler, sentUp, readBuf, emitted, clean, lost, socket, conns>>

\* The loop ends: more bytes are needed.
ParseDone ==
    /\ handler = "parse" /\ ~Complete(read_buf)
    /\ handler' = "recv"
    /\ UNCHANGED <<up, read_buf, sentUp, handled, downVars, lost, socket, conns>>

\* Bad magic, or recv finds the connection gone: the socket is closed.
HandlerCloses ==
    /\ \/ handler = "parse" /\ Complete(read_buf) /\ ~decode_header(read_buf).valid
       \/ handler = "recv" /\ lost /\ up = <<>>
    /\ handler' = "done"
    /\ up' = <<>> /\ lost' = TRUE
    /\ UNCHANGED <<read_buf, sentUp, handled, downVars, socket, conns>>
------------------------------------------------------------------------------
\* The dispatcher sends an event (send_to).
BrokerSends(e) ==
    /\ handler # "done" /\ ~lost
    /\ Len(sentUp) + Len(sentDown) < MaxFrames
    /\ down' = down \o encode_frame(EVENT_DATA, e.msg_id, e.topic, e.rest)
    /\ sentDown' = Append(sentDown, e)
    /\ UNCHANGED <<upVars, readBuf, emitted, clean, lost, socket, conns>>

\* wsServer's 'frame' handler: what it makes of a payload.
OnEvent(h, payload) ==
    LET p == IF h.type = EVENT_DATA THEN decodeEventPayload(payload)
             ELSE [topic |-> <<>>, rest |-> <<>>]
    IN  [type |-> h.type, msg_id |-> h.msg_id, topic |-> p.topic, rest |-> p.rest]

\* One round of #parseFrames on a buffer: it ends the loop, or takes a frame off.
ParseRound(buf, r) ==
    LET bytes == SubSeq(buf, r.offset + 1, Len(buf))
        h == decode_header(bytes)
        payload == Field(buf, r.offset + HEADER_SIZE, h.payload_len)
    IN  IF ~Complete(bytes) \/ ~h.valid THEN r
        ELSE [frames |-> Append(r.frames, OnEvent(h, payload)),
              offset |-> r.offset + HEADER_SIZE + h.payload_len]

\* #parseFrames: the frames it emits, where it stops, and whether it stops at
\* bad magic.  Each round that goes on takes at least a header.
ParseFrames(buf) ==
    LET rounds == Len(buf) \div HEADER_SIZE
        round[k \in 0..rounds] ==
            IF k = 0 THEN [frames |-> <<>>, offset |-> 0] ELSE ParseRound(buf, round[k - 1])
        last == round[rounds]
    IN  [frames |-> last.frames, offset |-> last.offset,
         bad |-> Complete(SubSeq(buf, last.offset + 1, Len(buf)))]

\* 'data' with the next n bytes.  At bad magic the socket is destroyed and
\* the buffer stays as it is, emitted frames included.
Data(n) ==
    LET buf == readBuf \o SubSeq(down, 1, n)
        r == ParseFrames(buf)
    IN  /\ socket = "open"
        /\ emitted' = emitted \o r.frames
        /\ readBuf' = IF r.bad THEN buf ELSE SubSeq(buf, r.offset + 1, Len(buf))
        /\ down' = IF r.bad THEN <<>> ELSE SubSeq(down, n + 1, Len(down))
        /\ lost' = (lost \/ r.bad)
        /\ UNCHANGED <<upVars, sentDown, clean, socket, conns>>

\* 'close': #onDisconnect.
GatewayCloses ==
    /\ socket = "open" /\ lost /\ down = <<>>
    /\ socket' = "closed"
    /\ UNCHANGED <<upVars, downVars, lost, conns>>

\* The connection breaks; what has not been read is gone.
Lose ==
    /\ ~lost
    /\ lost' = TRUE
    /\ up' = <<>> /\ down' = <<>>
    /\ UNCHANGED <<handler, read_buf, sentUp, handled, readBuf, sentDown, emitted, clean>>
    /\ UNCHANGED <<socket, conns>>

\* connect() after the delay, and a new handler thread in the broker.
Reconnect ==
    /\ socket = "closed" /\ handler = "done"
    /\ conns < MaxConns
    /\ conns' = conns + 1
    /\ socket' = "open" /\ lost' = FALSE
    /\ handler' = "recv" /\ read_buf' = <<>>
    /\ sentUp' = <<>> /\ sentDown' = <<>> /\ handled' = <<>> /\ emitted' = <<>>
    /\ clean' = (readBuf = <<>>)
    /\ UNCHANGED <<up, down, readBuf>>

Next ==
    \/ \E f \in UpFrames : GatewaySends(f)
    \/ \E n \in 1..Len(up) : Recv(n)
    \/ ParseFrame \/ ParseDone \/ HandlerCloses
    \/ \E e \in Events : BrokerSends(e)
    \/ \E n \in 1..Len(down) : Data(n)
    \/ GatewayCloses \/ Lose \/ Reconnect

Spec == Init /\ [][Next]_vars
------------------------------------------------------------------------------
\* s is the first part of t.
Begins(s, t) == Len(s) <= Len(t) /\ s = SubSeq(t, 1, Len(s))

\* on_frame is given the frames that the gateway sent on this connection, in
\* order, each once and with its contents, and as soon as their last byte has
\* been read: however TCP cuts the stream, and wherever earlier connections
\* broke.  handle_client never finds bad magic.
UpstreamAsSent ==
    /\ Begins(handled, sentUp)
    /\ handler = "recv" /\ up = <<>> /\ ~lost => handled = sentUp
    /\ Len(read_buf) >= HEADER_SIZE => decode_header(read_buf).valid

\* The topics of these frames fit into their length field.
Fits(frames) == \A i \in DOMAIN frames : Uint16(Len(frames[i].topic)) = Len(frames[i].topic)

\* The same for what TcpClient emits, on a connection at whose start its buffer
\* held no bytes of an earlier one, and as long as the "$DLQ." that
\* requeue_or_dlq puts in front has not made a topic too long for its length
\* field.
DownstreamAsSent ==
    clean /\ Fits(sentDown) =>
        /\ Begins(emitted, sentDown)
        /\ down = <<>> /\ ~lost => emitted = sentDown
        /\ Len(readBuf) >= HEADER_SIZE => decode_header(readBuf).valid
==============================================================================
