------------------------------ MODULE MCFraming ------------------------------
\* Instances of Framing: bytes of 8 values, a header of 5 bytes, and topics of
\* at most 7 bytes, which "$DLQ." makes longer.
EXTENDS Framing

OneByteMagic == <<7>>

Frame(type, msg_id, topic, rest) ==
    [type |-> type, msg_id |-> msg_id, topic |-> topic, rest |-> rest]

\* A body that looks like the start of a frame.
Misleading == <<7, 3>>

EachRequest == {Frame(SUBSCRIBE, 0, <<1>>, <<2>>), Frame(PUBLISH, 0, <<1>>, Misleading),
                Frame(ACK, 9, <<>>, <<>>), Frame(HEARTBEAT, 0, <<>>, <<>>)}
EventAndDeadLetter == {Frame(EVENT_DATA, 9, <<1>>, Misleading),
                       Frame(EVENT_DATA, 1, [i \in 1..9 |-> 1], <<>>)}
==============================================================================
