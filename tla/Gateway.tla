------------------------------- MODULE Gateway -------------------------------
(***************************************************************************)
(* gateway/src/wsServer.js with the sending side of tcpClient.js: which    *)
(* WebSocket clients are subscribed to what, what the broker is told, and  *)
(* which events are passed on.  Node runs one event handler at a time, so  *)
(* each handler is one step.                                               *)
(***************************************************************************)
EXTENDS Integers, Sequences, Functions

CONSTANTS Ws,                 \* WebSocket connections
          Patterns, Topics,   \* topic patterns, topics of events
          TopicMatches(_, _), \* topicMatches of protocol.js
          BrokerMatches(_, _),\* TopicRouter::matches
          StatsTopic,         \* $SYS.stats
          Groups, NoGroup,    \* group names, and the empty one
          Deduplicated,       \* topics not under $SYS., $DLQ. or chaos.
          MsgIds,             \* message ids (positive)
          RingSize,           \* 50000 in the code
          OutCapacity,        \* 10000 in the code
          MaxAccepted         \* bound: events that pass the ring

ASSUME RingSizePositive == RingSize \in Nat \ {0}
ASSUME IdsPositive == MsgIds \subseteq Nat \ {0}

VARIABLES wsState,        \* readyState: "closed" (no such client), "open", "closing"
          clientTopics,   \* #clientTopics, {} for clients that are not in the map
          topicClients,   \* #topicClients, {} for patterns that are not in the map
          recentMsgIds,   \* #recentMsgIds
          ring,           \* #recentMsgIdRing, 0 where undefined
          ringIndex,      \* #ringIndex
          ringCount,      \* #ringCount
          connected,      \* TcpClient.#connected
          outQueue,       \* TcpClient.#outQueue
          brokerSubs,     \* external: <<pattern, group>> pairs the broker has of us
          joined,         \* history: <<ws, pattern, group>> of the clients
          accepted,       \* history: the ids that passed this ring, in order
          sentTo          \* history: the memberships that the last event reached

indexVars == <<wsState, clientTopics, topicClients>>
ringVars == <<recentMsgIds, ring, ringIndex, ringCount>>
tcpVars == <<connected, outQueue, brokerSubs>>
history == <<joined, accepted, sentTo>>
vars == <<indexVars, ringVars, tcpVars, history>>

Slots == 0..(RingSize - 1)

\* Frames to the broker: a SUBSCRIBE, or one that it forgets at once.
SubscribeFrames == Patterns \X (Groups \cup {NoGroup})
Other == <<"PUBLISH, ACK or NACK">>
Frames == SubscribeFrames \cup {Other}

Init ==
    /\ wsState = [w \in Ws |-> "closed"]
    /\ clientTopics = [w \in Ws |-> {}]
    /\ topicClients = [p \in Patterns |-> {}]
    /\ recentMsgIds = {}
    /\ ring = [j \in Slots |-> 0]
    /\ ringIndex = 0 /\ ringCount = 0
    /\ connected = FALSE /\ outQueue = <<>> /\ brokerSubs = {}
    /\ joined = {} /\ accepted = <<>> /\ sentTo = {}
------------------------------------------------------------------------------
\* TcpClient.send: to the broker, or into the queue while there is none; a
\* full queue drops the frame.
Send(f) ==
    /\ brokerSubs' = IF connected /\ f # Other THEN brokerSubs \cup {f} ELSE brokerSubs
    /\ outQueue' = IF ~connected /\ Len(outQueue) < OutCapacity
                   THEN Append(outQueue, f) ELSE outQueue
    /\ UNCHANGED connected

\* wsServer's 'connect' handler: the topics in use, each without a group.
Resubscribed == {<<p, NoGroup>> : p \in {p \in Patterns : topicClients[p] # {}}}

\* Mutant: on connecting, only the queued frames are sent.
ConnectFlushOnly ==
    /\ ~connected
    /\ connected' = TRUE
    /\ brokerSubs' = Range(outQueue) \ {Other}
    /\ outQueue' = <<>>
    /\ UNCHANGED <<indexVars, ringVars, history>>

\* 'connect': the topics in use are subscribed again, then the queued frames
\* are sent.
TcpConnect ==
    /\ ~connected
    /\ connected' = TRUE
    /\ brokerSubs' = Resubscribed \cup (Range(outQueue) \ {Other})
    /\ outQueue' = <<>>
    /\ UNCHANGED <<indexVars, ringVars, history>>

\* #onDisconnect; the broker drops the subscriptions of a lost connection.
TcpClose ==
    /\ connected
    /\ connected' = FALSE
    /\ brokerSubs' = {}
    /\ UNCHANGED <<outQueue, indexVars, ringVars, history>>
------------------------------------------------------------------------------
\* 'connection'.
Connection(w) ==
    /\ wsState[w] = "closed"
    /\ wsState' = [wsState EXCEPT ![w] = "open"]
    /\ UNCHANGED <<clientTopics, topicClients, ringVars, tcpVars, history>>

\* #subscribe, with a topic and a group that fit their length fields.
Subscribe(w, p, g) ==
    /\ wsState[w] = "open"
    /\ clientTopics' = [clientTopics EXCEPT ![w] = @ \cup {p}]
    /\ topicClients' = [topicClients EXCEPT ![p] = @ \cup {w}]
    /\ Send(<<p, g>>)
    /\ joined' = joined \cup {<<w, p, g>>}
    /\ UNCHANGED <<wsState, ringVars, accepted, sentTo>>

\* #handleMessage for 'publish', 'ack' and 'nack'.
Forward(w) ==
    /\ wsState[w] = "open"
    /\ Send(Other)
    /\ UNCHANGED <<indexVars, ringVars, history>>

\* #handleMessage throws: on a topic or a group that is too long to encode (for
\* #subscribe that is after its changes to the maps), or on an id that is no
\* number.  Nobody catches it, so the process ends and all it knew is gone;
\* docker-compose starts the next one.
HandlerThrows(w) ==
    /\ wsState[w] = "open"
    /\ wsState' = [v \in Ws |-> "closed"]
    /\ clientTopics' = [v \in Ws |-> {}]
    /\ topicClients' = [p \in Patterns |-> {}]
    /\ recentMsgIds' = {}
    /\ ring' = [j \in Slots |-> 0]
    /\ ringIndex' = 0 /\ ringCount' = 0
    /\ connected' = FALSE /\ outQueue' = <<>> /\ brokerSubs' = {}
    /\ joined' = {} /\ accepted' = <<>> /\ sentTo' = {}

\* The peer starts to close: readyState is no longer OPEN.
Closing(w) ==
    /\ wsState[w] = "open"
    /\ wsState' = [wsState EXCEPT ![w] = "closing"]
    /\ UNCHANGED <<clientTopics, topicClients, ringVars, tcpVars, history>>

\* Mutant: the reverse map keeps the client.
CleanupForwardOnly(w) ==
    /\ wsState[w] = "closing"
    /\ wsState' = [wsState EXCEPT ![w] = "closed"]
    /\ clientTopics' = [clientTopics EXCEPT ![w] = {}]
    /\ joined' = {j \in joined : j[1] # w}
    /\ UNCHANGED <<topicClients, ringVars, tcpVars, accepted, sentTo>>

\* 'close': #cleanupClient.  The broker is told nothing.
Cleanup(w) ==
    /\ wsState[w] = "closing"
    /\ wsState' = [wsState EXCEPT ![w] = "closed"]
    /\ topicClients' = [p \in Patterns |->
            IF p \in clientTopics[w] THEN topicClients[p] \ {w} ELSE topicClients[p]]
    /\ clientTopics' = [clientTopics EXCEPT ![w] = {}]
    /\ joined' = {j \in joined : j[1] # w}
    /\ UNCHANGED <<ringVars, tcpVars, accepted, sentTo>>
------------------------------------------------------------------------------
\* Mutant: the oldest id is forgotten one event too early.
RememberShort(i) ==
    /\ IF ringCount = RingSize - 1 /\ RingSize > 1
       THEN /\ recentMsgIds' = (recentMsgIds \ {ring[(ringIndex + 1) % RingSize]}) \cup {i}
            /\ UNCHANGED ringCount
       ELSE /\ recentMsgIds' = recentMsgIds \cup {i}
            /\ ringCount' = ringCount + 1
    /\ ring' = [ring EXCEPT ![ringIndex] = i]
    /\ ringIndex' = (ringIndex + 1) % RingSize

\* Mutant: the oldest id stays in the set.
RememberForever(i) ==
    /\ recentMsgIds' = recentMsgIds \cup {i}
    /\ ringCount' = IF ringCount = RingSize THEN ringCount ELSE ringCount + 1
    /\ ring' = [ring EXCEPT ![ringIndex] = i]
    /\ ringIndex' = (ringIndex + 1) % RingSize

\* Mutant: the index does not wrap around.
RememberPastEnd(i) ==
    /\ recentMsgIds' = recentMsgIds \cup {i}
    /\ ringCount' = IF ringCount = RingSize THEN ringCount ELSE ringCount + 1
    /\ ring' = [ring EXCEPT ![ringIndex] = i]
    /\ ringIndex' = ringIndex + 1

\* The ring takes a new id and, when it is full, forgets the oldest one.
Remember(i) ==
    /\ IF ringCount = RingSize
       THEN /\ recentMsgIds' = (recentMsgIds \ {ring[ringIndex]}) \cup {i}
            /\ UNCHANGED ringCount
       ELSE /\ recentMsgIds' = recentMsgIds \cup {i}
            /\ ringCount' = ringCount + 1
    /\ ring' = [ring EXCEPT ![ringIndex] = i]
    /\ ringIndex' = (ringIndex + 1) % RingSize

\* The loop of #dispatchEvent: the event goes to every open client of every
\* matching pattern; the memberships <<ws, pattern, group>> that it reaches.
Reached(t) ==
    {j \in joined : /\ wsState[j[1]] = "open"
                    /\ TopicMatches(j[2], t)
                    /\ j[1] \in topicClients[j[2]]}

\* External: the broker sends events on what it has subscriptions for.
BrokerSends(t) == connected /\ \E s \in brokerSubs : BrokerMatches(s[1], t)

\* An EVENT_DATA frame arrives: #dispatchEvent.  A remembered id ends it.
DispatchEvent(t, i) ==
    /\ BrokerSends(t)
    /\ t \in Deduplicated
    /\ i \notin recentMsgIds
    /\ Len(accepted) < MaxAccepted
    /\ Remember(i)
    /\ accepted' = Append(accepted, i)
    /\ sentTo' = Reached(t)
    /\ UNCHANGED <<indexVars, tcpVars, joined>>

\* #dispatchEvent for the other topics: no ring.
DispatchUnchecked(t) ==
    /\ BrokerSends(t)
    /\ t \in Topics \ Deduplicated
    /\ sentTo' = Reached(t)
    /\ UNCHANGED <<indexVars, ringVars, tcpVars, joined, accepted>>

\* Every second the gateway's own figures are dispatched, with id 0.
StatsTimer ==
    /\ sentTo' = Reached(StatsTopic)
    /\ UNCHANGED <<indexVars, ringVars, tcpVars, joined, accepted>>

Next ==
    \/ TcpConnect \/ TcpClose \/ StatsTimer
    \/ \E w \in Ws : \/ Connection(w) \/ Forward(w) \/ HandlerThrows(w)
                     \/ Closing(w) \/ Cleanup(w)
                     \/ \E p \in Patterns, g \in Groups \cup {NoGroup} : Subscribe(w, p, g)
    \/ \E t \in Topics : DispatchUnchecked(t) \/ \E i \in MsgIds : DispatchEvent(t, i)

Spec == Init /\ [][Next]_vars
------------------------------------------------------------------------------
\* The gateway's maps, ring and queue keep their shape; ring indexes stay inside.
TypeOK ==
    /\ wsState \in [Ws -> {"closed", "open", "closing"}]
    /\ clientTopics \in [Ws -> SUBSET Patterns]
    /\ topicClients \in [Patterns -> SUBSET Ws]
    /\ recentMsgIds \in SUBSET MsgIds
    /\ ring \in [Slots -> MsgIds \cup {0}]
    /\ ringIndex \in Slots /\ ringCount \in 0..RingSize
    /\ connected \in BOOLEAN
    /\ outQueue \in Seq(Frames)
    /\ brokerSubs \in SUBSET SubscribeFrames

\* The two subscription maps describe the same thing, and nothing of a client
\* that has gone stays in either: the reverse index never sends to the dead.
IndexesAgree ==
    \A w \in Ws :
        /\ \A p \in Patterns : w \in topicClients[p] <=> p \in clientTopics[w]
        /\ wsState[w] = "closed" => clientTopics[w] = {}

\* The set and the ring of the idempotency check never drift apart: the set
\* holds the ids of the used slots, each of them once.
RingExact ==
    /\ ringCount < RingSize => ringIndex = ringCount
    /\ recentMsgIds = {ring[j] : j \in 0..(ringCount - 1)}
    /\ \A j, k \in 0..(ringCount - 1) : ring[j] = ring[k] => j = k

\* An id passes a second time only after RingSize others have passed since.
WindowedOnce ==
    \A m, n \in DOMAIN accepted :
        m < n /\ accepted[m] = accepted[n] => n - m > RingSize

\* While the broker is connected, it has a subscription for every pattern that
\* some client uses: reconnects, frames queued or dropped meanwhile and clients
\* that come and go do not lose one.
TopicsSubscribed ==
    connected => \A w \in Ws : \A p \in clientTopics[w] :
        \E g \in Groups \cup {NoGroup} : <<p, g>> \in brokerSubs

\* services/payment/index.js: "Competing consumer group -- only one payment
\* instance processes each order".
OneInstancePerGroup ==
    \A j, k \in sentTo : (j[2] = k[2] /\ j[3] = k[3] /\ j[3] \in Groups) => j[1] = k[1]
==============================================================================
