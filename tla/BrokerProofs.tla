---------------------------- MODULE BrokerProofs -----------------------------
(***************************************************************************)
(* Broker for every set of clients, messages and subscriptions, every retry *)
(* budget, timeout and queue capacity: the threads of main.cpp keep their  *)
(* state in shape, lose no message and, within one group, multiply none.   *)
(*                                                                         *)
(* The steps of AckEngine keep what AckEngineProofs shows of them.  New    *)
(* here are the router's lists, the handlers that push, and the logger.    *)
(***************************************************************************)
EXTENDS Broker, AckEngineProofs, FiniteSetTheorems

Slots == Router!Slots

RouterOK == members \in [Slots -> Seq(Clients)] /\ rr_idx \in [Slots -> Nat]

\* Taking a client out of a list leaves a list.
LEMMA WithoutTypes ==
    ASSUME NEW ms \in Seq(Clients), NEW c
    PROVE  /\ Router!Without(ms, c) \in Seq(Clients)
           /\ ms = <<>> => Router!Without(ms, c) = <<>>
<1>1. CASE ~\E k \in DOMAIN ms : ms[k] = c
  BY <1>1 DEF Router!Without
<1>2. CASE \E k \in DOMAIN ms : ms[k] = c
  <2> DEFINE k == CHOOSE k \in DOMAIN ms : ms[k] = c
             a == SubSeq(ms, 1, k - 1)
             b == SubSeq(ms, k + 1, Len(ms))
  <2>1. k \in 1..Len(ms) /\ Len(ms) \in Nat
    BY <1>2
  <2>2. Router!Without(ms, c) = a \o b
    BY <1>2, Zenon DEF Router!Without
  <2> HIDE DEF k
  <2>3. a \in Seq(Clients) /\ b \in Seq(Clients)
    BY <2>1
  <2> HIDE DEF a, b
  <2>4. a \o b \in Seq(Clients)
    BY <2>3
  <2>5. ms # <<>>
    BY <1>2
  <2> QED BY <2>2, <2>4, <2>5
<1> QED BY <1>1, <1>2

\* A subscription goes to a slot of its pattern.
LEMMA SubscribeKeeps ==
    ASSUME RouterOK, NEW r \in Requests, NEW c \in Clients, Router!subscribe(r[1], r[2], c)
    PROVE  RouterOK'
<1> DEFINE s == <<r[1], IF r[2] = NoGroup THEN Router!Unique(c) ELSE r[2]>>
<1>1. s \in Slots
  BY RequestsGiven DEF Slots, Router!Slots
<1>2. /\ members' = IF Router!Has(s, c) THEN members ELSE [members EXCEPT ![s] = Append(@, c)]
      /\ rr_idx' = rr_idx
  BY Zenon DEF Router!subscribe
<1> HIDE DEF s
<1>3. Append(members[s], c) \in Seq(Clients)
  BY <1>1 DEF RouterOK
<1> QED BY <1>1, <1>2, <1>3 DEF RouterOK, Slots

\* unsubscribe leaves lists, and indices.
LEMMA UnsubscribeKeeps ==
    ASSUME RouterOK, NEW c, Router!unsubscribe(c) PROVE RouterOK'
<1>1. /\ members' = [s \in Slots |-> Router!Without(members[s], c)]
      /\ rr_idx' = [s \in Slots |-> IF members'[s] = <<>> THEN 0 ELSE rr_idx[s]]
  BY DEF Router!unsubscribe, Slots
<1>2. \A s \in Slots : Router!Without(members[s], c) \in Seq(Clients)
  BY WithoutTypes DEF RouterOK
<1>3. members' \in [Slots -> Seq(Clients)]
  BY <1>1, <1>2, Zenon
<1>4. rr_idx' \in [Slots -> Nat]
  BY <1>1 DEF RouterOK
<1> QED BY <1>3, <1>4 DEF RouterOK, Slots

\* subscriptions_ has finitely many slots.
LEMMA SlotsFinite == IsFiniteSet(Slots)
<1> DEFINE names == {Router!Unique(c) : c \in Clients}  pats == {r[1] : r \in Requests}
<1>1. IsFiniteSet(names)
  <2> DEFINE name == [c \in Clients |-> Router!Unique(c)]
  <2>1. name \in Surjection(Clients, names)
    BY DEF Surjection
  <2> QED BY <2>1, BrokerFinite, FS_Surjection, Zenon
<1>2. IsFiniteSet(pats)
  <2> DEFINE pat == [r \in Requests |-> r[1]]
  <2>1. pat \in Surjection(Requests, pats)
    BY DEF Surjection
  <2> QED BY <2>1, BrokerFinite, FS_Surjection, Zenon
<1>3. IsFiniteSet(Groups \cup names)
  BY <1>1, BrokerFinite, FS_Union, Zenon
<1> QED BY <1>2, <1>3, FS_Product, Zenon DEF Slots, Router!Slots

\* The places that route picks are places of the slot's list, finitely many.
LEMMA ChosenOK ==
    ASSUME RouterOK, NEW t, NEW s \in Router!Visited(t)
    PROVE  /\ s \in Slots /\ members[s] \in Seq(Clients) /\ members[s] # <<>>
           /\ Router!Chosen(s) \subseteq DOMAIN members[s]
           /\ IsFiniteSet(Router!Chosen(s))
<1>1. s \in Slots /\ members[s] \in Seq(Clients) /\ members[s] # <<>> /\ rr_idx[s] \in Nat
  BY DEF Router!Visited, Slots, RouterOK
<1>2. Len(members[s]) \in Nat \ {0} /\ DOMAIN members[s] = 1..Len(members[s])
  BY <1>1
<1>3. rr_idx[s] % Len(members[s]) \in 0..(Len(members[s]) - 1)
  BY <1>1, <1>2
<1>4. Router!Chosen(s) \subseteq DOMAIN members[s]
  BY <1>2, <1>3 DEF Router!Chosen
<1>5. IsFiniteSet(DOMAIN members[s])
  BY <1>2, FS_Interval
<1> QED BY <1>1, <1>4, <1>5, FS_Subset, Zenon

\* So route adds finitely many targets.
LEMMA TurnsFinite == ASSUME RouterOK, NEW t PROVE IsFiniteSet(Router!Turns(t))
<1> DEFINE V == Router!Visited(t)  P == {{s} \X Router!Chosen(s) : s \in V}
           turns == [s \in V |-> {s} \X Router!Chosen(s)]
<1>1. IsFiniteSet(V)
  <2>1. V \subseteq Slots
    BY DEF Router!Visited, Slots
  <2> QED BY <2>1, SlotsFinite, FS_Subset, Zenon
<1>2. IsFiniteSet(P)
  <2>1. turns \in Surjection(V, P)
    BY Zenon DEF Surjection
  <2> QED BY <1>1, <2>1, FS_Surjection, Zenon
<1>3. ASSUME NEW s \in V PROVE IsFiniteSet({s} \X Router!Chosen(s))
  BY ChosenOK, FS_Singleton, FS_Product, Zenon
<1> QED BY <1>2, <1>3, FS_UNION, Zenon DEF Router!Turns

\* The router's Cardinality is the one the library's theorems are about.
LEMMA SameCardinality == ASSUME NEW S PROVE Router!Cardinality(S) = Cardinality(S)
  BY DEF Router!Cardinality, Cardinality

\* What route returns is a list of clients: at most as many as there are turns.
LEMMA RouteTypes ==
    ASSUME RouterOK, NEW t, NEW ts \in Router!RouteResults(t)
    PROVE  /\ ts \in Seq(Clients)
           /\ Len(ts) = Cardinality(Router!Turns(t)) /\ Len(ts) \in Nat
<1> DEFINE T == Router!Turns(t)  n == Cardinality(T)
<1>1. PICK o \in Router!Bijection(1..Router!Cardinality(T), T) :
        ts = [k \in DOMAIN o |-> members[o[k][1]][o[k][2]]]
  BY Zenon DEF Router!RouteResults
<1>2. o \in [1..n -> T]
  BY SameCardinality, Zenon DEF Router!Bijection, Router!Injection
<1>3. n \in Nat
  BY TurnsFinite, FS_CardinalityType, Zenon
<1>4. ASSUME NEW x \in T PROVE members[x[1]][x[2]] \in Clients
  <2>1. PICK s \in Router!Visited(t) : x \in {s} \X Router!Chosen(s)
    BY Zenon DEF Router!Turns
  <2>2. x[1] = s /\ x[2] \in Router!Chosen(s)
    BY <2>1
  <2>3. members[s] \in Seq(Clients) /\ x[2] \in DOMAIN members[s]
    BY <2>2, ChosenOK
  <2> QED BY <2>2, <2>3
<1>5. \A k \in 1..n : o[k] \in T /\ DOMAIN o = 1..n
  BY <1>2
<1> HIDE DEF T, n
<1>6. ts = [k \in 1..n |-> members[o[k][1]][o[k][2]]]
  BY <1>1, <1>2
<1>7. \A k \in 1..n : members[o[k][1]][o[k][2]] \in Clients
  BY <1>4, <1>5, Zenon
<1>8. ts \in Seq(Clients) /\ Len(ts) = n
  BY <1>3, <1>6, <1>7
<1> QED BY <1>3, <1>8 DEF n, T

\* route moves indices only.
LEMMA RouteKeeps ==
    ASSUME RouterOK, NEW t, NEW ts, Router!route(t, ts) PROVE RouterOK'
  BY DEF Router!route, Router!Advance, RouterOK, Slots

------------------------------------------------------------------------------
\* The calls of AckEngine that handlers and the scanner make; with track, the
\* engine's own steps.
CallStep == (\E c \in Clients : HandlerStep(c)) \/ ScannerStep
EngineStep == CallStep \/ Track

\* What the handlers and the logger have in hand.
handVars == <<pushing, logger, next_id, audits>>

\* What a step of the broker is to the AckEngine and to the messages that threads have
\* in hand: nothing, a call of the engine, a pop, a route, a delivery, or a message
\* that changes hands.  Only deliveries count as attempts.
LEMMA StepCases ==
    ASSUME BrokerTypeOK, [BrokerNext]_allVars
    PROVE  \/ UNCHANGED <<vars, handVars, attempts>>
           \/ CallStep /\ UNCHANGED <<handVars, attempts>>
           \/ Pop /\ UNCHANGED <<handVars, attempts>>
           \/ (\E ts \in Seq(Clients) : Route(ts)) /\ UNCHANGED <<handVars, attempts>>
           \/ TrackAndSend
           \/ \E c \in Clients : OnPublish(c) \/ PublishPush(c)
           \/ LoggerPop \/ LoggerRepublish \/ LoggerAudit
<1> DEFINE same == UNCHANGED <<handVars, attempts>>
<1>1. CASE UNCHANGED allVars
  BY <1>1, Zenon DEF allVars, brokerVars, handVars
<1>2. ASSUME NEW c \in Clients, Accept(c) \/ OnSubscribe(c) \/ OnDisconnect(c)
      PROVE  UNCHANGED <<vars, handVars, attempts>>
  BY <1>2, Zenon DEF Accept, OnSubscribe, OnDisconnect, handVars
<1>3. ASSUME NEW t, Signal \/ EndThread(t) PROVE UNCHANGED <<vars, handVars, attempts>>
  BY <1>3, Zenon DEF Signal, EndThread, handVars
<1>4. ASSUME NEW c \in Clients, OnAck(c) \/ OnNack(c) PROVE HandlerStep(c) /\ same
  BY <1>4, Zenon DEF OnAck, OnNack, HandlerStep, brokerVars, handVars
<1>5. ASSUME NEW c \in Clients, FinishNack(c) \/ Disconnected(c) \/ FailOutstanding(c)
      PROVE  HandlerStep(c) /\ same
  BY <1>5, Zenon
  DEF FinishNack, Disconnected, FailOutstanding, HandlerStep, brokerVars, handVars
<1>6. ASSUME NEW c \in Clients, HandlerExit(c) PROVE HandlerStep(c) /\ same
  BY <1>6, Zenon DEF HandlerExit, HandlerStep, handVars
<1>7. CASE RouteMessage
  <2>1. PICK ts \in Router!RouteResults(Topic(popped)) : Route(ts)
    BY <1>7, Zenon DEF RouteMessage
  <2>2. ts \in Seq(Clients)
    BY RouteTypes, Zenon DEF BrokerTypeOK, RouterOK, Slots
  <2> QED BY <1>7, <2>1, <2>2, Zenon DEF RouteMessage, handVars
<1>8. CASE PopMessage \/ Scan
  BY <1>8, Zenon DEF PopMessage, Scan, CallStep, brokerVars, handVars
<1> QED
  BY <1>1, <1>2, <1>3, <1>4, <1>5, <1>6, <1>7, <1>8, Zenon
  DEF BrokerNext, Handler, CallStep

\* The same, when attempts do not matter.
LEMMA StepKinds ==
    ASSUME BrokerTypeOK, [BrokerNext]_allVars
    PROVE  \/ UNCHANGED <<vars, handVars>>
           \/ EngineStep /\ UNCHANGED handVars
           \/ Pop /\ UNCHANGED handVars
           \/ (\E ts \in Seq(Clients) : Route(ts)) /\ UNCHANGED handVars
           \/ \E c \in Clients : OnPublish(c) \/ PublishPush(c)
           \/ LoggerPop \/ LoggerRepublish \/ LoggerAudit
<1>1. TrackAndSend => Track /\ UNCHANGED handVars
  BY Zenon DEF TrackAndSend, handVars
<1> QED BY <1>1, StepCases, Zenon DEF EngineStep

\* A call of the engine is a step of AckEngine.
LEMMA EngineIsNext == ASSUME EngineStep PROVE Next
  BY Zenon DEF EngineStep, CallStep, Next, DispatcherStep

\* A message in the hands of a handler or of the logger is a message.
LEMMA HandTypes ==
    ASSUME BrokerTypeOK
    PROVE  /\ \A c \in Clients : pushing[c] # NoMessage => pushing[c] \in Message
           /\ logger # NoMessage => logger \in Message
           /\ next_id \in MsgIds => Fresh(next_id) \in Message
  BY DEF BrokerTypeOK, Fresh, Message

\* AckEngine's types hold whatever the threads of main.cpp do.
LEMMA EngineTypes ==
    ASSUME BrokerTypeOK, LockOwned, [BrokerNext]_allVars PROVE TypeOK'
<1>t. TypeOK
  BY DEF BrokerTypeOK
<1>1. CASE UNCHANGED vars
  BY <1>1, <1>t, TypeStep
<1>2. CASE EngineStep
  BY <1>2, <1>t, EngineIsNext, TypeStep
<1>p. CASE Pop
  BY <1>p, <1>t, PopTypes, Zenon
<1>3. ASSUME NEW ts \in Seq(Clients), Route(ts) PROVE TypeOK'
  BY <1>3, <1>t, TargetTypes, Zenon
<1>4. ASSUME NEW c \in Clients, OnPublish(c) PROVE TypeOK'
  BY <1>4, <1>t DEF OnPublish, engineVars, queueVars, TypeOK
<1>5. ASSUME NEW m \in Message, main_queue' = Append(main_queue, m),
             UNCHANGED <<engineVars, dlq, popped, targets, history>>
      PROVE  TypeOK'
  <2>1. main_queue' \in Seq(Message)
    BY <1>5, <1>t DEF TypeOK
  <2> QED BY <1>5, <1>t, <2>1 DEF engineVars, history, TypeOK
<1>6. ASSUME NEW c \in Clients, PublishPush(c) PROVE TypeOK'
  <2>1. pushing[c] \in Message
    BY <1>6, HandTypes DEF PublishPush
  <2> QED BY <1>5, <1>6, <2>1, Zenon DEF PublishPush
<1>7. CASE LoggerRepublish \/ LoggerAudit
  <2>1. logger \in Message
    BY <1>7, HandTypes DEF LoggerRepublish, LoggerAudit
  <2> QED BY <1>5, <1>7, <2>1, Zenon DEF LoggerRepublish, LoggerAudit
<1>8. CASE LoggerPop
  <2>1. dlq' \in Seq(Message)
    BY <1>8, <1>t DEF LoggerPop, TypeOK
  <2> QED BY <1>8, <1>t, <2>1 DEF LoggerPop, engineVars, history, TypeOK
<1> QED BY <1>1, <1>2, <1>p, <1>3, <1>4, <1>6, <1>7, <1>8, StepKinds, Zenon

\* mu_ keeps apart the threads of main.cpp too, and deliveries stay filed under
\* their own ids.
LEMMA EngineLock ==
    ASSUME BrokerTypeOK, LockOwned, KeyMatches, [BrokerNext]_allVars
    PROVE  LockOwned' /\ KeyMatches'
<1>t. TypeOK
  BY DEF BrokerTypeOK
<1>1. CASE EngineStep \/ UNCHANGED vars
  BY <1>1, <1>t, EngineIsNext, LockStep, KeyStep
<1>2. CASE UNCHANGED engineVars
  BY <1>2 DEF engineVars, LockOwned, KeyMatches, Tracked
<1> QED
  BY <1>1, <1>2, StepKinds, Zenon
  DEF Pop, Route, OnPublish, PublishPush, LoggerPop, LoggerRepublish, LoggerAudit

\* The rest of the broker's state.
HandsOK ==
    /\ conn \in [Clients -> {"down", "up", "closing"}]
    /\ pushing \in [Clients -> Message \cup {NoMessage}]
    /\ attempts \in [MsgIds -> Nat] /\ next_id \in Nat /\ audits \in SUBSET MsgIds
    /\ logger \in Message \cup {NoMessage}
    /\ g_running \in BOOLEAN /\ ended \in SUBSET Threads
    /\ \A c \in Clients : c \in leaving => conn[c] = "closing"

\* BrokerTypeOK falls into the engine's, the router's and the threads' part.
LEMMA TypesSplit == BrokerTypeOK <=> TypeOK /\ RouterOK /\ HandsOK
  BY Zenon DEF BrokerTypeOK, RouterOK, HandsOK, Slots

\* Every step of the broker keeps subscriptions_ well formed.
LEMMA RouterTypes == ASSUME RouterOK, [BrokerNext]_allVars PROVE RouterOK'
<1>1. CASE UNCHANGED <<members, rr_idx>>
  BY <1>1 DEF RouterOK, Slots, Router!Slots
<1>2. ASSUME NEW c \in Clients, OnSubscribe(c) PROVE RouterOK'
  BY <1>2, SubscribeKeeps, Zenon DEF OnSubscribe
<1>3. ASSUME NEW c \in Clients, OnDisconnect(c) PROVE RouterOK'
  BY <1>3, UnsubscribeKeeps, Zenon DEF OnDisconnect
<1>4. CASE RouteMessage
  BY <1>4, RouteKeeps, Zenon DEF RouteMessage
<1> QED
  BY <1>1, <1>2, <1>3, <1>4, Zenon
  DEF BrokerNext, Handler, Accept, OnPublish, PublishPush, OnAck, OnNack, FinishNack,
      Disconnected, FailOutstanding, HandlerExit, PopMessage, TrackAndSend,
      LoggerPop, LoggerRepublish, LoggerAudit, Scan, Signal, EndThread, brokerVars, allVars

\* Each step by what it changes of HandsOK.
LEMMA HandsStep ==
    ASSUME TypeOK, HandsOK, BrokerTypeOK, [BrokerNext]_allVars PROVE HandsOK'
<1> DEFINE same == UNCHANGED <<pushing, attempts, next_id, audits, logger, g_running, ended>>
<1>1. CASE UNCHANGED <<brokerVars, leaving>>
  BY <1>1 DEF HandsOK, brokerVars, shutdownVars
<1>2. ASSUME NEW c \in Clients, Accept(c) PROVE HandsOK'
  <2>1. same /\ leaving' = leaving
    BY <1>2, Zenon DEF Accept, vars, engineVars, shutdownVars
  <2>2. conn[c] = "down" /\ conn' = [conn EXCEPT ![c] = "up"]
    BY <1>2, Zenon DEF Accept
  <2> QED BY <2>1, <2>2 DEF HandsOK
<1>3. ASSUME NEW c \in Clients, OnSubscribe(c) PROVE HandsOK'
  BY <1>3, Zenon DEF OnSubscribe, HandsOK, vars, engineVars, shutdownVars
<1>4. ASSUME NEW c \in Clients, OnPublish(c) PROVE HandsOK'
  <2>1. pushing' \in [Clients -> Message \cup {NoMessage}] /\ next_id' \in Nat
    BY <1>4, HandTypes DEF OnPublish, HandsOK
  <2> QED BY <1>4, <2>1, Zenon DEF OnPublish, HandsOK, engineVars, shutdownVars
<1>5. ASSUME NEW c \in Clients, PublishPush(c) PROVE HandsOK'
  <2>1. pushing' \in [Clients -> Message \cup {NoMessage}]
    BY <1>5 DEF PublishPush, HandsOK
  <2> QED BY <1>5, <2>1, Zenon DEF PublishPush, HandsOK, engineVars, shutdownVars
<1>6. ASSUME NEW c \in Clients, OnAck(c) \/ OnNack(c) \/ FinishNack(c) PROVE HandsOK'
  BY <1>1, <1>6, Zenon DEF OnAck, OnNack, FinishNack, Ack, NackLock, NackPush
<1>7. ASSUME NEW c \in Clients, OnDisconnect(c) PROVE HandsOK'
  <2>1. conn' = [conn EXCEPT ![c] = "closing"]
    BY <1>7, Zenon DEF OnDisconnect
  <2>2. /\ conn' \in [Clients -> {"down", "up", "closing"}]
        /\ \A d \in Clients : d \in leaving => conn'[d] = "closing"
    BY <2>1 DEF HandsOK
  <2> QED BY <1>7, <2>2, Zenon DEF OnDisconnect, HandsOK, vars, engineVars, shutdownVars
<1>8. ASSUME NEW c \in Clients, Disconnected(c) PROVE HandsOK'
  <2>1. conn[c] = "closing" /\ leaving' = leaving \cup {c}
    BY <1>8, Zenon DEF Disconnected, GoneLock
  <2> QED BY <1>8, <2>1, Zenon DEF Disconnected, HandsOK, brokerVars, shutdownVars
<1>9. ASSUME NEW c \in Clients, FailOutstanding(c) PROVE HandsOK'
  BY <1>1, <1>9, Zenon DEF FailOutstanding, GoneStep
<1>10. ASSUME NEW c \in Clients, HandlerExit(c) PROVE HandsOK'
  <2>1. leaving' = leaving \ {c} /\ conn' = [conn EXCEPT ![c] = "down"] /\ same
    BY <1>10, Zenon DEF HandlerExit, GoneEnd, shutdownVars
  <2> QED BY <2>1 DEF HandsOK
<1>11. CASE PopMessage \/ RouteMessage
  BY <1>11, Zenon
  DEF PopMessage, RouteMessage, Pop, Route, HandsOK, brokerVars, engineVars, shutdownVars
<1>12. CASE TrackAndSend
  <2>2. attempts' \in [MsgIds -> Nat]
    BY <1>12 DEF TrackAndSend, HandsOK
  <2>3. leaving' = leaving
    BY <1>12, Zenon DEF TrackAndSend, Track
  <2> QED BY <1>12, <2>2, <2>3, Zenon DEF TrackAndSend, HandsOK, shutdownVars
<1>13. CASE LoggerPop
  <2>1. logger' \in Message
    BY <1>13 DEF LoggerPop, TypeOK
  <2> QED BY <1>13, <2>1, Zenon DEF LoggerPop, HandsOK, engineVars, shutdownVars
<1>14. CASE LoggerRepublish
  <2>1. logger' \in Message /\ next_id' \in Nat /\ audits' \in SUBSET MsgIds
    BY <1>14, HandTypes DEF LoggerRepublish, HandsOK
  <2> QED BY <1>14, <2>1, Zenon DEF LoggerRepublish, HandsOK, engineVars, shutdownVars
<1>15. CASE LoggerAudit
  BY <1>15, Zenon DEF LoggerAudit, HandsOK, engineVars, shutdownVars
<1>16. CASE Scan
  BY <1>1, <1>16, Zenon DEF Scan, ScannerStep, ScanStamp, ScanLock, ScanPop, ScanEnd
<1>17. ASSUME NEW t \in Threads, Signal \/ EndThread(t) PROVE HandsOK'
  <2>1. g_running' \in BOOLEAN /\ ended' \in SUBSET Threads
    BY <1>17, Zenon DEF Signal, EndThread, HandsOK
  <2> QED BY <1>17, <2>1, Zenon DEF Signal, EndThread, HandsOK, vars, engineVars
<1>18. CASE UNCHANGED allVars
  BY <1>1, <1>18, Zenon DEF allVars, vars, engineVars
<1>19. CASE Signal
  BY <1>17, <1>19 DEF Threads
<1> QED
  BY <1>2, <1>3, <1>4, <1>5, <1>6, <1>7, <1>8, <1>9, <1>10, <1>11, <1>12, <1>13, <1>14,
     <1>15, <1>16, <1>17, <1>18, <1>19, Zenon
  DEF BrokerNext, Handler

------------------------------------------------------------------------------
\* A handler or the logger has message i in hand.
InHand(i) == (\E c \in Clients : pushing[c].msg_id = i) \/ logger.msg_id = i

\* A message has a copy somewhere if the engine holds it or a thread has it in hand.
LEMMA CopiesHeld ==
    TypeOK => \A i : CopiesOf(i) # {} <=> Held(i) \/ InHand(i)
<1> SUFFICES ASSUME TypeOK, NEW i PROVE CopiesOf(i) # {} <=> Held(i) \/ InHand(i)
  OBVIOUS
<1>1. /\ Range(main_queue) = {main_queue[n] : n \in DOMAIN main_queue}
      /\ Range(dlq) = {dlq[n] : n \in DOMAIN dlq}
  BY Zenon DEF Range
<1>2. Held(i) \/ InHand(i) <=>
        \/ \E n \in DOMAIN main_queue : main_queue[n].msg_id = i
        \/ \E n \in DOMAIN dlq : dlq[n].msg_id = i
        \/ \E c \in Clients : Tracked(<<i, c>>)
        \/ \E c \in Clients : pushing[c].msg_id = i
        \/ popped.msg_id = i \/ logger.msg_id = i
  BY <1>1, Zenon DEF Held, InHand
<1>3. CopiesOf(i) # {} <=>
        \/ \E n \in DOMAIN main_queue : main_queue[n].msg_id = i
        \/ \E n \in DOMAIN dlq : dlq[n].msg_id = i
        \/ \E c \in Clients : Tracked(<<i, c>>)
        \/ \E c \in Clients : pushing[c].msg_id = i
        \/ popped.msg_id = i \/ logger.msg_id = i
  BY Zenon DEF CopiesOf
<1> QED BY <1>2, <1>3, Zenon

\* AckEngine's own steps publish nothing and take nothing back.
LEMMA EngineHistory ==
    ASSUME EngineStep PROVE published' = published /\ settled \subseteq settled'
  BY Zenon
  DEF EngineStep, CallStep, HandlerStep, ScannerStep, Ack, NackLock, NackPush, GoneLock, GoneStep,
      GoneEnd, ScanStamp, ScanLock, ScanPop, ScanEnd, Track, queueVars, history

\* No thread drops the last copy of an unsettled message.
LEMMA NoneLostStep ==
    ASSUME BrokerTypeOK, LockOwned, KeyMatches, NoneLost, [BrokerNext]_allVars
    PROVE  NoneLost'
<1>t. TypeOK /\ TypeOK'
  BY EngineTypes DEF BrokerTypeOK
<1>n. \A i \in published : Held(i) \/ InHand(i) \/ i \in settled
  BY <1>t, CopiesHeld, Zenon DEF NoneLost
<1> SUFFICES ASSUME NEW i \in published', i \notin settled'
             PROVE  Held(i)' \/ InHand(i)'
  <2>1. (\A i : CopiesOf(i) # {} <=> Held(i) \/ InHand(i))'
    BY <1>t, CopiesHeld, PTL
  <2> QED BY <2>1, Zenon DEF NoneLost
<1>i. i \in MsgIds
  BY <1>t DEF TypeOK
<1>1. ASSUME UNCHANGED <<vars, handVars>> PROVE Held(i)' \/ InHand(i)'
  BY <1>1, <1>n, Zenon DEF vars, engineVars, queueVars, history, handVars, Held, InHand, Tracked
<1>2. ASSUME EngineStep, UNCHANGED handVars PROVE Held(i)' \/ InHand(i)'
  <2>1. i \in published /\ i \notin settled
    BY <1>2, EngineHistory
  <2>2. CASE Held(i)
    BY <1>2, <1>i, <1>t, <2>2, EngineIsNext, HeldStep
  <2>3. CASE InHand(i)
    BY <1>2, <2>3, Zenon DEF InHand, handVars
  <2> QED BY <1>n, <2>1, <2>2, <2>3
<1>p. ASSUME Pop, UNCHANGED handVars PROVE Held(i)' \/ InHand(i)'
  <2>1. i \in published /\ i \notin settled
    BY <1>p, Zenon DEF Pop, history
  <2>2. CASE Held(i)
    BY <1>p, <1>i, <1>t, <2>2, PopHolds
  <2>3. CASE InHand(i)
    BY <1>p, <2>3, Zenon DEF InHand, handVars
  <2> QED BY <1>n, <2>1, <2>2, <2>3
<1>3. ASSUME NEW ts, Route(ts), UNCHANGED handVars PROVE Held(i)' \/ InHand(i)'
  <2>1. i \in published /\ i \notin settled
    BY <1>3 DEF Route
  <2>2. CASE Held(i)
    BY <1>3, <1>i, <2>2, RouteHolds
  <2>3. CASE InHand(i)
    BY <1>3, <2>3, Zenon DEF InHand, handVars
  <2> QED BY <1>n, <2>1, <2>2, <2>3
\* A queue that grows by m keeps what it has.
<1>4. ASSUME NEW m \in Message, main_queue' = Append(main_queue, m),
             UNCHANGED <<engineVars, dlq, popped>>
      PROVE  (Held(i) \/ i = m.msg_id) => Held(i)'
  <2>1. Range(main_queue') = Range(main_queue) \cup {m}
    BY <1>4, <1>t, RangeAppend DEF TypeOK
  <2> QED BY <1>4, <2>1, Zenon DEF Held, Tracked, engineVars
<1>5. ASSUME NEW c \in Clients, OnPublish(c) PROVE Held(i)' \/ InHand(i)'
  <2>1. /\ pushing[c] = NoMessage /\ pushing' = [pushing EXCEPT ![c] = Fresh(next_id)]
        /\ logger' = logger /\ pushing \in [Clients -> Message \cup {NoMessage}]
    BY <1>5, Zenon DEF OnPublish, Reading, BrokerTypeOK
  <2>2. pushing'[c].msg_id = next_id /\ \A d \in Clients : d # c => pushing'[d] = pushing[d]
    BY <2>1 DEF Fresh
  <2>3. CASE i = next_id
    BY <2>2, <2>3, Zenon DEF InHand
  <2>4. CASE i # next_id
    <3>1. i \in published /\ i \notin settled
      BY <1>5, <2>4 DEF OnPublish
    <3>2. pushing[c].msg_id # i
      BY <1>i, <2>1, IdsPositive DEF NoMessage
    <3>3. InHand(i) => InHand(i)'
      BY <2>1, <2>2, <3>2, Zenon DEF InHand
    <3>4. Held(i) => Held(i)'
      BY <1>5, Zenon DEF OnPublish, Held, Tracked, engineVars, queueVars
    <3> QED BY <1>n, <3>1, <3>3, <3>4
  <2> QED BY <2>3, <2>4
<1>6. ASSUME NEW c \in Clients, PublishPush(c) PROVE Held(i)' \/ InHand(i)'
  <2>1. pushing[c] \in Message /\ pushing \in [Clients -> Message \cup {NoMessage}]
    BY <1>6, HandTypes DEF PublishPush, BrokerTypeOK
  <2>2. (Held(i) \/ i = pushing[c].msg_id) => Held(i)'
    BY <1>4, <1>6, <2>1, Zenon DEF PublishPush
  <2>3. logger' = logger /\ \A d \in Clients : d # c => pushing'[d] = pushing[d]
    BY <1>6, <2>1 DEF PublishPush
  <2>4. InHand(i) /\ i # pushing[c].msg_id => InHand(i)'
    BY <2>3, Zenon DEF InHand
  <2>5. i \in published /\ i \notin settled
    BY <1>6, Zenon DEF PublishPush, history
  <2> QED BY <1>n, <2>2, <2>4, <2>5, Zenon
<1>7. CASE LoggerRepublish \/ LoggerAudit
  <2>1. logger \in Message
    BY <1>7, HandTypes DEF LoggerRepublish, LoggerAudit
  <2>2. (Held(i) \/ i = logger.msg_id) => Held(i)'
    BY <1>4, <1>7, <2>1, Zenon DEF LoggerRepublish, LoggerAudit
  <2>3. InHand(i) /\ i # logger.msg_id => InHand(i)'
    BY <1>7, Zenon DEF InHand, LoggerRepublish, LoggerAudit
  <2>4. i \in published /\ i \notin settled
    BY <1>7, Zenon DEF LoggerRepublish, LoggerAudit, history
  <2> QED BY <1>n, <2>2, <2>3, <2>4, Zenon
<1>8. CASE LoggerPop
  <2>1. Range(dlq) = {Head(dlq)} \cup Range(Tail(dlq))
    BY <1>8, <1>t, RangeHeadTail DEF LoggerPop, TypeOK
  <2>2. logger.msg_id # i
    BY <1>8, <1>i, IdsPositive DEF LoggerPop, NoMessage
  <2>3. InHand(i) => InHand(i)'
    BY <1>8, <2>2, Zenon DEF InHand, LoggerPop
  <2>4. Held(i) => Held(i)' \/ logger'.msg_id = i
    BY <1>8, <2>1, Zenon DEF LoggerPop, Held, Tracked, engineVars
  <2>5. i \in published /\ i \notin settled
    BY <1>8, Zenon DEF LoggerPop, history
  <2> QED BY <1>n, <2>3, <2>4, <2>5, Zenon DEF InHand
<1> QED BY <1>1, <1>2, <1>p, <1>3, <1>5, <1>6, <1>7, <1>8, StepKinds, Zenon

\* What the threads of main.cpp keep between them.
BrokerInv == BrokerTypeOK /\ LockOwned /\ KeyMatches /\ NoneLost

\* BrokerInv holds at start and every thread's step keeps it.
LEMMA BrokerInductive ==
    /\ BrokerInit => BrokerInv
    /\ BrokerInv /\ [BrokerNext]_allVars => BrokerInv'
<1>1. ASSUME BrokerInit PROVE BrokerInv
  <2>1. TypeOK /\ LockOwned
    BY <1>1, InitTypeLock DEF BrokerInit
  <2>2. KeyMatches /\ NoneLost
    BY <1>1, Zenon DEF BrokerInit, Init, KeyMatches, Tracked, NoneLost
  <2>3. RouterOK
    BY <1>1 DEF BrokerInit, Router!RouterInit, RouterOK, Slots
  <2>4. HandsOK
    BY <1>1 DEF BrokerInit, Init, HandsOK
  <2> QED BY <2>1, <2>2, <2>3, <2>4, TypesSplit DEF BrokerInv
<1>2. ASSUME BrokerInv, [BrokerNext]_allVars PROVE BrokerInv'
  <2>1. BrokerTypeOK /\ LockOwned /\ KeyMatches /\ NoneLost
    BY <1>2, Zenon DEF BrokerInv
  <2>2. TypeOK' /\ LockOwned' /\ KeyMatches' /\ NoneLost'
    BY <1>2, <2>1, EngineTypes, EngineLock, NoneLostStep, Zenon
  <2>3. TypeOK /\ RouterOK /\ HandsOK
    BY <2>1, TypesSplit, Zenon
  <2>4. RouterOK' /\ HandsOK'
    BY <1>2, <2>1, <2>3, RouterTypes, HandsStep, Zenon
  <2>5. BrokerTypeOK'
    BY <2>2, <2>4, TypesSplit, PTL
  <2> QED BY <2>2, <2>5, Zenon DEF BrokerInv
<1> QED BY <1>1, <1>2

\* The state of the broker's threads keeps its shape, and client_disconnected
\* runs only for clients whose connection is closed.
THEOREM BrokerTypes == BrokerSpec => []BrokerTypeOK
<1>1. BrokerInv => BrokerTypeOK
  BY DEF BrokerInv
<1> QED BY <1>1, BrokerInductive, PTL DEF BrokerSpec

\* At-least-once across the threads: from its PUBLISH frame on, a message is in
\* some queue, in flight or in the hands of a thread, until it is acked or finds
\* no subscriber.
THEOREM NoMessageLost == BrokerSpec => []NoneLost
<1>1. BrokerInv => NoneLost
  BY DEF BrokerInv
<1> QED BY <1>1, BrokerInductive, PTL DEF BrokerSpec

------------------------------------------------------------------------------
(***************************************************************************)
(* One copy.  A step takes a copy from one place to another, drops it, or  *)
(* makes the first copy of a new id.  Positions in a queue shift when it is *)
(* popped, so the argument compares the places before and after a step     *)
(* instead of counting them.                                               *)
(***************************************************************************)
Single(S) == \A x, y \in S : x = y

\* The places of q that hold message i.
At(tag, q, i) == {<<tag, n>> : n \in {n \in DOMAIN q : q[n].msg_id = i}}

\* The places outside of the two queues.
Others(i) ==
    {<<"in_flight", c>> : c \in {c \in Clients : Tracked(<<i, c>>)}}
    \cup {<<"pushing", c>> : c \in {c \in Clients : pushing[c].msg_id = i}}
    \cup (IF popped.msg_id = i THEN {<<"popped", 0>>} ELSE {})
    \cup (IF logger.msg_id = i THEN {<<"logger", 0>>} ELSE {})

\* Copies wait in one of the two queues or are elsewhere.
LEMMA CopiesSplit ==
    \A i : CopiesOf(i) = At("main", main_queue, i) \cup At("dlq", dlq, i) \cup Others(i)
  BY Zenon DEF CopiesOf, At, Others

\* Places tell by their tags where they are.
LEMMA Tags ==
    /\ \A i, x : x \in Others(i) => x[1] \in {"in_flight", "pushing", "popped", "logger"}
    /\ \A tag, q, i, x : x \in At(tag, q, i) => x[1] = tag
<1>1. ASSUME NEW i, NEW x \in Others(i)
      PROVE  x[1] \in {"in_flight", "pushing", "popped", "logger"}
  <2>1. \/ \E c \in Clients : x = <<"in_flight", c>> \/ x = <<"pushing", c>>
        \/ x = <<"popped", 0>> \/ x = <<"logger", 0>>
    BY Zenon DEF Others
  <2> QED BY <2>1
<1>2. ASSUME NEW tag, NEW q, NEW i, NEW x \in At(tag, q, i) PROVE x[1] = tag
  <2>1. \E n : x = <<tag, n>>
    BY Zenon DEF At
  <2> QED BY <2>1
<1> QED BY <1>1, <1>2, Zenon

\* Pushing adds one place, at the end.
LEMMA AtAppend ==
    ASSUME NEW q \in Seq(Message), NEW m \in Message, NEW tag, NEW i
    PROVE  /\ At(tag, Append(q, m), i) \subseteq At(tag, q, i) \cup {<<tag, Len(q) + 1>>}
           /\ m.msg_id # i => At(tag, Append(q, m), i) \subseteq At(tag, q, i)
<1> DEFINE r == Append(q, m)
<1>1. /\ DOMAIN r = DOMAIN q \cup {Len(q) + 1} /\ r[Len(q) + 1] = m
      /\ \A n \in DOMAIN q : r[n] = q[n]
  OBVIOUS
<1> HIDE DEF r
<1>2. \A x \in At(tag, r, i) : x \in At(tag, q, i) \/ (x = <<tag, Len(q) + 1>> /\ m.msg_id = i)
  BY <1>1, Zenon DEF At
<1> QED BY <1>2, Zenon DEF r

\* Popping takes the place at the front away and shifts the others: from at most
\* one copy it makes no second one, if the popped one is put down in one place w.
\* E and F are the places outside of the queue, before and after.
Popping(q, tag, i, w, E, F) ==
    /\ q \in Seq(Message) /\ q # <<>>
    /\ \A x \in E : x[1] # tag
    /\ \A x \in F : x \in E \/ (x = w /\ Head(q).msg_id = i)

PoppedOne(q, tag, i, E, F) ==
    /\ Single(At(tag, q, i) \cup E) => Single(At(tag, Tail(q), i) \cup F)
    /\ At(tag, Tail(q), i) \cup F # {} => At(tag, q, i) \cup E # {}

\* A pop takes the one copy out of its queue and leaves none in it.
LEMMA PopSingle ==
    ASSUME NEW q, NEW tag, NEW i, NEW w, NEW E, NEW F, Popping(q, tag, i, w, E, F)
    PROVE  PoppedOne(q, tag, i, E, F)
<1>0. /\ q \in Seq(Message) /\ q # <<>>
      /\ \A x \in E : x[1] # tag
      /\ \A x \in F : x \in E \/ (x = w /\ Head(q).msg_id = i)
  BY Zenon DEF Popping
<1> DEFINE r == Tail(q)
<1>1. /\ 1 \in DOMAIN q /\ Head(q) = q[1]
      /\ \A n \in DOMAIN r : n \in Nat \ {0} /\ n + 1 \in DOMAIN q /\ r[n] = q[n + 1]
  BY <1>0
<1> HIDE DEF r
<1>2. ASSUME NEW x \in At(tag, r, i)
      PROVE  \E n \in Nat \ {0} : x = <<tag, n>> /\ <<tag, n + 1>> \in At(tag, q, i)
  <2>1. PICK n \in DOMAIN r : x = <<tag, n>> /\ r[n].msg_id = i
    BY Zenon DEF At
  <2> DEFINE k == n + 1
  <2>2. n \in Nat \ {0} /\ k \in DOMAIN q /\ q[k].msg_id = i
    BY <1>1, <2>1, Zenon
  <2>3. <<tag, k>> \in At(tag, q, i)
    BY <2>2, Zenon DEF At
  <2> QED BY <2>1, <2>2, <2>3, Zenon
<1>3. Head(q).msg_id = i => <<tag, 1>> \in At(tag, q, i)
  BY <1>1, Zenon DEF At
<1>4. ASSUME Single(At(tag, q, i) \cup E),
             NEW x \in At(tag, r, i) \cup F, NEW y \in At(tag, r, i) \cup F
      PROVE  x = y
  <2>1. \A a, b \in At(tag, q, i) \cup E : a = b
    BY <1>4, Zenon DEF Single
  <2>2. ASSUME NEW a \in At(tag, r, i), NEW b \in At(tag, r, i) PROVE a = b
    <3>1. PICK n \in Nat \ {0} : a = <<tag, n>> /\ <<tag, n + 1>> \in At(tag, q, i)
      BY <1>2, Zenon
    <3>2. PICK k \in Nat \ {0} : b = <<tag, k>> /\ <<tag, k + 1>> \in At(tag, q, i)
      BY <1>2, Zenon
    <3>3. <<tag, n + 1>> = <<tag, k + 1>>
      BY <2>1, <3>1, <3>2, Zenon
    <3> QED BY <3>1, <3>2, <3>3
  <2>3. ASSUME NEW a \in At(tag, r, i), NEW b \in F PROVE FALSE
    <3>1. PICK n \in Nat \ {0} : <<tag, n + 1>> \in At(tag, q, i)
      BY <1>2, Zenon
    <3>2. CASE b \in E
      <4>1. b = <<tag, n + 1>>
        BY <2>1, <3>1, <3>2, Zenon
      <4>2. b[1] = tag
        BY <4>1
      <4> QED BY <1>0, <3>2, <4>2, Zenon
    <3>3. CASE Head(q).msg_id = i
      <4>1. <<tag, 1>> = <<tag, n + 1>>
        BY <1>3, <2>1, <3>1, <3>3, Zenon
      <4> QED BY <4>1
    <3> QED BY <1>0, <3>2, <3>3, Zenon
  <2>4. ASSUME NEW a \in F, NEW b \in F PROVE a = b
    <3>1. CASE Head(q).msg_id = i
      <4>1. ASSUME NEW e \in E PROVE FALSE
        <5>1. e = <<tag, 1>>
          BY <1>3, <2>1, <3>1, Zenon
        <5>2. e[1] = tag
          BY <5>1
        <5> QED BY <1>0, <5>2, Zenon
      <4> QED BY <1>0, <4>1, Zenon
    <3>2. CASE Head(q).msg_id # i
      BY <1>0, <2>1, <3>2, Zenon
    <3> QED BY <3>1, <3>2
  <2> QED BY <2>2, <2>3, <2>4, Zenon
<1>5. ASSUME NEW x \in At(tag, r, i) \cup F PROVE At(tag, q, i) \cup E # {}
  BY <1>0, <1>2, <1>3, Zenon
<1> QED BY <1>4, <1>5, Zenon DEF r, Single, PoppedOne

\* A step is good for message i if it makes no second copy of it, and none out
\* of nothing.
Good(i) == /\ Single(CopiesOf(i)) => Single(CopiesOf(i)')
           /\ CopiesOf(i)' # {} => CopiesOf(i) # {}

\* A step that only takes copies away keeps a message single.
LEMMA FewerIsGood == ASSUME NEW i, CopiesOf(i)' \subseteq CopiesOf(i) PROVE Good(i)
  BY Zenon DEF Good, Single

\* So does one that moves a copy from z to w.
LEMMA MoveIsGood ==
    ASSUME NEW i, NEW z \in CopiesOf(i), NEW w,
           \A x \in CopiesOf(i)' : x = w \/ (x \in CopiesOf(i) /\ x # z)
    PROVE  Good(i)
  BY Zenon DEF Good, Single

\* The places after a step, by queue.
LEMMA NewCopies ==
    \A i : CopiesOf(i)' = At("main", main_queue', i) \cup At("dlq", dlq', i) \cup Others(i)'
<1>1. (\A i : CopiesOf(i) = At("main", main_queue, i) \cup At("dlq", dlq, i) \cup Others(i))'
  BY CopiesSplit, PTL
<1>2. \A i : At("main", main_queue, i)' = At("main", main_queue', i)
             /\ At("dlq", dlq, i)' = At("dlq", dlq', i)
  BY Zenon DEF At
<1> QED BY <1>1, <1>2, Zenon

\* What is pushed into a queue is taken from the place z in which it was.
LEMMA PushIsGood ==
    ASSUME TypeOK, NEW i, NEW m \in Message, NEW z,
           \/ main_queue' = Append(main_queue, m) /\ dlq' = dlq
           \/ dlq' = Append(dlq, m) /\ main_queue' = main_queue,
           Others(i)' \subseteq Others(i),
           i = m.msg_id => z \in Others(i) /\ z \notin Others(i)'
    PROVE  Good(i)
<1> DEFINE M == At("main", main_queue, i)  D == At("dlq", dlq, i)
           N == At("main", main_queue', i)  E == At("dlq", dlq', i)
<1>1. PICK w : /\ N \subseteq M \cup {w} /\ E \subseteq D \cup {w}
               /\ m.msg_id # i => N \subseteq M /\ E \subseteq D
  <2>1. main_queue \in Seq(Message) /\ dlq \in Seq(Message)
    BY DEF TypeOK
  <2>2. CASE main_queue' = Append(main_queue, m) /\ dlq' = dlq
    BY <2>1, <2>2, AtAppend, Zenon
  <2>3. CASE dlq' = Append(dlq, m) /\ main_queue' = main_queue
    BY <2>1, <2>3, AtAppend, Zenon
  <2> QED BY <2>2, <2>3, Zenon
<1>2. CopiesOf(i)' = N \cup E \cup Others(i)' /\ CopiesOf(i) = M \cup D \cup Others(i)
  BY NewCopies, CopiesSplit, Zenon
<1>3. CASE i # m.msg_id
  <2>1. CopiesOf(i)' \subseteq CopiesOf(i)
    BY <1>1, <1>2, <1>3, Zenon
  <2> QED BY <2>1, FewerIsGood, Zenon
<1>4. CASE i = m.msg_id
  <2>1. z[1] \in {"in_flight", "pushing", "popped", "logger"}
    BY <1>4, Tags, Zenon
  <2>2. \A x \in M \cup D : x[1] \in {"main", "dlq"}
    BY Tags, Zenon
  <2>3. z \notin M \cup D
    BY <2>1, <2>2
  <2>4. z \in CopiesOf(i)
    BY <1>2, <1>4, Zenon
  <2>5. \A x \in CopiesOf(i)' : x = w \/ (x \in CopiesOf(i) /\ x # z)
    BY <1>1, <1>2, <1>4, <2>3, Zenon
  <2> QED BY <2>4, <2>5, MoveIsGood, Zenon
<1> QED BY <1>3, <1>4

\* What is popped from a queue goes to one place or is dropped.
PopsMain(i, w) ==
    /\ main_queue # <<>> /\ main_queue' = Tail(main_queue) /\ dlq' = dlq
    /\ \A x \in Others(i)' : x \in Others(i) \/ (x = w /\ Head(main_queue).msg_id = i)
PopsDlq(i, w) ==
    /\ dlq # <<>> /\ dlq' = Tail(dlq) /\ main_queue' = main_queue
    /\ \A x \in Others(i)' : x \in Others(i) \/ (x = w /\ Head(dlq).msg_id = i)

\* So does a pop, from main_queue or from dlq, to the thread's place w.
LEMMA PopIsGood ==
    ASSUME TypeOK, NEW i, NEW w, PopsMain(i, w) \/ PopsDlq(i, w) PROVE Good(i)
<1> DEFINE M == At("main", main_queue, i)  D == At("dlq", dlq, i)
           N == At("main", main_queue', i)  E == At("dlq", dlq', i)
<1>1. main_queue \in Seq(Message) /\ dlq \in Seq(Message)
  BY DEF TypeOK
<1>2. CopiesOf(i)' = N \cup E \cup Others(i)' /\ CopiesOf(i) = M \cup D \cup Others(i)
  BY NewCopies, CopiesSplit, Zenon
<1>3. /\ \A x \in D \cup Others(i) : x[1] # "main"
      /\ \A x \in M \cup Others(i) : x[1] # "dlq"
  BY Tags
<1>4. CASE PopsMain(i, w)
  <2> DEFINE P == D \cup Others(i)  Q == E \cup Others(i)'
  <2>1. \A x \in Q : x \in P \/ (x = w /\ Head(main_queue).msg_id = i)
    BY <1>4, Zenon DEF PopsMain
  <2>2. CopiesOf(i) = M \cup P /\ CopiesOf(i)' = N \cup Q /\ \A x \in P : x[1] # "main"
    BY <1>2, <1>3, Zenon
  <2> HIDE DEF P, Q
  <2>3. Popping(main_queue, "main", i, w, P, Q)
    BY <1>1, <1>4, <2>1, <2>2, Zenon DEF Popping, PopsMain
  <2>4. PoppedOne(main_queue, "main", i, P, Q)
    BY <2>3, PopSingle, Zenon
  <2> QED BY <1>4, <2>2, <2>4, Zenon DEF Good, PoppedOne, PopsMain
<1>5. CASE PopsDlq(i, w)
  <2> DEFINE P == M \cup Others(i)  Q == N \cup Others(i)'
  <2>1. \A x \in Q : x \in P \/ (x = w /\ Head(dlq).msg_id = i)
    BY <1>5, Zenon DEF PopsDlq
  <2>2. CopiesOf(i) = D \cup P /\ CopiesOf(i)' = E \cup Q /\ \A x \in P : x[1] # "dlq"
    BY <1>2, <1>3, Zenon
  <2> HIDE DEF P, Q
  <2>3. Popping(dlq, "dlq", i, w, P, Q)
    BY <1>1, <1>5, <2>1, <2>2, Zenon DEF Popping, PopsDlq
  <2>4. PoppedOne(dlq, "dlq", i, P, Q)
    BY <2>3, PopSingle, Zenon
  <2> QED BY <1>5, <2>2, <2>4, Zenon DEF Good, PoppedOne, PopsDlq
<1> QED BY <1>4, <1>5

\* Erasing an entry of in_flight_ tracks nothing new.
LEMMA EraseOnly ==
    ASSUME TypeOK, NEW k \in Keys, Erase(k), NEW i \in MsgIds, NEW c \in Clients, Tracked(<<i, c>>)'
    PROVE  Tracked(<<i, c>>) /\ <<i, c>> # k
<1>1. in_flight' = [in_flight EXCEPT ![k] = Untracked] /\ <<i, c>> \in Keys
  BY DEF Erase, Keys
<1>2. in_flight \in [Keys -> InFlight \cup {Untracked}]
  BY DEF TypeOK
<1> QED BY <1>1, <1>2 DEF Tracked

\* A failed delivery goes from in_flight_ into one of the queues.
LEMMA FailIsGood ==
    ASSUME TypeOK, KeyMatches, NEW k \in Keys, Tracked(k), requeue_or_dlq(k), Erase(k),
           popped' = popped, UNCHANGED handVars, NEW i \in MsgIds
    PROVE  Good(i)
<1> DEFINE m == in_flight[k].msg  z == <<"in_flight", k[2]>>
<1>1. PICK n \in Message :
        /\ n.msg_id = k[1]
        /\ \/ main_queue' = Append(main_queue, n) /\ dlq' = dlq
           \/ dlq' = Append(dlq, n) /\ main_queue' = main_queue
  <2>1. /\ m \in Message
        /\ \/ main_queue' = Append(main_queue, Retry(m)) /\ dlq' = dlq
           \/ dlq' = Append(dlq, DeadLetter(m)) /\ main_queue' = main_queue
    BY RequeueEffect
  <2>2. m.msg_id = k[1]
    BY Zenon DEF KeyMatches
  <2> HIDE DEF m
  <2>3. /\ Retry(m) \in Message /\ Retry(m).msg_id = k[1]
        /\ DeadLetter(m) \in Message /\ DeadLetter(m).msg_id = k[1]
    BY <2>1, <2>2 DEF Message, Retry, DeadLetter
  <2> QED BY <2>1, <2>3, Zenon
<1>2. \A c \in Clients : Tracked(<<i, c>>)' => Tracked(<<i, c>>) /\ <<i, c>> # k
  BY EraseOnly
<1>3. Others(i)' \subseteq Others(i)
  BY <1>2, Zenon DEF Others, handVars
<1>4. i = n.msg_id => z \in Others(i) /\ z \notin Others(i)'
  <2> SUFFICES ASSUME i = n.msg_id PROVE z \in Others(i) /\ z \notin Others(i)'
    OBVIOUS
  <2>1. k = <<i, k[2]>> /\ k[2] \in Clients
    BY <1>1 DEF Keys
  <2>2. z \in Others(i)
    BY <2>1, Zenon DEF Others
  <2>3. ASSUME z \in Others(i)' PROVE FALSE
    <3>1. \/ \E c \in Clients : z = <<"in_flight", c>> /\ Tracked(<<i, c>>)'
          \/ \E c \in Clients : z = <<"pushing", c>>
          \/ z = <<"popped", 0>> \/ z = <<"logger", 0>>
      BY <2>3, Zenon DEF Others
    <3>2. PICK c \in Clients : z = <<"in_flight", c>> /\ Tracked(<<i, c>>)'
      BY <3>1
    <3>3. c = k[2]
      BY <3>2
    <3> QED BY <1>2, <2>1, <3>2, <3>3, Zenon
  <2> QED BY <2>2, <2>3
<1> HIDE DEF z
<1> QED BY <1>1, <1>3, <1>4, PushIsGood

\* track takes the only target's copy from the dispatcher.
LEMMA TrackIsGood ==
    ASSUME TypeOK, Len(targets) <= 1, Track, UNCHANGED handVars, NEW i \in MsgIds
    PROVE  Good(i)
<1> DEFINE t == Head(targets)  w == <<"in_flight", t>>  z == <<"popped", 0>>
<1>1. /\ targets \in Seq(Clients) /\ targets # <<>> /\ popped \in Message
      /\ t \in Clients /\ Tail(targets) = <<>>
  BY DEF Track, TypeOK
<1>2. popped' = NoMessage /\ main_queue' = main_queue /\ dlq' = dlq
  BY <1>1 DEF Track
<1>3. popped'.msg_id # i
  BY <1>2, IdsPositive DEF NoMessage
<1>4. ASSUME NEW c \in Clients, Tracked(<<i, c>>)'
      PROVE  Tracked(<<i, c>>) \/ (i = popped.msg_id /\ c = t)
  <2>1. /\ in_flight \in [Keys -> InFlight \cup {Untracked}] /\ <<i, c>> \in Keys
        /\ popped.msg_id \in MsgIds
    BY <1>1 DEF TypeOK, Keys, Message
  <2> QED BY <1>1, <1>4, <2>1 DEF Track, Tracked, Keys
<1>5. \A x \in Others(i)' : x \in Others(i) \/ (x = w /\ i = popped.msg_id)
  BY <1>3, <1>4, Zenon DEF Others, handVars
<1>6. z \notin Others(i)'
  <2>1. z \in Others(i)' => \/ \E c \in Clients : z = <<"in_flight", c>>
                            \/ \E c \in Clients : z = <<"pushing", c>>
                            \/ z = <<"logger", 0>>
    BY <1>3, Zenon DEF Others
  <2> QED BY <2>1
<1>7. \A j : At("main", main_queue, j) \cup At("dlq", dlq, j)
             = At("main", main_queue', j) \cup At("dlq", dlq', j)
  BY <1>2, Zenon
<1>8. CASE i # popped.msg_id
  BY <1>5, <1>7, <1>8, NewCopies, CopiesSplit, FewerIsGood, Zenon
<1>9. CASE i = popped.msg_id
  <2>1. z \in Others(i)
    BY <1>9, Zenon DEF Others
  <2>2. \A x : x \in At("main", main_queue, i) \cup At("dlq", dlq, i) => x[1] \in {"main", "dlq"}
    BY Tags, Zenon
  <2>3. z \notin At("main", main_queue, i) \cup At("dlq", dlq, i)
    BY <2>2
  <2> HIDE DEF z, w
  <2>4. z \in CopiesOf(i) /\ \A x \in CopiesOf(i)' : x = w \/ (x \in CopiesOf(i) /\ x # z)
    BY <1>5, <1>6, <1>7, <2>1, <2>3, NewCopies, CopiesSplit, Zenon
  <2> QED BY <2>4, MoveIsGood, Zenon
<1> QED BY <1>8, <1>9

\* An engine step moves or drops copies.
LEMMA EngineIsGood ==
    ASSUME TypeOK, LockOwned, KeyMatches, Len(targets) <= 1, EngineStep, UNCHANGED handVars,
           NEW i \in MsgIds
    PROVE  Good(i)
<1>1. ASSUME UNCHANGED <<in_flight, main_queue, dlq, popped>> PROVE Good(i)
  <2>1. CopiesOf(i)' = CopiesOf(i)
    BY <1>1, Zenon DEF CopiesOf, Tracked, handVars
  <2> QED BY <2>1, FewerIsGood, Zenon
<1>2. ASSUME NEW j \in MsgIds, NEW c \in Clients, Ack(j, c) PROVE Good(i)
  <2>1. \A d \in Clients : Tracked(<<i, d>>)' => Tracked(<<i, d>>)
    BY <1>2, EraseOnly DEF Ack, Keys
  <2>2. UNCHANGED <<main_queue, dlq, popped, pushing, logger>>
    BY <1>2, Zenon DEF handVars, Ack, queueVars
  <2>3. Others(i)' \subseteq Others(i)
    BY <2>1, <2>2, Zenon DEF Others
  <2>4. CopiesOf(i)' \subseteq CopiesOf(i)
    BY <2>2, <2>3, NewCopies, CopiesSplit, Zenon
  <2> QED BY <2>4, FewerIsGood, Zenon
<1>3. ASSUME NEW c \in Clients, NackPush(c) PROVE Good(i)
  <2>1. <<nacking[c], c>> \in Keys /\ Tracked(<<nacking[c], c>>)
    BY <1>3 DEF NackPush, TypeOK, LockOwned, Keys
  <2> QED BY <1>3, <2>1, FailIsGood, Zenon DEF NackPush
<1>4. ASSUME NEW c \in Clients, GoneStep(c) PROVE Good(i)
  <2>1. PICK j \in TrackedBy(c) : requeue_or_dlq(<<j, c>>) /\ Erase(<<j, c>>)
    BY <1>4, Zenon DEF GoneStep
  <2>2. <<j, c>> \in Keys /\ Tracked(<<j, c>>)
    BY DEF TrackedBy, Keys
  <2> QED BY <1>4, <2>1, <2>2, FailIsGood, Zenon DEF GoneStep
<1>5. CASE ScanPop
  <2>1. PICK e \in deadlines :
           IF Expires(e) THEN requeue_or_dlq(e.key) /\ Erase(e.key)
                         ELSE UNCHANGED <<in_flight, main_queue, dlq>>
    BY <1>5, Zenon DEF ScanPop
  <2>2. e.key \in Keys
    BY DEF TypeOK
  <2>3. popped' = popped
    BY <1>5, Zenon DEF ScanPop
  <2>4. CASE Expires(e)
    BY <2>1, <2>2, <2>3, <2>4, FailIsGood, Zenon DEF Expires
  <2>5. CASE ~Expires(e)
    BY <1>1, <2>1, <2>3, <2>5, Zenon
  <2> QED BY <2>4, <2>5
<1>6. CASE Track
  BY <1>6, TrackIsGood, Zenon
<1> QED
  BY <1>1, <1>2, <1>3, <1>4, <1>5, <1>6, Zenon
  DEF EngineStep, CallStep, HandlerStep, ScannerStep, NackLock, GoneLock, GoneEnd, ScanStamp,
      ScanLock, ScanEnd, queueVars

\* Ids are given out once.
UsedIds == \A i \in MsgIds : CopiesOf(i) # {} => i < next_id

\* A step makes a first copy of a new id only.
LEMMA CopiesStep ==
    ASSUME BrokerTypeOK, LockOwned, KeyMatches, Len(targets) <= 1, UsedIds,
           [BrokerNext]_allVars, NEW i \in MsgIds
    PROVE  \/ Good(i) /\ next_id' \in {next_id, next_id + 1}
           \/ i = next_id /\ next_id' = next_id + 1 /\ Single(CopiesOf(i)')
<1>t. TypeOK /\ i # 0
  BY IdsPositive DEF BrokerTypeOK
<1>f. i = next_id => CopiesOf(i) = {}
  BY IdsPositive DEF UsedIds
<1>1. CASE UNCHANGED <<vars, handVars>>
  <2>1. CopiesOf(i)' = CopiesOf(i) /\ next_id' = next_id
    BY <1>1, Zenon DEF CopiesOf, Tracked, handVars, vars, engineVars, queueVars
  <2> QED BY <2>1, FewerIsGood, Zenon
<1>2. CASE EngineStep /\ UNCHANGED handVars
  BY <1>2, <1>t, EngineIsGood, Zenon DEF handVars
<1>p. ASSUME Pop, UNCHANGED handVars PROVE Good(i) /\ next_id' = next_id
  <2>1. popped' = Head(main_queue)
    BY <1>p, Zenon DEF Pop
  <2>2. \A x \in Others(i)' : \/ x \in Others(i)
                              \/ x = <<"popped", 0>> /\ Head(main_queue).msg_id = i
    BY <1>p, <2>1, Zenon DEF Others, Pop, handVars, engineVars, Tracked
  <2>3. main_queue # <<>> /\ main_queue' = Tail(main_queue) /\ dlq' = dlq
    BY <1>p, Zenon DEF Pop
  <2>4. PopsMain(i, <<"popped", 0>>)
    BY <2>2, <2>3, Zenon DEF PopsMain
  <2> QED BY <1>p, <1>t, <2>4, PopIsGood, Zenon DEF handVars
<1>3. ASSUME NEW ts \in Seq(Clients), Route(ts), UNCHANGED handVars
      PROVE  Good(i) /\ next_id' = next_id
  <2>1. popped'.msg_id = i => popped.msg_id = i
    BY <1>3, <1>t DEF Route, NoMessage
  <2>3. UNCHANGED <<in_flight, main_queue, dlq, pushing, logger>>
    BY <1>3, Zenon DEF Route, handVars, engineVars
  <2>2. CopiesOf(i)' \subseteq CopiesOf(i)
    BY <2>1, <2>3, Zenon DEF CopiesOf, Tracked
  <2> QED BY <1>3, <2>2, FewerIsGood, Zenon DEF handVars
<1>4. ASSUME NEW c \in Clients, OnPublish(c)
      PROVE  \/ Good(i) /\ next_id' = next_id + 1
             \/ i = next_id /\ next_id' = next_id + 1 /\ Single(CopiesOf(i)')
  <2>1. /\ UNCHANGED <<in_flight, main_queue, dlq, popped, logger>> /\ next_id' = next_id + 1
        /\ pushing' = [pushing EXCEPT ![c] = Fresh(next_id)]
        /\ pushing \in [Clients -> Message \cup {NoMessage}]
    BY <1>4, Zenon DEF OnPublish, engineVars, queueVars, BrokerTypeOK
  <2>2. pushing'[c].msg_id = next_id /\ \A d \in Clients : d # c => pushing'[d] = pushing[d]
    BY <2>1 DEF Fresh
  <2>3. \A x \in CopiesOf(i)' : x \in CopiesOf(i) \/ (x = <<"pushing", c>> /\ i = next_id)
    BY <2>1, <2>2, Zenon DEF CopiesOf, Tracked
  <2>4. CASE i = next_id
    BY <1>f, <2>1, <2>3, <2>4, Zenon DEF Single
  <2>5. CASE i # next_id
    BY <2>1, <2>3, <2>5, FewerIsGood, Zenon
  <2> QED BY <2>4, <2>5
<1>5. ASSUME NEW c \in Clients, PublishPush(c) PROVE Good(i) /\ next_id' = next_id
  <2> DEFINE m == pushing[c]  z == <<"pushing", c>>
  <2>1. /\ m \in Message /\ pushing \in [Clients -> Message \cup {NoMessage}]
        /\ main_queue' = Append(main_queue, m) /\ dlq' = dlq
    BY <1>5, HandTypes DEF PublishPush, BrokerTypeOK
  <2>2. pushing'[c] = NoMessage /\ \A d \in Clients : d # c => pushing'[d] = pushing[d]
    BY <1>5, <2>1 DEF PublishPush
  <2>3. UNCHANGED <<in_flight, popped, logger, next_id>>
    BY <1>5, Zenon DEF PublishPush, engineVars
  <2>4. pushing'[c].msg_id # i
    BY <1>t, <2>2 DEF NoMessage
  <2>5. Others(i)' \subseteq Others(i)
    BY <2>2, <2>3, <2>4, Zenon DEF Others, Tracked
  <2>6. z \notin Others(i)'
    <3>1. z \in Others(i)' => \/ \E d \in Clients : z = <<"pushing", d>> /\ pushing'[d].msg_id = i
                              \/ \E d \in Clients : z = <<"in_flight", d>>
                              \/ z = <<"popped", 0>> \/ z = <<"logger", 0>>
      BY Zenon DEF Others
    <3> QED BY <2>4, <3>1
  <2>7. i = m.msg_id => z \in Others(i) /\ z \notin Others(i)'
    BY <2>6, Zenon DEF Others
  <2> HIDE DEF m, z
  <2>8. Good(i)
    BY <1>t, <2>1, <2>5, <2>7, PushIsGood, Zenon
  <2> QED BY <2>3, <2>8, Zenon
<1>6. CASE LoggerRepublish \/ LoggerAudit
  <2> DEFINE z == <<"logger", 0>>
  <2>1. /\ logger \in Message /\ main_queue' = Append(main_queue, logger) /\ dlq' = dlq
    BY <1>6, HandTypes DEF LoggerRepublish, LoggerAudit
  <2>2. /\ UNCHANGED <<in_flight, popped, pushing>>
        /\ \/ logger' = Fresh(next_id) /\ next_id' = next_id + 1
           \/ logger' = NoMessage /\ next_id' = next_id
    BY <1>6, Zenon DEF LoggerRepublish, LoggerAudit, engineVars
  <2>3. CASE i # next_id \/ logger' = NoMessage
    <3>1. logger'.msg_id # i
      BY <1>t, <2>2, <2>3 DEF NoMessage, Fresh
    <3>2. Others(i)' \subseteq Others(i)
      BY <2>2, <3>1, Zenon DEF Others, Tracked
    <3>3. z \notin Others(i)'
      <4>1. z \in Others(i)' => \/ \E d \in Clients : z = <<"pushing", d>>
                                \/ \E d \in Clients : z = <<"in_flight", d>>
                                \/ z = <<"popped", 0>>
        BY <3>1, Zenon DEF Others
      <4> QED BY <4>1
    <3>4. i = logger.msg_id => z \in Others(i) /\ z \notin Others(i)'
      BY <3>3, Zenon DEF Others
    <3> HIDE DEF z
    <3>5. Good(i)
      BY <1>t, <2>1, <3>2, <3>4, PushIsGood, Zenon
    <3> QED BY <2>2, <3>5, Zenon
  <2>4. CASE i = next_id /\ logger' = Fresh(next_id) /\ next_id' = next_id + 1
    <3>1. logger.msg_id # i
      BY <1>f, <2>4, Zenon DEF CopiesOf
    <3>2. At("main", main_queue', i) \subseteq At("main", main_queue, i)
      <4>1. main_queue \in Seq(Message)
        BY <1>t DEF TypeOK
      <4> QED BY <2>1, <3>1, <4>1, AtAppend, Zenon
    <3>3. At("main", main_queue, i) = {} /\ At("dlq", dlq, i) = {} /\ Others(i) = {}
      BY <1>f, <2>4, CopiesSplit, Zenon
    <3>4. \A x \in Others(i)' : x \in Others(i) \/ x = z
      BY <2>2, Zenon DEF Others, Tracked
    <3>5. \A x \in CopiesOf(i)' : x = z
      BY <2>1, <3>2, <3>3, <3>4, NewCopies, Zenon
    <3>6. Single(CopiesOf(i)')
      BY <3>5, Zenon DEF Single
    <3> QED BY <2>4, <3>6, Zenon
  <2> QED BY <2>2, <2>3, <2>4, Zenon
<1>7. CASE LoggerPop
  <2>1. /\ logger' = Head(dlq) /\ dlq # <<>> /\ dlq' = Tail(dlq) /\ main_queue' = main_queue
        /\ UNCHANGED <<in_flight, popped, pushing, next_id>>
    BY <1>7, Zenon DEF LoggerPop, engineVars
  <2>2. \A x \in Others(i)' : \/ x \in Others(i)
                              \/ x = <<"logger", 0>> /\ Head(dlq).msg_id = i
    BY <2>1, Zenon DEF Others, Tracked
  <2>3. PopsDlq(i, <<"logger", 0>>)
    BY <2>1, <2>2, Zenon DEF PopsDlq
  <2> QED BY <1>t, <2>1, <2>3, PopIsGood, Zenon
<1> QED BY <1>1, <1>2, <1>p, <1>3, <1>4, <1>5, <1>6, <1>7, StepKinds, Zenon

\* Every list of subscribers is one that some request made.
Requested == \A s \in Slots : members[s] # <<>> => \E r \in Requests : s = <<r[1], r[2]>>

\* With one group for each topic nobody is in a slot of another, and ids are given
\* out once; so the dispatcher has at most one target and a message has at most
\* one copy.
OneInv ==
    /\ Requested
    /\ Len(targets) <= 1
    /\ UsedIds
    /\ \A i \in MsgIds : Single(CopiesOf(i))

\* A set with no two elements has at most one.
LEMMA SingleCardinality == ASSUME NEW S, Single(S) PROVE Cardinality(S) <= 1
<1>1. CASE S = {}
  BY <1>1, FS_EmptySet
<1>2. ASSUME NEW x \in S PROVE Cardinality(S) <= 1
  <2>1. S = {x}
    BY <1>2, Zenon DEF Single
  <2> QED BY <2>1, FS_Singleton
<1> QED BY <1>1, <1>2, Zenon

\* For each topic only one group's slot is visited, and there one place is chosen.
LEMMA OneTurn ==
    ASSUME RouterOK, OneGroupEach, Requested, NEW t \in BrokerTopics,
           NEW ts \in Router!RouteResults(t)
    PROVE  Len(ts) <= 1
<1>1. ASSUME NEW s \in Router!Visited(t)
      PROVE  /\ \E r \in Requests : s = <<r[1], r[2]>> /\ TopicMatches(r[1], t)
             /\ Router!Chosen(s) = {(rr_idx[s] % Len(members[s])) + 1}
  <2>1. PICK r \in Requests : s = <<r[1], r[2]>>
    BY ChosenOK, Zenon DEF Requested
  <2>2. s[1] = r[1] /\ s[2] = r[2]
    BY <2>1
  <2>3. TopicMatches(s[1], t)
    BY Zenon DEF Router!Visited
  <2>4. ~Router!IsUnique(s[2])
    BY <2>2, NamesApart, Zenon DEF Router!IsUnique, OneGroupEach
  <2>5. Router!Chosen(s) = {(rr_idx[s] % Len(members[s])) + 1}
    BY <2>4, Zenon DEF Router!Chosen
  <2> QED BY <2>1, <2>2, <2>3, <2>5, Zenon
<1>2. ASSUME NEW s \in Router!Visited(t), NEW u \in Router!Visited(t) PROVE s = u
  BY <1>1, Zenon DEF OneGroupEach
<1>3. ASSUME NEW x \in Router!Turns(t), NEW y \in Router!Turns(t) PROVE x = y
  <2>1. PICK s \in Router!Visited(t) : x \in {s} \X Router!Chosen(s)
    BY Zenon DEF Router!Turns
  <2>2. PICK u \in Router!Visited(t) : y \in {u} \X Router!Chosen(u)
    BY Zenon DEF Router!Turns
  <2>3. u = s
    BY <1>2, Zenon
  <2> DEFINE n == (rr_idx[s] % Len(members[s])) + 1
  <2>4. Router!Chosen(s) = {n}
    BY <1>1, Zenon
  <2> HIDE DEF n
  <2> QED BY <2>1, <2>2, <2>3, <2>4
<1>4. Cardinality(Router!Turns(t)) <= 1
  BY <1>3, SingleCardinality, Zenon DEF Single
<1>5. Len(ts) = Cardinality(Router!Turns(t))
  BY RouteTypes, Zenon
<1> QED BY <1>4, <1>5, Zenon

\* The lists of the other slots stay empty.
LEMMA SlotStep ==
    ASSUME RouterOK, OneGroupEach, Requested, [BrokerNext]_allVars PROVE Requested'
<1>s. Slots' = Slots
  BY DEF Slots, Router!Slots, Router!Unique
<1>1. CASE members' = members
  BY <1>1, <1>s, Zenon DEF Requested
<1>2. ASSUME NEW c \in Clients, OnSubscribe(c) PROVE Requested'
  <2>1. PICK r \in Requests : Router!subscribe(r[1], r[2], c)
    BY <1>2, Zenon DEF OnSubscribe
  <2> DEFINE s0 == <<r[1], r[2]>>
  <2>2. r[2] # NoGroup
    BY NamesApart, Zenon DEF OneGroupEach
  <2>3. \/ members' = members
        \/ members' = [members EXCEPT ![s0] = Append(@, c)]
    BY <2>1, <2>2 DEF Router!subscribe
  <2> HIDE DEF s0
  <2>4. \A s \in Slots : s # s0 => members'[s] = members[s]
    BY <2>3 DEF RouterOK
  <2> QED BY <1>s, <2>4, Zenon DEF s0, Requested
<1>3. ASSUME NEW c \in Clients, OnDisconnect(c) PROVE Requested'
  <2>1. members' = [s \in Slots |-> Router!Without(members[s], c)]
    BY <1>3, Zenon DEF OnDisconnect, Router!unsubscribe, Slots
  <2>2. \A s \in Slots : members'[s] = Router!Without(members[s], c)
    BY <2>1, Zenon
  <2>3. \A s \in Slots : members[s] \in Seq(Clients)
    BY DEF RouterOK
  <2> QED BY <1>s, <2>2, <2>3, WithoutTypes, Zenon DEF Requested
<1>4. CASE RouteMessage
  BY <1>1, <1>4, Zenon DEF RouteMessage, Router!route
<1> QED
  BY <1>1, <1>2, <1>3, <1>4, Zenon
  DEF BrokerNext, Handler, Accept, OnPublish, PublishPush, OnAck, OnNack, FinishNack,
      Disconnected, FailOutstanding, HandlerExit, PopMessage, TrackAndSend,
      LoggerPop, LoggerRepublish, LoggerAudit, Scan, Signal, EndThread, brokerVars, allVars

\* So the dispatcher never has two targets to serve.
LEMMA TargetStep ==
    ASSUME BrokerTypeOK, OneGroupEach, Requested, [BrokerNext]_allVars, Len(targets) <= 1
    PROVE  Len(targets') <= 1
<1>1. CASE targets' = targets
  BY <1>1, Zenon
<1>2. CASE RouteMessage
  <2>1. PICK ts \in Router!RouteResults(Topic(popped)) : Route(ts)
    BY <1>2, Zenon DEF RouteMessage
  <2>2. Topic(popped) \in BrokerTopics
    BY DEF Topic, BrokerTopics
  <2>3. Len(ts) <= 1
    BY <2>2, OneTurn, TypesSplit, Zenon
  <2> QED BY <2>1, <2>3, Zenon DEF Route
<1>3. CASE Track
  <2>1. targets \in Seq(Clients) /\ targets # <<>> /\ targets' = Tail(targets)
    BY <1>3 DEF Track, BrokerTypeOK, TypeOK
  <2> QED BY <2>1
<1> QED
  BY <1>1, <1>2, <1>3, Zenon
  DEF BrokerNext, Handler, Accept, OnSubscribe, OnPublish, PublishPush, OnAck, OnNack,
      FinishNack, OnDisconnect, Disconnected, FailOutstanding, HandlerExit, PopMessage, Pop,
      TrackAndSend, LoggerPop, LoggerRepublish, LoggerAudit, Scan, Signal, EndThread,
      allVars, vars, queueVars, Ack, NackLock, NackPush, GoneLock, GoneStep, GoneEnd,
      ScannerStep, ScanStamp, ScanLock, ScanPop, ScanEnd

\* Every thread's step keeps OneInv, if each topic goes to one group.
LEMMA OneStep ==
    ASSUME BrokerInv, OneGroupEach, OneInv, [BrokerNext]_allVars PROVE OneInv'
<1>1. BrokerTypeOK /\ LockOwned /\ KeyMatches /\ RouterOK
  BY TypesSplit, Zenon DEF BrokerInv
<1>2. Requested /\ Len(targets) <= 1 /\ UsedIds /\ \A i \in MsgIds : Single(CopiesOf(i))
  BY Zenon DEF OneInv
<1>3. Requested'
  BY <1>1, <1>2, SlotStep, Zenon
<1>4. Len(targets') <= 1
  BY <1>1, <1>2, TargetStep, Zenon
<1>5. ASSUME NEW i \in MsgIds
      PROVE  Single(CopiesOf(i)') /\ (CopiesOf(i)' # {} => i < next_id')
  <2>1. \/ Good(i) /\ next_id' \in {next_id, next_id + 1}
        \/ i = next_id /\ next_id' = next_id + 1 /\ Single(CopiesOf(i)')
    BY <1>1, <1>2, CopiesStep, Zenon
  <2>2. next_id \in Nat /\ i \in Nat
    BY <1>1, IdsPositive DEF BrokerTypeOK
  <2>3. CASE Good(i) /\ next_id' \in {next_id, next_id + 1}
    <3>1. Single(CopiesOf(i)') /\ (CopiesOf(i)' # {} => i < next_id)
      BY <1>2, <2>3, Zenon DEF Good, UsedIds
    <3> QED BY <2>2, <2>3, <3>1
  <2>4. CASE i = next_id /\ next_id' = next_id + 1 /\ Single(CopiesOf(i)')
    BY <2>2, <2>4
  <2> QED BY <2>1, <2>3, <2>4, Zenon
<1> QED BY <1>3, <1>4, <1>5, Zenon DEF OneInv, UsedIds, Single

\* OneInv holds when the broker starts.
LEMMA OneInit == ASSUME BrokerInit PROVE OneInv
<1>1. \A s \in Slots : members[s] = <<>>
  BY Zenon DEF BrokerInit, Router!RouterInit, Slots
<1>2. targets = <<>> /\ Len(targets) <= 1
  BY DEF BrokerInit, Init
<1>3. ASSUME NEW i \in MsgIds PROVE CopiesOf(i) = {}
  <2>1. /\ main_queue = <<>> /\ dlq = <<>> /\ popped.msg_id # i /\ logger.msg_id # i
        /\ \A c \in Clients : pushing[c].msg_id # i /\ ~Tracked(<<i, c>>)
    BY IdsPositive DEF BrokerInit, Init, NoMessage, Tracked, Keys
  <2>2. DOMAIN main_queue = {} /\ DOMAIN dlq = {}
    BY <2>1
  <2> QED BY <2>1, <2>2, Zenon DEF CopiesOf
<1> QED BY <1>1, <1>2, <1>3, Zenon DEF OneInv, Requested, UsedIds, Single

\* With one consumer group for each topic a message is never multiplied: at most
\* one copy of it waits in a queue, is in a thread's hands or is owed an ACK,
\* whatever nacks, timeouts, disconnects and late acks happen.
THEOREM OneCopyOnly == BrokerSpec => []OneCopyInGroup
<1> DEFINE Inv == OneGroupEach => OneInv
<1>1. BrokerInit => Inv
  BY OneInit, Zenon
<1>2. BrokerInv /\ Inv /\ [BrokerNext]_allVars => Inv'
  <2>1. OneGroupEach' => OneGroupEach
    BY DEF OneGroupEach, TopicMatches
  <2> QED BY <2>1, OneStep, Zenon
<1>3. Inv => OneCopyInGroup
  BY SingleCardinality, Zenon DEF OneCopyInGroup, OneInv
<1> QED BY <1>1, <1>2, <1>3, BrokerInductive, PTL DEF BrokerSpec

------------------------------------------------------------------------------
(***************************************************************************)
(* The retry budget.  A copy that waits carries in retry_count how often   *)
(* its message has been delivered so far; one in flight lags behind by the *)
(* delivery it stands for; a dead letter's message has been delivered      *)
(* max_retries + 1 times.  That there is one copy only makes this a count  *)
(* of the message's deliveries.                                            *)
(***************************************************************************)
Waiting == Range(main_queue) \cup Range(dlq) \cup Range(pushing) \cup {popped, logger}

\* m, of whose message n deliveries have been tracked, has counted them.
Counts(m, n) ==
    m.retry_count <= MaxRetries /\ n = IF m.dead = 0 THEN m.retry_count ELSE MaxRetries + 1

\* The same for a delivery that is still open.
CountsOpen(m, n) ==
    m.retry_count <= MaxRetries /\ n = IF m.dead = 0 THEN m.retry_count + 1 ELSE MaxRetries + 1

BudgetInv ==
    /\ \A m \in Waiting : m # NoMessage => Counts(m, attempts[m.msg_id])
    /\ \A k \in Keys : Tracked(k) => CountsOpen(in_flight[k].msg, attempts[k[1]])
    /\ \A i \in MsgIds : attempts[i] <= MaxRetries + 1 /\ (next_id <= i => attempts[i] = 0)

\* Failing an open delivery puts a copy into a queue that counts it.
LEMMA FailCounts ==
    ASSUME NEW m \in Message, NEW n, CountsOpen(m, n)
    PROVE  /\ m.retry_count < MaxRetries => Counts(Retry(m), n)
           /\ m.retry_count >= MaxRetries => Counts(DeadLetter(m), n)
<1>1. m.retry_count \in Nat /\ m.dead \in Nat /\ MaxRetries \in Nat
  BY RetriesNat DEF Message
<1>2. /\ Retry(m).retry_count = m.retry_count + 1 /\ Retry(m).dead = m.dead
      /\ DeadLetter(m).retry_count = 0 /\ DeadLetter(m).dead = m.dead + 1
  BY DEF Retry, DeadLetter
<1> QED BY <1>1, <1>2 DEF Counts, CountsOpen

\* A step that delivers nothing keeps the counts, if the copies it puts down
\* count right and it adds nothing to in_flight_.
LEMMA BudgetKept ==
    ASSUME BudgetInv, BrokerTypeOK, attempts' = attempts, next_id' \in {next_id, next_id + 1},
           \A m \in Waiting' : m \in Waiting \/ m = NoMessage \/ Counts(m, attempts[m.msg_id]),
           \A k \in Keys : Tracked(k)' => Tracked(k) /\ in_flight'[k] = in_flight[k]
    PROVE  BudgetInv'
<1>1. \A m \in Waiting' : m # NoMessage => Counts(m, attempts[m.msg_id])
  BY Zenon DEF BudgetInv
<1>2. \A k \in Keys : Tracked(k)' => CountsOpen(in_flight'[k].msg, attempts[k[1]])
  BY Zenon DEF BudgetInv
<1>3. \A i \in MsgIds : next_id' <= i => next_id <= i
  BY IdsPositive DEF BrokerTypeOK
<1>4. \A i \in MsgIds : attempts[i] <= MaxRetries + 1 /\ (next_id' <= i => attempts[i] = 0)
  BY <1>3, Zenon DEF BudgetInv
<1>5. /\ \A m, n : Counts(m, n)' <=> Counts(m', n')
      /\ \A m, n : CountsOpen(m, n)' <=> CountsOpen(m', n')
  BY Zenon DEF Counts, CountsOpen
<1> QED BY <1>1, <1>2, <1>4, <1>5, Zenon DEF BudgetInv

\* requeue_or_dlq with the erase that follows it.
LEMMA BudgetFail ==
    ASSUME BudgetInv, BrokerTypeOK, KeyMatches, attempts' = attempts,
           NEW k \in Keys, Tracked(k), requeue_or_dlq(k), Erase(k),
           popped' = popped, UNCHANGED handVars
    PROVE  BudgetInv'
<1> DEFINE m == in_flight[k].msg
<1>t. TypeOK
  BY DEF BrokerTypeOK
<1>1. /\ m \in Message /\ main_queue \in Seq(Message) /\ dlq \in Seq(Message)
      /\ \/ /\ m.retry_count < MaxRetries /\ dlq' = dlq
            /\ main_queue' = Append(main_queue, Retry(m))
         \/ /\ m.retry_count >= MaxRetries /\ main_queue' = main_queue
            /\ dlq' = Append(dlq, DeadLetter(m))
  BY <1>t, RequeueEffect, Zenon DEF TypeOK
<1>2. CountsOpen(m, attempts[m.msg_id])
  BY Zenon DEF BudgetInv, KeyMatches
<1> HIDE DEF m
<1>3. /\ Retry(m) \in Message /\ Retry(m).msg_id = m.msg_id
      /\ DeadLetter(m) \in Message /\ DeadLetter(m).msg_id = m.msg_id
  BY <1>1 DEF Message, Retry, DeadLetter
<1>4. \E x : /\ Range(main_queue') \cup Range(dlq') = Range(main_queue) \cup Range(dlq) \cup {x}
             /\ Counts(x, attempts[x.msg_id])
  <2>1. CASE m.retry_count < MaxRetries /\ dlq' = dlq /\ main_queue' = Append(main_queue, Retry(m))
    <3>1. Range(main_queue') = Range(main_queue) \cup {Retry(m)}
      BY <1>1, <1>3, <2>1, RangeAppend
    <3>2. Counts(Retry(m), attempts[m.msg_id])
      BY <1>1, <1>2, <2>1, FailCounts, Zenon
    <3> QED BY <1>3, <2>1, <3>1, <3>2, Zenon
  <2>2. CASE m.retry_count >= MaxRetries /\ main_queue' = main_queue
             /\ dlq' = Append(dlq, DeadLetter(m))
    <3>1. Range(dlq') = Range(dlq) \cup {DeadLetter(m)}
      BY <1>1, <1>3, <2>2, RangeAppend
    <3>2. Counts(DeadLetter(m), attempts[m.msg_id])
      BY <1>1, <1>2, <2>2, FailCounts, Zenon
    <3> QED BY <1>3, <2>2, <3>1, <3>2, Zenon
  <2> QED BY <1>1, <2>1, <2>2, Zenon
<1>5. \A x \in Waiting' : x \in Waiting \/ x = NoMessage \/ Counts(x, attempts[x.msg_id])
  BY <1>4, Zenon DEF Waiting, handVars
<1>6. \A q \in Keys : Tracked(q)' => Tracked(q) /\ in_flight'[q] = in_flight[q]
  <2>1. in_flight \in [Keys -> InFlight \cup {Untracked}]
    BY <1>t DEF TypeOK
  <2> QED BY <2>1 DEF Erase, Tracked
<1> QED BY <1>5, <1>6, BudgetKept, Zenon DEF handVars

\* A call of the engine fails deliveries, drops them or leaves them alone.
LEMMA BudgetCall ==
    ASSUME BudgetInv, BrokerTypeOK, LockOwned, KeyMatches, CallStep,
           UNCHANGED <<handVars, attempts>>
    PROVE  BudgetInv'
<1>t. TypeOK /\ in_flight \in [Keys -> InFlight \cup {Untracked}]
  BY DEF BrokerTypeOK, TypeOK
<1>1. ASSUME UNCHANGED <<main_queue, dlq, popped>>,
             \A k \in Keys : Tracked(k)' => Tracked(k) /\ in_flight'[k] = in_flight[k]
      PROVE  BudgetInv'
  <2>1. Waiting' = Waiting
    BY <1>1, Zenon DEF Waiting, handVars
  <2> QED BY <1>1, <2>1, BudgetKept, Zenon DEF handVars
<1>2. ASSUME UNCHANGED <<in_flight, main_queue, dlq, popped>> PROVE BudgetInv'
  BY <1>1, <1>2, Zenon DEF Tracked
<1>3. ASSUME NEW j \in MsgIds, NEW c \in Clients, Ack(j, c) PROVE BudgetInv'
  <2>1. \A k \in Keys : Tracked(k)' => Tracked(k) /\ in_flight'[k] = in_flight[k]
    BY <1>t, <1>3 DEF Ack, Erase, Tracked
  <2> QED BY <1>1, <1>3, <2>1, Zenon DEF Ack, queueVars
<1>4. ASSUME NEW c \in Clients, NackPush(c) PROVE BudgetInv'
  <2>1. <<nacking[c], c>> \in Keys /\ Tracked(<<nacking[c], c>>)
    BY <1>4, <1>t DEF NackPush, TypeOK, LockOwned, Keys
  <2> QED BY <1>4, <2>1, BudgetFail, Zenon DEF NackPush
<1>5. ASSUME NEW c \in Clients, GoneStep(c) PROVE BudgetInv'
  <2>1. PICK j \in TrackedBy(c) : requeue_or_dlq(<<j, c>>) /\ Erase(<<j, c>>)
    BY <1>5, Zenon DEF GoneStep
  <2>2. <<j, c>> \in Keys /\ Tracked(<<j, c>>)
    BY DEF TrackedBy, Keys
  <2> QED BY <1>5, <2>1, <2>2, BudgetFail, Zenon DEF GoneStep
<1>6. CASE ScanPop
  <2>1. PICK e \in deadlines :
           IF Expires(e) THEN requeue_or_dlq(e.key) /\ Erase(e.key)
                         ELSE UNCHANGED <<in_flight, main_queue, dlq>>
    BY <1>6, Zenon DEF ScanPop
  <2>2. e.key \in Keys
    BY <1>t DEF TypeOK
  <2>3. popped' = popped
    BY <1>6, Zenon DEF ScanPop
  <2>4. CASE Expires(e)
    BY <2>1, <2>2, <2>3, <2>4, BudgetFail, Zenon DEF Expires
  <2>5. CASE ~Expires(e)
    BY <1>2, <2>1, <2>3, <2>5, Zenon
  <2> QED BY <2>4, <2>5
<1> QED
  BY <1>2, <1>3, <1>4, <1>5, <1>6, Zenon
  DEF CallStep, HandlerStep, ScannerStep, NackLock, GoneLock, GoneEnd, ScanStamp,
      ScanLock, ScanEnd, queueVars

\* Nothing else holds a message that the dispatcher has, if it is in one place.
LEMMA DispatcherAlone ==
    ASSUME TypeOK, popped \in Message, Single(CopiesOf(popped.msg_id))
    PROVE  /\ \A m \in Range(main_queue) \cup Range(dlq) \cup Range(pushing) \cup {logger} :
                    DOMAIN pushing = Clients => m.msg_id # popped.msg_id
           /\ \A c \in Clients : ~Tracked(<<popped.msg_id, c>>)
<1> DEFINE i == popped.msg_id  z == <<"popped", 0>>
<1>1. \A x \in CopiesOf(i) : x = z
  BY Zenon DEF Single, CopiesOf
<1>2. \A n : <<"main", n>> # z /\ <<"dlq", n>> # z /\ <<"in_flight", n>> # z
             /\ <<"pushing", n>> # z /\ <<"logger", n>> # z
  OBVIOUS
<1> HIDE DEF z
<1>3. /\ \A n \in DOMAIN main_queue : main_queue[n].msg_id # i
      /\ \A n \in DOMAIN dlq : dlq[n].msg_id # i
      /\ \A c \in Clients : pushing[c].msg_id # i /\ ~Tracked(<<i, c>>)
      /\ logger.msg_id # i
  BY <1>1, <1>2, Zenon DEF CopiesOf
<1> QED BY <1>3, Zenon DEF Range

\* A delivery is counted: by the copy that goes in flight, which is the only one.
LEMMA BudgetDeliver ==
    ASSUME BudgetInv, BrokerTypeOK, OneInv, TrackAndSend PROVE BudgetInv'
<1> DEFINE i == popped.msg_id  q == <<popped.msg_id, Head(targets)>>
<1>t. /\ TypeOK /\ in_flight \in [Keys -> InFlight \cup {Untracked}]
      /\ pushing \in [Clients -> Message \cup {NoMessage}]
      /\ attempts \in [MsgIds -> Nat] /\ next_id \in Nat
  BY DEF BrokerTypeOK, TypeOK
<1>1. /\ popped \in Message /\ Head(targets) \in Clients /\ Tail(targets) = <<>>
      /\ popped' = NoMessage
  BY <1>t DEF TrackAndSend, Track, TypeOK, OneInv
<1>2. i \in MsgIds /\ q \in Keys /\ popped.retry_count \in Nat /\ popped.dead \in Nat
  BY <1>1 DEF Message, Keys
<1>3. Single(CopiesOf(i)) /\ i < next_id
  <2>1. CopiesOf(i) # {}
    BY Zenon DEF CopiesOf
  <2> QED BY <1>2, <2>1, Zenon DEF OneInv, UsedIds
<1>4. /\ \A m \in Range(main_queue) \cup Range(dlq) \cup Range(pushing) \cup {logger} :
            m.msg_id # i
      /\ \A c \in Clients : ~Tracked(<<i, c>>)
  <2>1. DOMAIN pushing = Clients
    BY <1>t, Zenon
  <2> QED BY <1>t, <1>1, <1>3, <2>1, DispatcherAlone, Zenon
<1>5. Counts(popped, attempts[i])
  <2>1. popped \in Waiting /\ popped # NoMessage
    BY <1>1, NullsDistinct, Zenon DEF Waiting
  <2> QED BY <2>1, Zenon DEF BudgetInv
<1>6. /\ attempts' = [j \in MsgIds |-> IF j = i /\ popped.dead = 0 THEN attempts[j] + 1
                                       ELSE attempts[j]]
      /\ next_id' = next_id
  BY Zenon DEF TrackAndSend
<1>7. /\ \A j \in MsgIds : j # i => attempts'[j] = attempts[j]
      /\ CountsOpen(popped, attempts'[i]) /\ attempts'[i] <= MaxRetries + 1
  <2>1. attempts'[i] = IF popped.dead = 0 THEN attempts[i] + 1 ELSE attempts[i]
    BY <1>2, <1>6
  <2>2. \A j \in MsgIds : j # i => attempts'[j] = attempts[j]
    BY <1>6
  <2> QED BY <1>2, <1>5, <2>1, <2>2, RetriesNat DEF Counts, CountsOpen
<1>8. UNCHANGED <<main_queue, dlq, pushing, logger>>
  BY Zenon DEF TrackAndSend, Track
<1>9. ASSUME NEW m \in Waiting', m # NoMessage PROVE Counts(m, attempts'[m.msg_id])
  <2>1. m \in Range(main_queue) \cup Range(dlq) \cup Range(pushing) \cup {logger}
    BY <1>1, <1>8, <1>9, Zenon DEF Waiting
  <2>2. m \in Waiting /\ m.msg_id # i
    BY <1>4, <2>1, Zenon DEF Waiting
  <2>3. m \in Message
    <3>1. /\ \A x \in Range(main_queue) \cup Range(dlq) : x \in Message
          /\ \A x \in Range(pushing) \cup {logger} : x \in Message \cup {NoMessage}
      BY <1>t DEF Range, TypeOK, BrokerTypeOK
    <3> QED BY <1>9, <2>1, <3>1, Zenon
  <2>4. m.msg_id \in MsgIds
    BY <2>3 DEF Message
  <2>5. Counts(m, attempts[m.msg_id])
    BY <1>9, <2>2, Zenon DEF BudgetInv
  <2> QED BY <1>7, <2>2, <2>4, <2>5, Zenon
<1>10. ASSUME NEW k \in Keys, Tracked(k)' PROVE CountsOpen(in_flight'[k].msg, attempts'[k[1]])
  <2>1. in_flight' = [in_flight EXCEPT ![q] = [msg |-> popped, deadline |-> now + AckTimeout]]
    BY Zenon DEF TrackAndSend, Track
  <2>2. CASE k = q
    <3>1. in_flight'[k].msg = popped /\ k[1] = i
      BY <1>t, <1>2, <2>1, <2>2
    <3> QED BY <1>7, <3>1, Zenon
  <2>3. CASE k # q
    <3>1. in_flight'[k] = in_flight[k] /\ Tracked(k)
      BY <1>t, <1>10, <2>1, <2>3 DEF Tracked
    <3>2. k = <<k[1], k[2]>> /\ k[1] \in MsgIds /\ k[2] \in Clients
      BY DEF Keys
    <3>3. k[1] # i
      BY <1>4, <3>1, <3>2, Zenon
    <3> QED BY <1>7, <3>1, <3>2, <3>3, Zenon DEF BudgetInv
  <2> QED BY <2>2, <2>3
<1>11. ASSUME NEW j \in MsgIds
       PROVE  attempts'[j] <= MaxRetries + 1 /\ (next_id' <= j => attempts'[j] = 0)
  <2>1. CASE j = i
    <3>1. ~(next_id' <= j)
      BY <1>t, <1>3, <1>6, <2>1, IdsPositive
    <3> QED BY <1>7, <2>1, <3>1, Zenon
  <2>2. CASE j # i
    BY <1>6, <1>7, <2>2, Zenon DEF BudgetInv
  <2> QED BY <2>1, <2>2
<1>12. /\ \A m, n : Counts(m, n)' <=> Counts(m', n')
       /\ \A m, n : CountsOpen(m, n)' <=> CountsOpen(m', n')
  BY Zenon DEF Counts, CountsOpen
<1> QED BY <1>9, <1>10, <1>11, <1>12, Zenon DEF BudgetInv

\* A new message has been delivered as often as its retry_count says: never.
LEMMA FreshCounts ==
    ASSUME BudgetInv, next_id \in MsgIds
    PROVE  Counts(Fresh(next_id), attempts[Fresh(next_id).msg_id])
<1>1. attempts[next_id] = 0
  BY IdsPositive DEF BudgetInv
<1>2. /\ Fresh(next_id).msg_id = next_id /\ Fresh(next_id).dead = 0
      /\ Fresh(next_id).retry_count = 0
  BY DEF Fresh
<1> QED BY <1>1, <1>2, RetriesNat DEF Counts

\* What an assignment to one client's entry adds.
LEMMA RangeExcept ==
    ASSUME NEW S, NEW T, NEW f \in [S -> T], NEW c \in S, NEW v
    PROVE  \A m \in Range([f EXCEPT ![c] = v]) : m \in Range(f) \/ m = v
  BY DEF Range

\* Messages that change hands keep their counts.
LEMMA BudgetHands ==
    ASSUME BudgetInv, BrokerTypeOK,
           \/ Pop /\ UNCHANGED <<handVars, attempts>>
           \/ (\E ts \in Seq(Clients) : Route(ts)) /\ UNCHANGED <<handVars, attempts>>
           \/ \E c \in Clients : OnPublish(c) \/ PublishPush(c)
           \/ LoggerPop \/ LoggerRepublish \/ LoggerAudit
    PROVE  BudgetInv'
<1>t. /\ TypeOK /\ main_queue \in Seq(Message) /\ dlq \in Seq(Message)
      /\ pushing \in [Clients -> Message \cup {NoMessage}]
  BY DEF BrokerTypeOK, TypeOK
<1> DEFINE Kept == \A m \in Waiting' :
                      m \in Waiting \/ m = NoMessage \/ Counts(m, attempts[m.msg_id])
<1>1. in_flight' = in_flight /\ attempts' = attempts /\ next_id' \in {next_id, next_id + 1}
  BY Zenon
  DEF Pop, Route, OnPublish, PublishPush, LoggerPop, LoggerRepublish, LoggerAudit, engineVars,
      handVars
<1>2. ASSUME Pop, UNCHANGED handVars PROVE Kept
  <2>1. Range(main_queue) = {Head(main_queue)} \cup Range(Tail(main_queue))
    BY <1>2, <1>t, RangeHeadTail DEF Pop
  <2> QED BY <1>2, <2>1, Zenon DEF Pop, Waiting, handVars
<1>3. ASSUME NEW ts, Route(ts), UNCHANGED handVars PROVE Kept
  BY <1>3, Zenon DEF Route, Waiting, handVars
<1>4. ASSUME NEW c \in Clients, OnPublish(c) PROVE Kept
  <2>0. pushing' = [pushing EXCEPT ![c] = Fresh(next_id)]
    BY <1>4, Zenon DEF OnPublish
  <2>1. \A m \in Range(pushing') : m \in Range(pushing) \/ m = Fresh(next_id)
    BY <1>t, <2>0, RangeExcept, Zenon
  <2>2. Counts(Fresh(next_id), attempts[Fresh(next_id).msg_id])
    BY <1>4, FreshCounts, Zenon DEF OnPublish
  <2>3. UNCHANGED <<main_queue, dlq, popped, logger>>
    BY <1>4, Zenon DEF OnPublish, queueVars
  <2> QED BY <2>1, <2>2, <2>3, Zenon DEF Waiting
<1>5. ASSUME NEW c \in Clients, PublishPush(c) PROVE Kept
  <2>1. pushing[c] \in Message /\ pushing[c] \in Range(pushing)
    BY <1>5, <1>t, HandTypes DEF PublishPush, Range
  <2>0. /\ main_queue' = Append(main_queue, pushing[c])
        /\ pushing' = [pushing EXCEPT ![c] = NoMessage]
    BY <1>5, Zenon DEF PublishPush
  <2>2. Range(main_queue') = Range(main_queue) \cup {pushing[c]}
    BY <1>t, <2>0, <2>1, RangeAppend
  <2>3. \A m \in Range(pushing') : m \in Range(pushing) \/ m = NoMessage
    BY <1>t, <2>0, RangeExcept, Zenon
  <2>4. UNCHANGED <<dlq, popped, logger>>
    BY <1>5, Zenon DEF PublishPush
  <2> QED BY <2>1, <2>2, <2>3, <2>4, Zenon DEF Waiting
<1>6. ASSUME LoggerPop PROVE Kept
  <2>1. Range(dlq) = {Head(dlq)} \cup Range(Tail(dlq))
    BY <1>6, <1>t, RangeHeadTail DEF LoggerPop
  <2> QED BY <1>6, <2>1, Zenon DEF LoggerPop, Waiting
<1>7. ASSUME LoggerRepublish \/ LoggerAudit PROVE Kept
  <2>0. logger # NoMessage
    BY <1>7, Zenon DEF LoggerRepublish, LoggerAudit
  <2>1. logger \in Message
    BY <2>0, HandTypes, Zenon
  <2>2. main_queue' = Append(main_queue, logger)
    BY <1>7, Zenon DEF LoggerRepublish, LoggerAudit
  <2>3. Range(main_queue') = Range(main_queue) \cup {logger}
    BY <1>t, <2>1, <2>2, RangeAppend
  <2>4. logger' = NoMessage \/ Counts(logger', attempts[logger'.msg_id])
    BY <1>7, FreshCounts, Zenon DEF LoggerRepublish, LoggerAudit
  <2>5. UNCHANGED <<dlq, popped, pushing>>
    BY <1>7, Zenon DEF LoggerRepublish, LoggerAudit
  <2>6. \A m \in Waiting' : m \in Waiting \/ m = logger'
    BY <2>3, <2>5, Zenon DEF Waiting
  <2> QED BY <2>4, <2>6, Zenon
<1>8. Kept
  BY <1>2, <1>3, <1>4, <1>5, <1>6, <1>7, Zenon
<1> QED BY <1>1, <1>8, BudgetKept, Zenon DEF Tracked

\* Every thread's step keeps the counts.
LEMMA BudgetStep ==
    ASSUME BudgetInv, BrokerInv, OneInv, [BrokerNext]_allVars PROVE BudgetInv'
<1>1. BrokerTypeOK /\ LockOwned /\ KeyMatches
  BY Zenon DEF BrokerInv
<1>2. CASE UNCHANGED <<vars, handVars, attempts>>
  <2>1. Waiting' = Waiting /\ in_flight' = in_flight /\ next_id' = next_id
    BY <1>2, Zenon DEF Waiting, handVars, vars, engineVars, queueVars
  <2> QED BY <1>1, <1>2, <2>1, BudgetKept, Zenon DEF Tracked
<1> QED BY <1>1, <1>2, BudgetCall, BudgetDeliver, BudgetHands, StepCases, Zenon

\* With one consumer group for each topic the retry budget is spent exactly: no
\* message is delivered more than max_retries + 1 times under its own topic, and
\* none becomes a dead letter before that.  The count is neither lost nor reset
\* on the way through in_flight_, main_queue and the threads' hands.
THEOREM BudgetExact == BrokerSpec => []BudgetSpent
<1> DEFINE Inv == OneGroupEach => OneInv /\ BudgetInv
<1>1. BrokerInit => Inv
  <2> SUFFICES ASSUME BrokerInit PROVE BudgetInv
    BY OneInit, Zenon
  <2>1. \A m \in Waiting : m = NoMessage
    <3>1. Range(main_queue) = {} /\ Range(dlq) = {}
      BY DEF BrokerInit, Init, Range
    <3>2. \A m \in Range(pushing) : m = NoMessage
      BY DEF BrokerInit, Range
    <3> QED BY <3>1, <3>2, Zenon DEF BrokerInit, Init, Waiting
  <2>2. \A k \in Keys : ~Tracked(k)
    BY DEF BrokerInit, Init, Tracked
  <2>3. \A i \in MsgIds : attempts[i] = 0 /\ attempts[i] <= MaxRetries + 1
    BY RetriesNat DEF BrokerInit
  <2> QED BY <2>1, <2>2, <2>3, Zenon DEF BudgetInv
<1>2. BrokerInv /\ Inv /\ [BrokerNext]_allVars => Inv'
  <2>1. OneGroupEach' => OneGroupEach
    BY DEF OneGroupEach, TopicMatches
  <2> QED BY <2>1, OneStep, BudgetStep, Zenon
<1>3. BrokerInv /\ Inv => BudgetSpent
  <2> SUFFICES ASSUME BrokerInv, OneGroupEach, BudgetInv, NEW m \in AllCopies, m.dead > 0
               PROVE  attempts[m.msg_id] = MaxRetries + 1
    BY Zenon DEF BudgetSpent, BudgetInv
  <2>1. NoMessage.dead = 0 /\ Untracked.msg = NoMessage
    BY DEF NoMessage, Untracked
  <2>2. m # NoMessage /\ m.dead # 0
    BY <2>1
  <2>3. CASE m \in Waiting
    BY <2>2, <2>3, Zenon DEF BudgetInv, Counts
  <2>4. ASSUME NEW k \in Keys, m = in_flight[k].msg PROVE attempts[m.msg_id] = MaxRetries + 1
    <3>1. Tracked(k)
      BY <2>1, <2>2, <2>4, Zenon DEF Tracked
    <3>2. m.msg_id = k[1]
      BY <2>4, <3>1, Zenon DEF BrokerInv, KeyMatches
    <3> QED BY <2>2, <2>4, <3>1, <3>2, Zenon DEF BudgetInv, CountsOpen
  <2> QED BY <2>3, <2>4, Zenon DEF AllCopies, Waiting
<1> QED BY <1>1, <1>2, <1>3, BrokerInductive, PTL DEF BrokerSpec
==============================================================================
