---------------------------- MODULE GatewayProofs ----------------------------
(***************************************************************************)
(* The gateway's subscription maps, its idempotency ring and what the      *)
(* broker knows of its topics, for any number of clients, patterns and     *)
(* ids, any ring size and any queue size.                                  *)
(***************************************************************************)
EXTENDS Gateway, TLAPS

\* The step of #ringIndex, without the remainder.
LEMMA NextSlot ==
    ASSUME NEW j \in Slots
    PROVE  (j + 1) % RingSize = IF j + 1 = RingSize THEN 0 ELSE j + 1
BY RingSizePositive, SMT DEF Slots

\* A gateway that has just started is well formed.
LEMMA TypeInit == Init => TypeOK
<1>1. 0 \in Slots /\ 0 \in 0..RingSize
  BY RingSizePositive DEF Slots
<1>2. SUFFICES ASSUME Init PROVE TypeOK
  OBVIOUS
<1>3. /\ wsState \in [Ws -> {"closed", "open", "closing"}]
      /\ clientTopics \in [Ws -> SUBSET Patterns]
      /\ topicClients \in [Patterns -> SUBSET Ws]
  BY <1>2 DEF Init
<1>4. ring \in [Slots -> MsgIds \cup {0}] /\ outQueue \in Seq(Frames)
  BY <1>2 DEF Init
<1> QED BY Zenon, <1>1, <1>2, <1>3, <1>4 DEF Init, TypeOK

\* The gateway that follows one that a handler has ended is one that starts.
LEMMA Restarted ==
    ASSUME NEW w \in Ws, HandlerThrows(w)
    PROVE  Init'
BY Zenon DEF HandlerThrows, Init

\* Every handler keeps the variables in their types.
LEMMA TypeStep == TypeOK /\ [Next]_vars => TypeOK'
<1> SUFFICES ASSUME TypeOK, [Next]_vars PROVE TypeOK'
  OBVIOUS
<1> USE DEF TypeOK
<1>q. ASSUME NEW f \in Frames, Send(f)
      PROVE  connected' \in BOOLEAN /\ outQueue' \in Seq(Frames)
                /\ brokerSubs' \in SUBSET SubscribeFrames
  BY <1>q DEF Send, Frames
<1>0. ASSUME NEW q \in Seq(Frames) PROVE Range(q) \ {Other} \subseteq SubscribeFrames
  BY DEF Range, Frames
<1>1. CASE TcpConnect
  BY <1>1, <1>0 DEF TcpConnect, Resubscribed, indexVars, ringVars, SubscribeFrames
<1>2. CASE TcpClose
  BY Zenon, <1>2 DEF TcpClose, indexVars, ringVars
<1>3. CASE StatsTimer
  BY <1>3 DEF StatsTimer, indexVars, ringVars, tcpVars
<1>4. ASSUME NEW w \in Ws, Connection(w) PROVE TypeOK'
  BY <1>4 DEF Connection, ringVars, tcpVars
<1>5. ASSUME NEW w \in Ws, Forward(w) PROVE TypeOK'
  BY <1>5, <1>q DEF Forward, Frames, indexVars, ringVars
<1>6. ASSUME NEW w \in Ws, Closing(w) PROVE TypeOK'
  BY <1>6 DEF Closing, ringVars, tcpVars
<1>7. ASSUME NEW w \in Ws, Cleanup(w) PROVE TypeOK'
  BY <1>7 DEF Cleanup, ringVars, tcpVars
<1>8. ASSUME NEW w \in Ws, NEW p \in Patterns, NEW g \in Groups \cup {NoGroup},
             Subscribe(w, p, g)
      PROVE  TypeOK'
  <2>1. <<p, g>> \in Frames
    BY DEF Frames, SubscribeFrames
  <2> QED BY <1>8, <1>q, <2>1 DEF Subscribe, ringVars
<1>9. ASSUME NEW t \in Topics, DispatchUnchecked(t) PROVE TypeOK'
  BY <1>9 DEF DispatchUnchecked, indexVars, ringVars, tcpVars
<1>10. ASSUME NEW t \in Topics, NEW i \in MsgIds, DispatchEvent(t, i) PROVE TypeOK'
  <2>1. Remember(i) /\ UNCHANGED <<indexVars, tcpVars>>
    BY <1>10 DEF DispatchEvent
  <2>2. ringIndex' \in Slots
    BY <2>1, NextSlot, RingSizePositive DEF Remember, Slots
  <2>3. ringCount' \in 0..RingSize
    BY <2>1, RingSizePositive DEF Remember
  <2> QED BY <2>1, <2>2, <2>3 DEF Remember, indexVars, tcpVars
<1>r. ASSUME NEW w \in Ws, HandlerThrows(w) PROVE TypeOK'
  <2>1. Init'
    BY <1>r, Restarted
  <2>2. Init' => TypeOK'
    BY TypeInit, PTL
  <2> QED BY <2>1, <2>2, Zenon
<1>11. CASE UNCHANGED vars
  BY <1>11 DEF vars, indexVars, ringVars, tcpVars
<1> QED
  BY <1>1, <1>2, <1>3, <1>4, <1>5, <1>6, <1>7, <1>8, <1>9, <1>10, <1>11, <1>r
  DEF Next
------------------------------------------------------------------------------
\* The two maps and the broker's subscriptions together: a pattern that a client
\* uses has that client in the reverse map, so that it is subscribed again.
Subscriptions == IndexesAgree /\ TopicsSubscribed

\* At the start there are no clients.
LEMMA SubscriptionsInit == Init => Subscriptions
BY DEF Init, Subscriptions, IndexesAgree, TopicsSubscribed

\* Every handler keeps the maps consistent and the topics in use subscribed.
LEMMA SubscriptionsStep ==
    TypeOK /\ Subscriptions /\ [Next]_vars => Subscriptions'
<1> SUFFICES ASSUME TypeOK, Subscriptions, [Next]_vars PROVE Subscriptions'
  OBVIOUS
<1> USE DEF TypeOK, Subscriptions, IndexesAgree, TopicsSubscribed
<1>1. CASE TcpConnect
  <2>1. ASSUME NEW w \in Ws, NEW p \in clientTopics[w]
        PROVE  <<p, NoGroup>> \in brokerSubs'
    <3>1. p \in Patterns /\ topicClients[p] # {}
      OBVIOUS
    <3> QED BY <1>1, <3>1 DEF TcpConnect, Resubscribed
  <2> QED BY Zenon, <1>1, <2>1 DEF TcpConnect, indexVars
<1>2. CASE TcpClose
  BY <1>2 DEF TcpClose, indexVars
<1>3. CASE StatsTimer
  BY Zenon, <1>3 DEF StatsTimer, indexVars, tcpVars
<1>4. ASSUME NEW w \in Ws, Connection(w) PROVE Subscriptions'
  BY Zenon, <1>4 DEF Connection, tcpVars
<1>5. ASSUME NEW w \in Ws, Forward(w) PROVE Subscriptions'
  BY Zenon, <1>5 DEF Forward, Send, indexVars
<1>6. ASSUME NEW w \in Ws, Closing(w) PROVE Subscriptions'
  BY Zenon, <1>6 DEF Closing, tcpVars
<1>7. ASSUME NEW w \in Ws, Cleanup(w) PROVE Subscriptions'
  <2>1. IndexesAgree'
    BY <1>7 DEF Cleanup
  <2>2. TopicsSubscribed'
    BY <1>7 DEF Cleanup, tcpVars
  <2> QED BY Zenon, <2>1, <2>2
<1>8. ASSUME NEW w \in Ws, NEW p \in Patterns, NEW g \in Groups \cup {NoGroup},
             Subscribe(w, p, g)
      PROVE  Subscriptions'
  <2>1. IndexesAgree'
    BY <1>8 DEF Subscribe
  <2>2. connected' => <<p, g>> \in brokerSubs'
    <3>1. <<p, g>> # Other
      BY DEF Other
    <3> QED BY <1>8, <3>1 DEF Subscribe, Send
  <2>3. connected' = connected /\ brokerSubs \subseteq brokerSubs'
    BY <1>8 DEF Subscribe, Send
  <2>4. ASSUME NEW v \in Ws, NEW q \in clientTopics'[v]
        PROVE  q \in clientTopics[v] \/ q = p
    BY <1>8 DEF Subscribe
  <2>5. TopicsSubscribed'
    BY Zenon, <2>2, <2>3, <2>4
  <2> QED BY Zenon, <2>1, <2>5
<1>9. ASSUME NEW t \in Topics, DispatchUnchecked(t) PROVE Subscriptions'
  BY Zenon, <1>9 DEF DispatchUnchecked, indexVars, tcpVars
<1>10. ASSUME NEW t \in Topics, NEW i \in MsgIds, DispatchEvent(t, i) PROVE Subscriptions'
  BY Zenon, <1>10 DEF DispatchEvent, indexVars, tcpVars
<1>11. CASE UNCHANGED vars
  BY Zenon, <1>11 DEF vars, indexVars, tcpVars
<1>r. ASSUME NEW w \in Ws, HandlerThrows(w) PROVE Subscriptions'
  <2>1. Init'
    BY <1>r, Restarted
  <2>2. Init' => Subscriptions'
    BY SubscriptionsInit, PTL
  <2> QED BY <2>1, <2>2, Zenon
<1> QED
  BY Zenon, <1>1, <1>2, <1>3, <1>4, <1>5, <1>6, <1>7, <1>8, <1>9, <1>10, <1>11, <1>r DEF Next
------------------------------------------------------------------------------
\* The slot of the id that passed d events before the last one.
SlotOf(d) == IF d < ringIndex THEN ringIndex - 1 - d ELSE ringIndex - 1 - d + RingSize

\* The used slots hold the last ids that passed.
Window ==
    /\ accepted \in Seq(MsgIds)
    /\ ringCount = IF Len(accepted) < RingSize THEN Len(accepted) ELSE RingSize
    /\ \A d \in 0..(ringCount - 1) : ring[SlotOf(d)] = accepted[Len(accepted) - d]

RingInv == RingExact /\ Window /\ WindowedOnce

\* An event that passes the check of #dispatchEvent leaves ring, set and history
\* in agreement.
LEMMA RememberStep ==
    ASSUME TypeOK, RingInv, NEW i \in MsgIds, i \notin recentMsgIds,
           Remember(i), accepted' = Append(accepted, i)
    PROVE  RingInv'
<1> DEFINE n == Len(accepted)
<1>0. /\ RingSize \in Nat \ {0} /\ n \in Nat
      /\ ringIndex \in 0..(RingSize - 1) /\ ringCount \in 0..RingSize
      /\ ringIndex' = IF ringIndex + 1 = RingSize THEN 0 ELSE ringIndex + 1
      /\ ringCount' = IF ringCount = RingSize THEN ringCount ELSE ringCount + 1
      /\ ring \in [0..(RingSize - 1) -> MsgIds \cup {0}]
      /\ ring' = [ring EXCEPT ![ringIndex] = i]
  BY RingSizePositive, NextSlot DEF TypeOK, RingInv, Window, Remember, Slots
<1>1. /\ accepted' \in Seq(MsgIds) /\ Len(accepted') = n + 1
      /\ accepted'[n + 1] = i
      /\ \A k \in 1..n : accepted'[k] = accepted[k]
  BY DEF RingInv, Window
<1>2. ringCount < RingSize => ringIndex = ringCount
  BY DEF RingInv, RingExact
<1>3. \A j \in 0..(ringCount - 1) : ring[j] # i
  BY DEF RingInv, RingExact
<1>4. RingExact'
  <2>1. ringCount' < RingSize => ringIndex' = ringCount'
    BY <1>0, <1>2
  <2>2. \A j, k \in 0..(ringCount' - 1) : ring'[j] = ring'[k] => j = k
    <3>1. SUFFICES ASSUME NEW j \in 0..(ringCount' - 1), NEW k \in 0..(ringCount' - 1),
                          ring'[j] = ring'[k], j # k
                   PROVE  FALSE
      OBVIOUS
    <3>2. j \in Int /\ k \in Int /\ j \in 0..(RingSize - 1) /\ k \in 0..(RingSize - 1)
      BY <1>0
    <3>3. CASE j # ringIndex /\ k # ringIndex
      <4>1. j \in 0..(ringCount - 1) /\ k \in 0..(ringCount - 1)
        BY <1>0, <1>2, <3>2, <3>3
      <4> QED BY <1>0, <3>1, <3>2, <3>3, <4>1 DEF RingInv, RingExact
    <3>4. CASE j = ringIndex
      <4>1. k \in 0..(ringCount - 1)
        BY <1>0, <1>2, <3>1, <3>2, <3>4
      <4> QED BY <1>0, <1>3, <3>1, <3>2, <3>4, <4>1
    <3>5. CASE k = ringIndex
      <4>1. j \in 0..(ringCount - 1)
        BY <1>0, <1>2, <3>1, <3>2, <3>5
      <4> QED BY <1>0, <1>3, <3>1, <3>2, <3>5, <4>1
    <3> QED BY <3>3, <3>4, <3>5
  <2>3. CASE ringCount < RingSize
    <3>1. recentMsgIds' = recentMsgIds \cup {i}
      BY <1>0, <2>3 DEF Remember
    <3>2. /\ 0..(ringCount' - 1) = (0..(ringCount - 1)) \cup {ringCount}
          /\ ring'[ringCount] = i
          /\ \A j \in 0..(ringCount - 1) : ring'[j] = ring[j]
      BY <1>0, <1>2, <2>3
    <3>3. recentMsgIds = {ring[j] : j \in 0..(ringCount - 1)}
      BY DEF RingInv, RingExact
    <3>4. recentMsgIds' = {ring'[j] : j \in 0..(ringCount' - 1)}
      BY SMTT(40), <3>1, <3>2, <3>3
    <3> QED BY <2>1, <2>2, <3>4 DEF RingExact
  <2>4. CASE ringCount = RingSize
    <3>1. recentMsgIds' = (recentMsgIds \ {ring[ringIndex]}) \cup {i}
      BY <2>4 DEF Remember
    <3>2. recentMsgIds = {ring[j] : j \in 0..(RingSize - 1)}
      BY <2>4 DEF RingInv, RingExact
    <3>3. \A j \in 0..(RingSize - 1) : j # ringIndex => ring[j] # ring[ringIndex]
      BY <1>0, <2>4 DEF RingInv, RingExact
    <3>4. \A j \in 0..(RingSize - 1) :
              ring'[j] = IF j = ringIndex THEN i ELSE ring[j]
      BY <1>0
    <3>5. recentMsgIds' = {ring'[j] : j \in 0..(RingSize - 1)}
      <4>1. ringIndex \in 0..(RingSize - 1)
        BY <1>0
      <4> QED BY <3>1, <3>2, <3>3, <3>4, <4>1
    <3>6. ringCount' = RingSize
      BY <1>0, <2>4
    <3> QED BY <2>1, <2>2, <3>5, <3>6 DEF RingExact
  <2> QED BY <1>0, <2>3, <2>4
<1>5. Window'
  <2>1. ringCount' = IF n + 1 < RingSize THEN n + 1 ELSE RingSize
    BY <1>0 DEF RingInv, Window
  <2>2. ASSUME NEW d \in 0..(ringCount' - 1)
        PROVE  ring'[SlotOf(d)'] = accepted'[n + 1 - d]
    <3>1. CASE d = 0
      <4>1. SlotOf(d)' = ringIndex
        BY <1>0, <3>1 DEF SlotOf
      <4> QED BY <1>0, <1>1, <3>1, <4>1
    <3>2. CASE d # 0
      <4>1. d \in Int /\ d - 1 \in 0..(ringCount - 1)
        BY <1>0, <3>2
      <4>2. SlotOf(d)' = SlotOf(d - 1)
        BY <1>0, <3>2, <4>1 DEF SlotOf
      <4>3. SlotOf(d - 1) \in 0..(RingSize - 1) /\ SlotOf(d - 1) # ringIndex
        BY <1>0, <1>2, <3>2, <4>1 DEF SlotOf
      <4>4. ring[SlotOf(d - 1)] = accepted[n - (d - 1)]
        BY <4>1 DEF RingInv, Window
      <4>5. n - (d - 1) = n + 1 - d /\ n + 1 - d \in 1..n
        BY <1>0, <2>1, <3>2, <4>1
      <4> QED BY <1>0, <1>1, <4>2, <4>3, <4>4, <4>5
    <3> QED BY Zenon, <3>1, <3>2
  <2> QED BY <1>1, <2>1, <2>2 DEF Window
<1>6. WindowedOnce'
  <2>1. SUFFICES ASSUME NEW k \in 1..(n + 1), NEW m \in 1..(n + 1),
                        k < m, accepted'[k] = accepted'[m]
                 PROVE  m - k > RingSize
    BY <1>1 DEF WindowedOnce
  <2>2. CASE m <= n
    <3>1. k \in DOMAIN accepted /\ m \in DOMAIN accepted
      BY <1>0, <2>1, <2>2 DEF RingInv, Window
    <3>2. accepted[k] = accepted[m]
      BY <1>0, <1>1, <2>1, <2>2
    <3> QED BY <2>1, <3>1, <3>2 DEF RingInv, WindowedOnce
  <2>3. CASE m = n + 1
    <3>1. k \in 1..n /\ accepted[k] = i
      BY <1>0, <1>1, <2>1, <2>3
    <3>2. CASE n - k < ringCount
      <4>1. n - k \in 0..(ringCount - 1) /\ n - (n - k) = k
        BY <1>0, <3>1, <3>2
      <4>2. ring[SlotOf(n - k)] = i
        BY <3>1, <4>1 DEF RingInv, Window
      <4>3. SlotOf(n - k) \in 0..(ringCount - 1)
        BY <1>0, <1>2, <4>1 DEF SlotOf
      <4> QED BY <1>3, <4>2, <4>3
    <3>3. CASE n - k >= ringCount
      BY <1>0, <2>3, <3>1, <3>3 DEF RingInv, Window
    <3> QED BY <1>0, <3>1, <3>2, <3>3
  <2>4. m <= n \/ m = n + 1
    BY <1>0
  <2> QED BY Zenon, <2>2, <2>3, <2>4
<1> QED BY <1>4, <1>5, <1>6 DEF RingInv

\* The ring starts empty.
LEMMA RingInit == Init => RingInv
BY RingSizePositive DEF Init, RingInv, RingExact, Window, WindowedOnce

\* No other handler touches the ring; the end of the process empties it.
LEMMA RingStep == TypeOK /\ RingInv /\ [Next]_vars => RingInv'
<1> SUFFICES ASSUME TypeOK, RingInv, [Next]_vars PROVE RingInv'
  OBVIOUS
<1>1. ASSUME NEW t \in Topics, NEW i \in MsgIds, DispatchEvent(t, i) PROVE RingInv'
  BY <1>1, RememberStep DEF DispatchEvent
<1>2. ASSUME UNCHANGED <<ringVars, accepted>> PROVE RingInv'
  BY SMTT(40), <1>2 DEF RingInv, RingExact, Window, WindowedOnce, SlotOf, ringVars
<1>r. ASSUME NEW w \in Ws, HandlerThrows(w) PROVE RingInv'
  <2>1. Init'
    BY <1>r, Restarted
  <2>2. Init' => RingInv'
    BY RingInit, PTL
  <2> QED BY <2>1, <2>2, Zenon
<1>3. \/ \E t \in Topics, i \in MsgIds : DispatchEvent(t, i)
      \/ \E w \in Ws : HandlerThrows(w)
      \/ UNCHANGED <<ringVars, accepted>>
  BY Zenon DEF Next, vars, history, TcpConnect, TcpClose, StatsTimer, Connection, Forward,
         Closing, Cleanup, Subscribe, DispatchUnchecked
<1> QED BY <1>1, <1>2, <1>3, <1>r
------------------------------------------------------------------------------
\* The variables keep their types in every behaviour of the gateway.
THEOREM TypeCorrect == Spec => []TypeOK
BY TypeInit, TypeStep, PTL DEF Spec

\* #clientTopics and #topicClients are inverse to each other at all times.
THEOREM MapsAgree == Spec => []IndexesAgree
<1>1. Subscriptions => IndexesAgree
  BY DEF Subscriptions
<1> QED BY <1>1, SubscriptionsInit, SubscriptionsStep, TypeCorrect, PTL DEF Spec

\* Whatever is queued, dropped or lost, a connected broker has a subscription
\* for every pattern in use.
THEOREM TopicsKept == Spec => []TopicsSubscribed
<1>1. Subscriptions => TopicsSubscribed
  BY DEF Subscriptions
<1> QED BY <1>1, SubscriptionsInit, SubscriptionsStep, TypeCorrect, PTL DEF Spec

\* The ring invariant holds at the start and is kept.
LEMMA RingAlways == Spec => []RingInv
BY RingInit, RingStep, TypeCorrect, PTL DEF Spec

\* #recentMsgIds and #recentMsgIdRing hold the same ids.
THEOREM RingNeverDrifts == Spec => []RingExact
<1>1. RingInv => RingExact
  BY DEF RingInv
<1> QED BY <1>1, RingAlways, PTL

\* Between two passes of one id there are at least RingSize others.
THEOREM OncePerWindow == Spec => []WindowedOnce
<1>1. RingInv => WindowedOnce
  BY DEF RingInv
<1> QED BY <1>1, RingAlways, PTL
==============================================================================
